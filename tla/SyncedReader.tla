---------------------------- MODULE SyncedReader ----------------------------
(***************************************************************************)
(* The pipe between the goroutine that writes a packfile (PackWriter.Write *)
(* and Close) and the goroutine that parses it while it is written         *)
(* (PackWriter.buildIndex), storage/filesystem/dotgit/writers.go.          *)
(*                                                                         *)
(* Both ends work on one temporary file.  syncedReader puts the reader to  *)
(* sleep on the unbuffered channel `news` when it has caught up with the   *)
(* writer, and the writer wakes it up.  Every atomic load, atomic store    *)
(* and channel operation is a step of its own.  Bytes are abstracted to    *)
(* offsets: `file` is the length of the temporary file, `pos` the offset   *)
(* of the read descriptor.                                                 *)
(***************************************************************************)
EXTENDS Integers

CONSTANTS MaxBytes,  \* the most bytes the writer puts in the file
          MaxSeeks   \* the most seeks the parser makes

ASSUME BoundsAssumption == MaxBytes \in Nat /\ MaxSeeks \in Nat

VARIABLES
    file,     \* length of the temporary file
    pos,      \* offset of the read descriptor
    written,  \* syncedReader.written
    read,     \* syncedReader.read
    blocked,  \* syncedReader.blocked, 0 or 1
    done,     \* syncedReader.done, 0 or 1
    news,     \* whether the channel syncedReader.news is open
    wpc,      \* where the writing goroutine is
    wn,       \* bytes of the Write in progress
    rpc,      \* where the parsing goroutine is
    rn,       \* bytes of the Read in progress
    err,      \* the error of the last Read
    seeks     \* seeks made so far

wvars == <<file, written, done, news, wpc, wn>>
rvars == <<pos, read, rpc, rn, err, seeks>>
vars  == <<wvars, rvars, blocked>>

WPCs == {"idle", "add", "load", "isBlocked", "wake", "send", "close", "wait", "joined"}
RPCs == {"idle", "sleep", "block", "recv", "pread", "isDone", "return", "parsed"}

\* newPackWrite: an empty temporary file, opened once more for reading.
Init ==
    /\ file = 0 /\ pos = 0
    /\ written = 0 /\ read = 0
    /\ blocked = 0 /\ done = 0 /\ news = "open"
    /\ wpc = "idle" /\ wn = 0
    /\ rpc = "idle" /\ rn = 0 /\ err = "nil"
    /\ seeks = 0

-----------------------------------------------------------------------------
(* The writing goroutine.                                                  *)

\* syncedReader.Write: s.w.Write may write less than it was asked to.
WWrite ==
    /\ wpc = "idle"
    /\ \E n \in 0 .. (MaxBytes - file) :
          /\ file' = file + n
          /\ wn' = n
    /\ wpc' = "add"
    /\ UNCHANGED <<written, done, news, rvars, blocked>>

\* The deferred atomic.AddUint64(&s.written, n).
WAdd ==
    /\ wpc = "add"
    /\ written' = written + wn
    /\ wn' = 0
    /\ wpc' = "load"
    /\ UNCHANGED <<file, done, news, rvars, blocked>>

\* The deferred atomic.LoadUint64(&s.read) and its comparison.
WLoad ==
    /\ wpc = "load"
    /\ wpc' = IF written > read THEN "isBlocked" ELSE "idle"
    /\ UNCHANGED <<file, written, done, news, wn, rvars, blocked>>

\* Mutant of WIsBlocked: wake sends whether or not the reader is blocked.
WIsBlockedNotAsked ==
    /\ wpc = "isBlocked"
    /\ wpc' = "wake"
    /\ UNCHANGED <<file, written, done, news, wn, rvars, blocked>>

\* wake: the test of s.isBlocked().
WIsBlocked ==
    /\ wpc = "isBlocked"
    /\ wpc' = IF blocked = 1 THEN "wake" ELSE "idle"
    /\ UNCHANGED <<file, written, done, news, wn, rvars, blocked>>

\* wake: atomic.StoreUint32(&s.blocked, 0).
WUnblock ==
    /\ wpc = "wake"
    /\ blocked' = 0
    /\ wpc' = "send"
    /\ UNCHANGED <<file, written, done, news, wn, rvars>>

\* wake: s.news <- true, a rendezvous with the reader's <-s.news.
Rendezvous ==
    /\ wpc = "send"
    /\ rpc = "recv"
    /\ wpc' = "idle"
    /\ rpc' = "pread"
    /\ UNCHANGED <<file, written, done, news, wn, pos, read, rn, err, seeks, blocked>>

\* syncedReader.Close, called by PackWriter.Close: done is set ...
WDone ==
    /\ wpc = "idle"
    /\ done' = 1
    /\ wpc' = "close"
    /\ UNCHANGED <<file, written, news, wn, rvars, blocked>>

\* Mutant of WClose: news stays open.
WCloseLeavesNews ==
    /\ wpc = "close"
    /\ wpc' = "wait"
    /\ UNCHANGED <<file, written, done, news, wn, rvars, blocked>>

\* ... and news is closed.
WClose ==
    /\ wpc = "close"
    /\ news' = "closed"
    /\ wpc' = "wait"
    /\ UNCHANGED <<file, written, done, wn, rvars, blocked>>

\* waitBuildIndex: <-w.result, a rendezvous with the end of buildIndex.
WJoin ==
    /\ wpc = "wait"
    /\ rpc = "parsed"
    /\ wpc' = "joined"
    /\ UNCHANGED <<file, written, done, news, wn, rvars, blocked>>

-----------------------------------------------------------------------------
(* The parsing goroutine.                                                  *)

\* The parser calls Read again, unless the last Read returned io.EOF.
RRead ==
    /\ rpc = "idle" /\ err = "nil"
    /\ rpc' = "sleep"
    /\ UNCHANGED <<pos, read, rn, err, seeks, wvars, blocked>>

\* Mutant of RSeek: the counter is not moved with the descriptor.
RSeekKeepsRead ==
    /\ rpc = "idle"
    /\ seeks < MaxSeeks
    /\ \E p \in 0 .. MaxBytes : pos' = p
    /\ seeks' = seeks + 1
    /\ err' = "nil"
    /\ UNCHANGED <<read, rpc, rn, wvars, blocked>>

\* Seek with io.SeekStart, to any offset, written or not; the scanner never
\* seeks relative to the current offset.
RSeek ==
    /\ rpc = "idle"
    /\ seeks < MaxSeeks
    /\ \E p \in 0 .. MaxBytes :
          /\ pos' = p
          /\ read' = p
    /\ seeks' = seeks + 1
    /\ err' = "nil"
    /\ UNCHANGED <<rpc, rn, wvars, blocked>>

\* Parse returns, with an error or at the end of the pack; buildIndex then
\* blocks on w.result until PackWriter.Close receives.
RParsed ==
    /\ rpc = "idle"
    /\ rpc' = "parsed"
    /\ UNCHANGED <<pos, read, rn, err, seeks, wvars, blocked>>

\* sleep: both loads and their comparison (only this goroutine stores read).
RSleep ==
    /\ rpc = "sleep"
    /\ rpc' = IF read >= written THEN "block" ELSE "pread"
    /\ UNCHANGED <<pos, read, rn, err, seeks, wvars, blocked>>

\* sleep: atomic.StoreUint32(&s.blocked, 1).
RBlock ==
    /\ rpc = "block"
    /\ blocked' = 1
    /\ rpc' = "recv"
    /\ UNCHANGED <<pos, read, rn, err, seeks, wvars>>

\* Mutant of RRecvClosed: a reader that Close wakes up returns io.EOF at once.
RRecvClosedEOF ==
    /\ rpc = "recv"
    /\ news = "closed"
    /\ err' = "EOF"
    /\ rpc' = "return"
    /\ UNCHANGED <<pos, read, rn, seeks, wvars, blocked>>

\* sleep: <-s.news on the closed channel returns at once; blocked stays set.
RRecvClosed ==
    /\ rpc = "recv"
    /\ news = "closed"
    /\ rpc' = "pread"
    /\ UNCHANGED <<pos, read, rn, err, seeks, wvars, blocked>>

\* s.r.Read(p): some of the bytes that are there, or io.EOF.
RPread ==
    /\ rpc = "pread"
    /\ \/ /\ pos < file
          /\ \E n \in 1 .. (file - pos) :
                /\ pos' = pos + n
                /\ rn' = n
          /\ rpc' = "return"
       \/ /\ pos >= file
          /\ rpc' = "isDone"
          /\ UNCHANGED <<pos, rn>>
    /\ UNCHANGED <<read, err, seeks, wvars, blocked>>

\* Mutant of RIsDone: Read goes round even when the writer is done.
RIsDoneRetries ==
    /\ rpc = "isDone"
    /\ rpc' = "sleep"
    /\ UNCHANGED <<pos, read, rn, err, seeks, wvars, blocked>>

\* On io.EOF with n = 0: return it when the writer is done, else go round.
RIsDone ==
    /\ rpc = "isDone"
    /\ err' = IF done = 1 THEN "EOF" ELSE "nil"
    /\ rpc' = IF done = 1 THEN "return" ELSE "sleep"
    /\ UNCHANGED <<pos, read, rn, seeks, wvars, blocked>>

\* The deferred atomic.AddUint64(&s.read, n), and return to the parser.
RReturn ==
    /\ rpc = "return"
    /\ read' = read + rn
    /\ rn' = 0
    /\ rpc' = "idle"
    /\ UNCHANGED <<pos, err, seeks, wvars, blocked>>

-----------------------------------------------------------------------------
Writer == WWrite \/ WAdd \/ WLoad \/ WIsBlocked \/ WUnblock \/ WDone \/ WClose \/ WJoin
Reader == RRead \/ RSeek \/ RParsed \/ RSleep \/ RBlock \/ RRecvClosed \/ RPread \/ RIsDone \/ RReturn

\* The pack is stored or dropped and nothing is left to do.
Finished == wpc = "joined" /\ UNCHANGED vars

Next == Writer \/ Reader \/ Rendezvous \/ Finished

Spec == Init /\ [][Next]_vars

(***************************************************************************)
(* The Go scheduler runs every goroutine that can run, and the caller of a *)
(* PackWriter closes it after finitely many Writes (the strong fairness of *)
(* WDone): every caller defers Close.                                      *)
(***************************************************************************)
Fairness == WF_vars(Writer) /\ SF_vars(WDone) /\ WF_vars(Reader) /\ WF_vars(Rendezvous)
FairSpec == Spec /\ Fairness

-----------------------------------------------------------------------------
\* The counters are naturals, the atomics bits, and both goroutines are at a step
\* of their calls.
TypeOK ==
    /\ file \in Nat /\ pos \in Nat /\ written \in Nat /\ read \in Nat
    /\ blocked \in {0, 1} /\ done \in {0, 1} /\ news \in {"open", "closed"}
    /\ wpc \in WPCs /\ wn \in Nat
    /\ rpc \in RPCs /\ rn \in Nat /\ err \in {"nil", "EOF"}
    /\ seeks \in 0 .. MaxSeeks

\* A Read returns io.EOF only at the end of everything that was written:
\* the parser never takes a pack that was written completely for a truncated
\* one (writers.go:192).
EOFIsFinal ==
    rpc = "return" /\ err = "EOF" => pos >= file

\* When wake sends on news the reader is at the receive: the writer of a
\* pack never blocks on a reader that is busy, or gone because the parser
\* failed (writers.go:213).
SendMeetsReceive ==
    wpc = "send" => rpc = "recv"

\* The counter the two goroutines compare is the offset of the read
\* descriptor, whatever seeks the parser makes (writers.go:227).
ReadIsPos ==
    read + rn = pos

(***************************************************************************)
(* The handshake on `blocked` and `news`: blocked is set only while the    *)
(* reader waits on news (or after news was closed), and only the writer    *)
(* that is about to send clears it.  With where each goroutine is while    *)
(* Close runs, this is inductive and implies SendMeetsReceive.             *)
(***************************************************************************)
Handshake ==
    /\ blocked = 1 => rpc = "recv" \/ news = "closed"
    /\ wpc = "wake" => rpc = "recv"
    /\ wpc = "send" => blocked = 0
    /\ SendMeetsReceive
    /\ done = 1 <=> (wpc \in {"close", "wait", "joined"})
    /\ news = "closed" <=> (wpc \in {"wait", "joined"})

\* Bytes are taken from the file only between a Read's pread and its return.
NoBytesInHand ==
    rpc # "return" => rn = 0

\* The inductive invariant behind the safety properties above.
IInv ==
    TypeOK /\ Handshake /\ ReadIsPos /\ NoBytesInHand

\* A reader that Close finds anywhere but between the read that met the end of the
\* file and the test of isDone: asleep, between two Reads, or about to read.
FoundInTime ==
    done = 1 /\ rpc # "isDone" /\ err = "nil"

\* The parser that Close finds there reads to the last byte, also those whose
\* wake-up it missed, before a Read returns io.EOF: the test of isDone is the only
\* place where the end of a pack is lost (writers.go:186-225, 238).
DrainedBeforeEOF ==
    [](FoundInTime => []EOFIsFinal)

\* Once Close has begun, the parser ends and Close gets its result, even if
\* the wake-up of the last Write was missed (writers.go:77).
CloseReturns ==
    wpc = "close" ~> wpc = "joined"

\* A reader that sleeps while bytes are there does not sleep for ever: the
\* next Write or Close wakes it up (writers.go:217).
SleeperWakes ==
    rpc = "recv" ~> rpc # "recv"
=============================================================================
