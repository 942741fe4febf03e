------------------------- MODULE SyncedReaderProofs -------------------------
(***************************************************************************)
(* Safety of the pipe of SyncedReader for every size of the pack and every *)
(* number of seeks.                                                        *)
(***************************************************************************)
EXTENDS SyncedReader, TLAPS

\* newPackWrite establishes the inductive invariant.
LEMMA InitIInv == Init => IInv
  BY BoundsAssumption DEF BoundsAssumption, Init, IInv, TypeOK, Handshake, SendMeetsReceive,
     ReadIsPos, NoBytesInHand, WPCs, RPCs

\* Every step of syncedReader and of its two users keeps the types.
LEMMA TypeStep == TypeOK /\ [Next]_vars => TypeOK'
  <1> SUFFICES ASSUME TypeOK, [Next]_vars PROVE TypeOK'
    OBVIOUS
  <1> USE BoundsAssumption DEF TypeOK, WPCs, RPCs, wvars, rvars
  <1>1. CASE Writer
    BY <1>1 DEF Writer, WWrite, WAdd, WLoad, WIsBlocked, WUnblock, WDone, WClose, WJoin
  <1>2. CASE RRead \/ RSeek \/ RParsed \/ RSleep \/ RBlock \/ RRecvClosed
    BY <1>2 DEF RRead, RSeek, RParsed, RSleep, RBlock, RRecvClosed
  <1>3. CASE RPread \/ RIsDone \/ RReturn
    BY <1>3 DEF RPread, RIsDone, RReturn
  <1>4. CASE Rendezvous
    BY <1>4 DEF Rendezvous
  <1>5. CASE Finished \/ UNCHANGED vars
    BY <1>5 DEF Finished, vars
  <1> QED
    BY <1>1, <1>2, <1>3, <1>4, <1>5 DEF Next, Reader

\* Every step keeps the handshake of wake, sleep and Close.
LEMMA HandshakeStep == TypeOK /\ Handshake /\ [Next]_vars => Handshake'
  <1> SUFFICES ASSUME TypeOK, Handshake, [Next]_vars PROVE Handshake'
    OBVIOUS
  <1> USE DEF TypeOK, Handshake, SendMeetsReceive, wvars, rvars
  <1>1. CASE WWrite \/ WAdd \/ WLoad \/ WIsBlocked
    BY <1>1 DEF WWrite, WAdd, WLoad, WIsBlocked
  <1>2. CASE WUnblock \/ WDone \/ WClose \/ WJoin
    BY <1>2 DEF WUnblock, WDone, WClose, WJoin
  <1>3. CASE RRead \/ RSeek \/ RParsed \/ RSleep \/ RBlock
    BY <1>3 DEF RRead, RSeek, RParsed, RSleep, RBlock
  <1>4. CASE RRecvClosed \/ RPread \/ RIsDone \/ RReturn
    BY <1>4 DEF RRecvClosed, RPread, RIsDone, RReturn
  <1>5. CASE Rendezvous
    BY <1>5 DEF Rendezvous
  <1>6. CASE Finished \/ UNCHANGED vars
    BY <1>6 DEF Finished, vars
  <1> QED
    BY <1>1, <1>2, <1>3, <1>4, <1>5, <1>6 DEF Next, Writer, Reader

\* Every step keeps the reader's books: the counter is its offset.
LEMMA ReaderStep ==
    TypeOK /\ ReadIsPos /\ NoBytesInHand /\ [Next]_vars
      => (ReadIsPos /\ NoBytesInHand)'
  <1> SUFFICES ASSUME TypeOK, ReadIsPos, NoBytesInHand, [Next]_vars
               PROVE  (ReadIsPos /\ NoBytesInHand)'
    OBVIOUS
  <1> USE DEF TypeOK, ReadIsPos, NoBytesInHand, wvars, rvars
  <1>1. CASE Writer
    BY <1>1 DEF Writer, WWrite, WAdd, WLoad, WIsBlocked, WUnblock, WDone, WClose, WJoin
  <1>2. CASE RSeek
    BY <1>2, BoundsAssumption DEF RSeek
  <1>3. CASE RRead \/ RParsed \/ RSleep \/ RBlock \/ RRecvClosed \/ Rendezvous
    BY <1>3 DEF RRead, RParsed, RSleep, RBlock, RRecvClosed, Rendezvous
  <1>4. CASE RPread
    BY <1>4 DEF RPread
  <1>5. CASE RIsDone \/ RReturn
    BY <1>5 DEF RIsDone, RReturn
  <1>6. CASE Finished \/ UNCHANGED vars
    BY <1>6 DEF Finished, vars
  <1> QED
    BY <1>1, <1>2, <1>3, <1>4, <1>5, <1>6 DEF Next, Reader

\* The inductive invariant holds in every state of every behaviour.
THEOREM Invariance == Spec => []IInv
  <1>1. IInv /\ [Next]_vars => IInv'
    BY TypeStep, HandshakeStep, ReaderStep DEF IInv
  <1> QED
    BY InitIInv, <1>1, PTL DEF Spec

\* wake never blocks: whenever PackWriter.Write sends on news, the parser is
\* receiving, for a pack of any size (writers.go:210-225).
THEOREM WakeNeverBlocks == Spec => []SendMeetsReceive
  <1>1. IInv => SendMeetsReceive
    BY DEF IInv, Handshake
  <1> QED
    BY Invariance, <1>1, PTL

\* What FoundInTime leads to: nothing is written any more, and the reader that
\* met the end of the file met the end of the pack.
Draining ==
    /\ done = 1
    /\ rpc = "isDone" => pos >= file
    /\ rpc \notin {"idle", "parsed", "return"} => err = "nil"
    /\ EOFIsFinal

\* Once the reader is draining the file it stays so, whatever it seeks.
LEMMA DrainingStep == IInv /\ Draining /\ [Next]_vars => Draining'
  <1> SUFFICES ASSUME IInv, Draining, [Next]_vars PROVE Draining'
    OBVIOUS
  <1> USE DEF IInv, TypeOK, Handshake, Draining, EOFIsFinal, wvars, rvars
  <1>1. CASE Writer
    BY <1>1 DEF Writer, WWrite, WAdd, WLoad, WIsBlocked, WUnblock, WDone, WClose, WJoin
  <1>2. CASE RRead \/ RSeek \/ RParsed \/ RSleep \/ RBlock \/ RRecvClosed \/ Rendezvous
    BY <1>2 DEF RRead, RSeek, RParsed, RSleep, RBlock, RRecvClosed, Rendezvous
  <1>3. CASE RPread
    BY <1>3 DEF RPread
  <1>4. CASE RIsDone \/ RReturn
    BY <1>4 DEF RIsDone, RReturn
  <1>5. CASE Finished \/ UNCHANGED vars
    BY <1>5 DEF Finished, vars
  <1> QED
    BY <1>1, <1>2, <1>3, <1>4, <1>5 DEF Next, Reader

\* A reader that Close does not find at the test of isDone loses no byte, for a
\* pack of any size and any seeks (writers.go:186-225, 238).
THEOREM NothingLostInTime == Spec => DrainedBeforeEOF
  <1>1. IInv /\ FoundInTime => Draining
    BY DEF FoundInTime, Draining, EOFIsFinal
  <1>2. Draining => EOFIsFinal
    BY DEF Draining
  <1> QED
    BY Invariance, DrainingStep, <1>1, <1>2, PTL DEF Spec, DrainedBeforeEOF

\* The counter compared by sleep and Write is the reader's offset, across
\* seeks (writers.go:227-236).
THEOREM ReadCounterIsOffset == Spec => []ReadIsPos
  <1>1. IInv => ReadIsPos
    BY DEF IInv
  <1> QED
    BY Invariance, <1>1, PTL
=============================================================================
