---- MODULE MCUploadPack ----
(* UploadPack on a small history: 1 <- 2 <- 3, 2 <- 4, the merge 5 of 3 and *)
(* 4, and a commit 6 on top of 2 that only the client has.                  *)
EXTENDS UploadPack, TLC

McParents == <<  <<>>, <<1>>, <<2>>, <<2>>, <<3, 4>>, <<2>>  >>

McAnc == LET f[c \in 1..6] == {c} \cup UNION {f[McParents[c][i]] : i \in 1..Len(McParents[c])}
         IN  f

McServer == {{1, 2, 3}, {1, 2, 3, 4, 5}}

\* Complete histories.
McClients == {<<S, {}>> : S \in {{}, {1}, {1, 2}, {1, 2, 3}, {1, 2, 4}, {1, 2, 6}, {1, 2, 3, 6}}}

\* A repository that was cloned with a depth of one by another implementation.
McShallowClients == {<<{3}, {3}>>}

\* On a pipe: haves that fit one round, and haves that take several; over HTTP: several rounds, and requests too large for the buffer.
OneRound ==
    [clients |-> McClients, maxHaves |-> 2, batch |-> 2, maxInVein |-> 4,
     modes |-> {"detailed", "single"}, depths |-> {0, 2}, rdBuf |-> 9, buf |-> 0, stateless |-> 0,
     fails |-> 0, stale |-> 1]

SeveralRounds ==
    [OneRound EXCEPT !.batch = 1, !.modes = {"detailed", "multi"},
                     !.depths = {0, 1, 2}, !.fails = 1]

Http ==
    [OneRound EXCEPT !.maxHaves = 3, !.batch = 1, !.maxInVein = 2,
                     !.modes = {"detailed"}, !.rdBuf = 3, !.buf = 1, !.stateless = 1, !.stale = 0]

FromShallow == [OneRound EXCEPT !.clients = McShallowClients]

McUses == {OneRound, SeveralRounds, Http, FromShallow}

McSecondRound ==
    {[OneRound EXCEPT !.batch = 1, !.modes = {"detailed"}, !.depths = {0},
                      !.stale = 0]}

====
