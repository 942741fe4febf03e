---- MODULE MCReceivePack ----
(***************************************************************************)
(* Instances of ReceivePack: a history of four commits, c1 <- c2 <- c3 and *)
(* c1 <- c4, two branches and a tag.                                       *)
(***************************************************************************)
EXTENDS ReceivePack

CONSTANTS p1, p2

McAnc == [c \in Commits |-> CASE c = "c1" -> {"c1"} [] c = "c2" -> {"c1", "c2"}
                              [] c = "c3" -> {"c1", "c2", "c3"} [] c = "c4" -> {"c1", "c4"}]

At(a, b) == [r \in Refs |-> CASE r = "a" -> a [] r = "b" -> b [] OTHER -> Nil]
Tagged(a, b, t) == [At(a, b) EXCEPT !["t"] = t]

Sp(r, k) == [ref |-> r, kind |-> k, src |-> Nil]
Hash(c, r, k) == [ref |-> r, kind |-> k, src |-> c]

Lease(r, h) == [ref |-> r, hash |-> h]
Require(r, v) == [ref |-> r, is |-> v]

Both(S) == [p \in Pushers |-> S]

\* The requests: one reference updated, forced or deleted, and pairs of them.
McSpecs == {<<Sp("a", "update")>>, <<Sp("a", "force"), Sp("b", "update")>>, <<Sp("a", "delete")>>,
            <<Sp("a", "delete"), Sp("b", "update")>>}

\* One push at a time, with Prune and ForceWithLease; branch a is behind
\* or beside what the clients have.
InTurn ==
    [server |-> {At("c1", Nil), At("c2", Nil)}, local |-> Both({At("c3", Nil), At("c4", "c1")}),
     tracking |-> {At("c1", Nil), At("c2", Nil)}, shallow |-> {}, specs |-> McSpecs, tags |-> <<>>,
     prunes |-> {0, 1}, leases |-> {Nil, Lease(Nil, Nil)}, follows |-> {0}, requires |-> {Nil}, localEndpoint |-> 1,
     chunks |-> 2, buf |-> 0, serial |-> 1, fails |-> 0, drops |-> 0]

\* One push at a time, of references and of hashes, with leases on one reference
\* or on a hash, and with RequireRemoteRefs.
Careful ==
    [InTurn EXCEPT !.server = {At("c1", "c1"), At("c2", Nil)}, !.tracking = {At("c1", "c1")},
                   !.local = [p \in Pushers |-> IF p = p1 THEN @[p] ELSE {At("c4", "c1")}],
                   !.specs = {<<Sp("a", "update"), Sp("b", "update")>>, <<Hash("c4", "a", "update")>>,
                              <<Hash("c2", "a", "force"), Sp("b", "update")>>},
                   !.leases = {Nil, Lease("b", Nil), Lease("a", "c1")},
                   !.requires = {Nil, Require("a", "c1"), Require("a", "b")}, !.chunks = 1]

\* Two pushes at once ...
AtOnce ==
    [InTurn EXCEPT !.local = Both({At("c2", "c4"), At("c3", "c1")}), !.tracking = {At("c1", Nil)},
                   !.specs = {<<Sp("a", "force"), Sp("b", "update")>>, <<Sp("a", "delete")>>},
                   !.prunes = {0}, !.leases = {Nil}, !.localEndpoint = 0, !.serial = 0]

\* ... that follow tags, with clients that disappear ...
Dropping ==
    [AtOnce EXCEPT !.server = {At("c1", Nil)},
                   !.local = Both({Tagged("c2", "c4", "c2"), At("c3", "c1")}),
                   !.tags = <<"t">>, !.follows = {0, 1}, !.chunks = 1, !.drops = 1]

\* ... and with failures on both sides.
Failing ==
    [Dropping EXCEPT !.local = Both({At("c2", "c4")}), !.tags = <<>>, !.follows = {0}, !.fails = 1]

McUses == {InTurn, Careful, AtOnce, Dropping, Failing}

\* Two pushes of different commits to one branch, each with a lease that holds.
McSameBranch ==
    {[AtOnce EXCEPT !.server = {At("c1", Nil)}, !.specs = {<<Sp("a", "update")>>}, !.chunks = 1,
                    !.local = [p \in Pushers |-> {IF p = p1 THEN At("c2", Nil) ELSE At("c4", Nil)}],
                    !.leases = {Lease(Nil, Nil)}]}

====
