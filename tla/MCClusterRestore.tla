------------------------- MODULE MCClusterRestore -------------------------
(* The instances of ClusterRestore that TLC checks. *)
EXTENDS ClusterRestore

CONSTANTS a1, a2, a3, b1, b2, b3

MCNodes == {a1, a2, a3, b1, b2, b3}
LocalTable == [ks |-> "system", cf |-> "local"]
Roles == [ks |-> "system_auth", cf |-> "roles"]
TableT == [ks |-> "app", cf |-> "t"]
TableU == [ks |-> "app", cf |-> "u"]
Peers == [ks |-> "system", cf |-> "peers_v2"]
MCSections == <<LocalTable, Peers, Roles, TableT, TableU>>

A == <<a1, a2, a3>>
B == <<b1, b2, b3>>
Ring(hosts, n, racks, tokens) ==
    [k \in 1 .. n |-> [host |-> hosts[k], rack |-> racks[k], tokens |-> tokens[k]]]
Plain == <<1, 2, 2>>
Ascending == <<<<1>>, <<2>>, <<3>>>>
Descending == <<<<3>>, <<2>>, <<1>>>>
Others == <<<<4>>, <<5>>, <<6>>>>
Vnodes == <<<<2, 7>>, <<1, 8>>, <<3, 9>>>>
OtherVnodes == <<<<11, 17>>, <<12, 18>>, <<13, 19>>>>

Full(hosts) == [h \in hosts |-> "full"]

Request(mode, backup, target) ==
    [mode |-> mode, backup |-> backup, target |-> target, lines |-> <<>>,
     ignore_racks |-> FALSE, loader |-> FALSE, keep_auth |-> FALSE, verify |-> FALSE,
     seeds |-> {}, stored |-> Full(Hosts(backup)), only |-> {}]

\* Rings of two and three nodes in one or two racks, for the mapping only.
MappingOnly ==
    {[Request("seed", Ring(A, 3, racks, tokens), target)
         EXCEPT !.ignore_racks = ignore, !.keep_auth = TRUE] :
        racks \in {<<1, 1, 2>>, <<2, 1, 2>>},
        tokens \in {Ascending, Vnodes},
        target \in {Ring(hosts, n, rs, ts) :
                        hosts \in {A, B}, n \in {2, 3},
                        rs \in {<<1, 1, 2>>, <<2, 1, 1>>, <<1, 2, 2>>},
                        ts \in {Ascending, Descending, Others, Vnodes}},
        ignore \in BOOLEAN}

RingA == Ring(A, 2, Plain, Vnodes)
RingB == Ring(B, 2, Plain, OtherVnodes)
Lines == <<[seed |-> FALSE, target |-> b1, source |-> a2],
           [seed |-> FALSE, target |-> b2, source |-> a2],
           [seed |-> TRUE, target |-> b1, source |-> a1]>>
ListRequest == [Request("list", RingA, RingB) EXCEPT !.lines = Lines]

InPlace == [Request("seed", RingA, RingA) EXCEPT !.seeds = {a1}, !.verify = TRUE]
OneTable == [Request("seed", RingA, RingA) EXCEPT !.only = {TableT}]
Remote == [ListRequest EXCEPT !.keep_auth = TRUE]
RemoteSeed == [Request("seed", RingA, RingB) EXCEPT !.seeds = {b2}]
Loader == Request("seed", Ring(A, 3, Plain, Ascending), RingB)
LoaderOneTable == [Loader EXCEPT !.only = {TableT}]
LoaderIncomplete == [Loader EXCEPT !.stored[a3] = "missing"]
Incomplete == [ListRequest EXCEPT !.stored[a2] = "missing"]
NothingToRestore == [InPlace EXCEPT !.stored[a2] = "empty"]
ListLoader == [ListRequest EXCEPT !.loader = TRUE]
PodsInPlace == Request("pods", RingA, RingA)
PodsRemote == Request("pods", RingA, RingB)

Executed == {InPlace, OneTable, Remote, RemoteSeed, Loader, LoaderOneTable, LoaderIncomplete,
             Incomplete, NothingToRestore, ListLoader, PodsInPlace, PodsRemote}
AllScenarios == MappingOnly \union Executed
OnlyRemote == {Remote}
=============================================================================
