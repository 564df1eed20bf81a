---------------------------- MODULE RingMapping ----------------------------
(***************************************************************************)
(* Which node of the target cluster restores the backup of which node:    *)
(* the mapping of restore_cluster.RestoreJob.  A ring (a token map) is the *)
(* sequence of its nodes in address order; a node has a host name, a rack  *)
(* and its tokens.  Racks and tokens are numbers, because the code only    *)
(* sorts and compares them.                                                *)
(*                                                                         *)
(* A mapping (host_map) is the sequence of its entries, in the order they  *)
(* are entered: a target host and the set of its sources.                  *)
(***************************************************************************)
EXTENDS Integers, Sequences, FiniteSets, Functions

Hosts(ring) == {ring[i].host : i \in DOMAIN ring}
Racks(ring) == {ring[i].rack : i \in DOMAIN ring}
TokenLists(ring) == {ring[i].tokens : i \in DOMAIN ring}

\* At least one node is part of both token maps.
is_restore_in_place(backup, target) == Hosts(backup) \intersect Hosts(target) # {}

\* i comes before j in the order of a key; what has the same key stays in its order.
Before(key, i, j) == key[i] < key[j] \/ (key[i] = key[j] /\ i < j)

\* The k-th element of a set of numbers in the order of a key.
Nth(set, key, k) ==
    CHOOSE i \in set : Cardinality({j \in set : Before(key, j, i)}) = k - 1

\* The nodes of the ring in the order of a key, nodes of the same key in ring order.
SortedBy(ring, key) == [k \in DOMAIN ring |-> ring[Nth(DOMAIN ring, key, k)]]

tokenmap_to_sorted_nodes(ring) == SortedBy(ring, [i \in DOMAIN ring |-> ring[i].tokens[1]])

\* The racks in alphabetical order, in each rack its nodes.
tokenmap_to_nodes_per_rack(ring) == SortedBy(ring, [i \in DOMAIN ring |-> ring[i].rack])

\* The number of nodes of each rack, the racks in alphabetical order.
rack_topology(ring) ==
    LET rack(k) == Nth(Racks(ring), [r \in Racks(ring) |-> r], k)
    IN  [k \in 1 .. Cardinality(Racks(ring)) |->
            Cardinality({i \in DOMAIN ring : ring[i].rack = rack(k)})]

\* Mutant of topology_matches: the racks are not compared.
topology_same_size(backup, target, ignore_racks) == Len(target) = Len(backup)

\* As many nodes and, unless racks are ignored, as many nodes in each rack.
topology_matches(backup, target, ignore_racks) ==
    /\ Len(target) = Len(backup)
    /\ ignore_racks \/ rack_topology(backup) = rack_topology(target)

\* The number of tokens of the first node stands for all.
token_counts_per_host(ring) == Len(ring[1].tokens)

\* The nodes of the two rings cannot be paired: the backup goes through
\* sstableloader.  Without vnodes the tokens have to be the same.
needs_loader(backup, target, ignore_racks) ==
    \/ ~topology_matches(backup, target, ignore_racks)
    \/ token_counts_per_host(backup) # token_counts_per_host(target)
    \/ token_counts_per_host(backup) = 1 /\ TokenLists(backup) # TokenLists(target)

\* Node by node.
Zip(targets, backups) ==
    [k \in DOMAIN backups |-> [target |-> targets[k].host, sources |-> {backups[k].host}]]

map_ignored_racks(backup, target) ==
    Zip(tokenmap_to_sorted_nodes(target), tokenmap_to_sorted_nodes(backup))

\* Rack by rack, and in each rack node by node: the topologies match, so this
\* pairs the two lists from end to end.
map_with_racks(backup, target) ==
    Zip(tokenmap_to_nodes_per_rack(target), tokenmap_to_nodes_per_rack(backup))

\* The list dealt out to n groups.
chunk(list, n) ==
    [i \in 1 .. n |-> {list[k] : k \in {m \in DOMAIN list : (m - 1) % n = i - 1}}]

\* The orders in which Python may list a set.
Orders(set) == {f \in [1 .. Cardinality(set) -> set] : Range(f) = set}

\* The results of map_different_topologies: both sets are listed in any order.
map_different_topologies(backup, target) ==
    LET n == IF Len(backup) >= Len(target) THEN Len(target) ELSE Len(backup)
    IN  {[i \in 1 .. n |-> [target |-> restore_hosts[i], sources |-> chunk(backup_hosts, n)[i]]] :
         backup_hosts \in Orders(Hosts(backup)), restore_hosts \in Orders(Hosts(target))}

\* The mappings populate_ringmap may come to.
populate_ringmap(backup, target, ignore_racks) ==
    IF needs_loader(backup, target, ignore_racks)
    THEN map_different_topologies(backup, target)
    ELSE IF ignore_racks
    THEN {map_ignored_racks(backup, target)}
    ELSE {map_with_racks(backup, target)}
=============================================================================
