-------------------------- MODULE MCClusterBackup --------------------------
(* The instances of ClusterBackup that TLC checks. *)
EXTENDS ClusterBackup

CONSTANTS h1, h2, h3

MCHosts == {h1, h2, h3}
MCAddress == [h \in MCHosts |-> CASE h = h1 -> 1 [] h = h2 -> 2 [] h = h3 -> 3]
OneCentre == [h \in Hosts |-> "dc1"]
AllButLast == {h1, h2}
NotOnLast == {AllButLast}

Plain == [keep |-> FALSE, existing |-> FALSE]
ByHand == [keep |-> FALSE, existing |-> TRUE]
PlainThenBoth == <<{Plain}, {Plain, ByHand}>>
=============================================================================
