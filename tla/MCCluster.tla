----------------------------- MODULE MCCluster ------------------------------
(***************************************************************************)
(* Small instances of Cluster: two slots, one failure or two, and up to    *)
(* three connections, c1 and c2 from one address.                          *)
(***************************************************************************)
EXTENDS Cluster

CONSTANTS c1, c2, c3

Hash == [perfMonitor |-> FALSE, roundRobin |-> FALSE]
RoundRobin == [perfMonitor |-> FALSE, roundRobin |-> TRUE]
PerfHash == [perfMonitor |-> TRUE, roundRobin |-> FALSE]
PerfRoundRobin == [perfMonitor |-> TRUE, roundRobin |-> TRUE]

EveryConfig == {Hash, RoundRobin, PerfHash, PerfRoundRobin}
Monitored == {PerfHash}
Rotating == {RoundRobin}

Addresses == [c \in Conns |-> IF c \in {c1, c2} THEN 3 ELSE 4]
=============================================================================
