----------------------------- MODULE MCReplica ------------------------------
(* Small instances of the cluster for TLC. *)
EXTENDS ReplicaInvariant

CONSTANTS c1, p1, p2, k1, v1, v2

(* As shipped, every client program has the same client id. *)
OneClientId == [p \in ClientProcesses |-> c1]

SetV1 == [op_type |-> "set", key |-> k1, value |-> v1]
SetV2 == [op_type |-> "set", key |-> k1, value |-> v2]
Get == [op_type |-> "get", key |-> k1]

SetAndGet == {SetV1, Get}
TwoSets == {SetV1, SetV2}
OneSet == {SetV1}

(* All servers are connected, or replica 2 starts after the others. *)
AllLinks == Pairs
WithoutReplica2 == {{0, 1}}
ThroughReplica1 == {{0, 1}, {1, 2}}
=============================================================================
