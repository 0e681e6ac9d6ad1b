---------------------------- MODULE MCShadowPass ----------------------------
(* Three pods compete for two nodes of one GPU each. *)
EXTENDS ShadowPass, TLC

CONSTANTS a, b, c, n1, n2, team, gang

MCGroupOf  == [p \in Pod |-> p]
MCKindOf   == [p \in Pod |-> "ours"]
MCGpusOf   == [p \in Pod |-> 1]
MCTenantOf == [p \in Pod |-> team]
MCCapacity == [n \in Node |-> 1]
MCQuota    == team :> 3

Interchangeable == Permutations(Node)

\* Room for all, and a gang that fills a pass.
MCGang == [p \in Pod |-> IF p = a THEN a ELSE gang]
MCRoom == [n \in Node |-> Cardinality(Pod)]
=============================================================================
