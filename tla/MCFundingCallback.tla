-------------------------- MODULE MCFundingCallback --------------------------
(* Instances of FundingCallback: two replicas that run every handler, two    *)
(* that only fund and receive, and a single one.                             *)
EXTENDS FundingCallback, TLC

CONSTANTS api1, api2, t1, t2

TwoReplicas == [w \in {api1, api2} |-> {"fund", "receive", "manage"}]
ReplicaSymmetry == Permutations({api1, api2}) \cup Permutations({t1, t2})

FundAndReceive == [w \in {api1, api2} |-> IF w = api1 THEN {"fund", "receive"} ELSE {"receive"}]
OneReplica == [w \in {api1} |-> {"fund", "receive"}]
=============================================================================
