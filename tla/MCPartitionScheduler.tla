------------------------ MODULE MCPartitionScheduler ------------------------
(* Small instances of a partition.                                         *)
EXTENDS PartitionScheduler, TLC

CONSTANTS a1, j1, j2, j3

Light == [weight |-> 1, burst |-> 1]
Heavy == [weight |-> 2, burst |-> 2]
MCHeavy == {Heavy}
MCLight == {Light}

\* Earns more than one visit may spend.
MCGreedy == {[weight |-> 2, burst |-> 1]}

\* Tenant 1 has two business Jobs that share an account, tenant 2 a control Job.
MCOwner == j1 :> 1 @@ j2 :> 1 @@ j3 :> 2
MCLane == j1 :> "business" @@ j2 :> "business" @@ j3 :> "restricted_control"
MCAccountsOf == j1 :> {a1} @@ j2 :> {a1} @@ j3 :> {}
MCLimitValue == a1 :> 1

\* The same Jobs, all business and only the first one charged to the account.
MCBusiness == [j \in Jobs |-> "business"]
MCFirstCharged == [j \in Jobs |-> IF j = j1 THEN {a1} ELSE {}]

\* One Job per tenant and no quota.
MCOwnerPair == j1 :> 1 @@ j2 :> 2
MCFree == [j \in Jobs |-> {}]
=============================================================================
