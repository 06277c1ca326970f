---------------------------- MODULE MCStructuredRun ----------------------------
(* Plans of two and three legs: every policy, every kind of leg.           *)
EXTENDS StructuredRun

MCLegs == {"l1", "l2", "l3"}
legs(a, b, c) == [l1 |-> a, l2 |-> b, l3 |-> c]

joined(p, q, r, k, n) == [policy |-> p, quorum |-> q, remainder |-> r, kind |-> k, attempts |-> n]

\* A waiting sibling under every policy, a child Run beside a leg that may fail or
\* exhaust its attempts, an unreachable quorum with a retried leg, and a decision
\* that cancels two legs at once.
MCPlans == {joined("all_success", 0, "none", legs("compute", "timer", "unused"), 2),
            joined("all_settled", 0, "none", legs("timer", "human", "unused"), 1),
            joined("all_success", 0, "none", legs("compute", "child", "unused"), 1),
            joined("quorum", 1, "drain", legs("compute", "human", "unused"), 1),
            joined("quorum", 2, "cancel", legs("compute", "compute", "unused"), 2),
            joined("quorum", 1, "cancel", legs("compute", "compute", "timer"), 1)}
=============================================================================
