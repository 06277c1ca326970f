----------------------------- MODULE RunLifecycle -----------------------------
(***************************************************************************)
(* What a Run promises, whatever its Plan: it works while it is active; a  *)
(* cancellation, a timeout or a failure turns it to cancelling, from where *)
(* its members (Nodes, Scopes, waits) only ever end and nothing new is     *)
(* dispatched; it ends with no member left, and stays ended.               *)
(***************************************************************************)
CONSTANT Members

VARIABLES state,    \* the Run's state
          members   \* its Nodes, Scopes and waits that have not ended

vars == <<state, members>>

ActiveState == {"queued", "running", "waiting"}
TerminalState == {"succeeded", "failed", "cancelled", "timed_out"}

\* The closed table of RunState.
Successor == [queued     |-> {"running", "cancelling", "timed_out"},
              running    |-> {"waiting", "cancelling", "succeeded", "failed", "timed_out"},
              waiting    |-> {"running", "cancelling", "failed", "timed_out"},
              cancelling |-> {"cancelled", "failed", "timed_out"},
              succeeded  |-> {}, failed |-> {}, cancelled |-> {}, timed_out |-> {}]

Init == state = "queued" /\ members \in (SUBSET Members) \ {{}}

Work ==
    /\ state \in ActiveState
    /\ state' \in ActiveState \cap ({state} \cup Successor[state])
    /\ members' \in (SUBSET Members) \ {{}}

Condemn ==
    /\ state \in ActiveState
    /\ state' = "cancelling"
    /\ members' \in SUBSET members

CloseMembers ==
    /\ state = "cancelling"
    /\ members' \in (SUBSET members) \ {members}
    /\ UNCHANGED state

Finish ==
    /\ state' \in TerminalState \cap Successor[state]
    /\ state = "cancelling" => members = {}
    /\ members' = {}

Next == Work \/ Condemn \/ CloseMembers \/ Finish

Spec == Init /\ [][Next]_vars
=============================================================================
