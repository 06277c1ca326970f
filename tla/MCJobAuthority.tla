--------------------------- MODULE MCJobAuthority ---------------------------
(* One Job, two tasks of one worker process and one task of another.  The  *)
(* Job is the unit of locking and no decision reads two Jobs, so one Job   *)
(* shows every interleaving of its actors.                                 *)
EXTENDS JobAuthority

CONSTANTS p1, p2, t1, t2, t3

MCTasks == {t1, t2, t3}
MCProcess == [t \in MCTasks |-> IF t = t3 THEN p2 ELSE p1]
MCWakeContracts ==
    {[accepted_sources |-> {"callback", "timeout"}, next_poll_at |-> None,
      poll_count |-> 0, poll_limit |-> 0, deadline |-> 3],
     [accepted_sources |-> {"poll"}, next_poll_at |-> 1,
      poll_count |-> 0, poll_limit |-> 1, deadline |-> 3]}
=============================================================================
