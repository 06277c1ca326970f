------------------------ MODULE MCRegistryValidation ------------------------
(* One Resource, as the row is the unit of locking.                        *)
EXTENDS RegistryValidation, TLC

CONSTANTS p1, p2, t1, t2

MCProcess == [t \in Tasks |-> IF t = t1 THEN p1 ELSE p2]
MCSymmetry == Permutations(Documents) \cup Permutations(Jobs)
=============================================================================
