------------------------------- MODULE MCLinks -------------------------------
(* A small instance of Links for TLC. *)
EXTENDS Links

CONSTANTS l1, l2

\* Data is queued on one link only; the other just comes and goes.
OneSender == [l \in Links |-> IF l = l1 THEN 1 ELSE 0]

=============================================================================
