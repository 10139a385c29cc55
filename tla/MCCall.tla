------------------------------- MODULE MCCall -------------------------------
(* A small instance of Call for TLC. *)
EXTENDS Call

CONSTANTS u1, u2

\* One user asks twice, the other once: refusals and hang-ups that come late.
TwiceAndOnce == [c \in Users |-> IF c = u1 THEN 2 ELSE 1]

=============================================================================
