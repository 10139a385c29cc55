------------------------------ MODULE MCSession ------------------------------
(* A small instance of Session for TLC. *)
EXTENDS Session, TLC

\* The other clients are alike.
Alike == Permutations(Others)

=============================================================================
