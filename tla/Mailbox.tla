------------------------------- MODULE Mailbox -------------------------------
(***************************************************************************)
(* What cAuthenticator and cWorkerThread promise to those who queue work:  *)
(* every piece is run once, in the order it was queued, by one thread; a   *)
(* thread that has not been told to stop does not leave work lying.        *)
(***************************************************************************)
EXTENDS Naturals, Sequences

CONSTANT Tasks, NoTask

VARIABLES
  pending,  \* the work that is queued
  current,  \* the work being run, or NoTask
  open      \* the thread has been started and not told to stop

mailVars == <<pending, current, open>>

Init == pending = <<>> /\ current = NoTask /\ open = FALSE

Put(x) == pending' = Append(pending, x) /\ UNCHANGED <<current, open>>

Take ==
  /\ open /\ current = NoTask /\ pending # <<>>
  /\ current' = Head(pending)
  /\ pending' = Tail(pending)
  /\ UNCHANGED open

\* Work that has been begun is finished, told to stop or not.
Finish == current # NoTask /\ current' = NoTask /\ UNCHANGED <<pending, open>>

Open == ~open /\ current = NoTask /\ open' = TRUE /\ UNCHANGED <<pending, current>>

Close == open' = FALSE /\ UNCHANGED <<pending, current>>

Next == Take \/ Finish \/ Open \/ Close \/ \E x \in Tasks : Put(x)

Spec == Init /\ [][Next]_mailVars

FairSpec == Spec /\ WF_mailVars(Take) /\ WF_mailVars(Finish)

=============================================================================
