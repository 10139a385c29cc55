-------------------------------- MODULE Calls --------------------------------
(***************************************************************************)
(* What the users of the chat may rely on when they call each other:       *)
(* nobody is put into a call with somebody unless one of the two has       *)
(* agreed to a call with the other, and a call never turns into one with   *)
(* somebody else: it ends first.  A client may forget whom it is in a call *)
(* with before the call ends.                                              *)
(***************************************************************************)
CONSTANTS Users, NoUser

VARIABLES
  partner,  \* whom each user is in a call with, or NoUser
  busy,     \* the users in a call
  agreed    \* the pairs of which one has accepted a request of the other

callsVars == <<partner, busy, agreed>>

Init == partner = [c \in Users |-> NoUser] /\ busy = {} /\ agreed = {}

Agree(c, d) == agreed' = agreed \cup {{c, d}} /\ UNCHANGED <<partner, busy>>

Begin(c, d) ==
  /\ c \notin busy /\ {c, d} \in agreed
  /\ busy' = busy \cup {c}
  /\ partner' = [partner EXCEPT ![c] = d]
  /\ UNCHANGED agreed

Forget(c) ==
  /\ c \in busy
  /\ partner' = [partner EXCEPT ![c] = NoUser]
  /\ UNCHANGED <<busy, agreed>>

End(c) ==
  /\ c \in busy
  /\ busy' = busy \ {c}
  /\ partner' = [partner EXCEPT ![c] = NoUser]
  /\ UNCHANGED agreed

Next ==
  \E c \in Users :
    \/ Forget(c) \/ End(c)
    \/ \E d \in Users : Agree(c, d) \/ Begin(c, d)

Spec == Init /\ [][Next]_callsVars

=============================================================================
