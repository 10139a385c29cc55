\* Two users: a refusal arrives in a call.
CONSTANTS
  u1 = u1
  u2 = u2
  Users = {u1, u2}
  NoUser = NoUser
  MaxRequests <- TwiceAndOnce
SPECIFICATION Spec
INVARIANTS
  PeerKnown
