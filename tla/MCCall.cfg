\* Two users call each other, one of them twice, hang up and go.
CONSTANTS
  u1 = u1
  u2 = u2
  Users = {u1, u2}
  NoUser = NoUser
  MaxRequests <- TwiceAndOnce
SPECIFICATION FairSpec
INVARIANTS
  TypeOK
  CallShown
PROPERTIES
  CallsKept
  HangUpArrives
