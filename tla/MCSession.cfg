\* Two other clients that come and go while the user logs in twice.
CONSTANTS
  Others = {d1, d2}
  Nobody = Nobody
  MaxLogins = 2
  MaxWaiting = 3
SPECIFICATION Spec
SYMMETRY Alike
INVARIANTS
  SocketAgrees
  LoginAgain
  SignedInByServer
  PeersKnown
  GoesWhenTold
CHECK_DEADLOCK FALSE
