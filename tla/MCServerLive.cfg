\* Logins, removals and the shutdown come to an end.
CONSTANTS
  alice = alice
  bob = bob
  NoName = NoName
  Names = {alice}
  MaxClients = 1
  MaxPackets = 3
  MaxTicks = 1
  BufferSize = 2
  Inbound <- AnyLogin
SPECIFICATION FairSpec
PROPERTIES
  LoginAnswered
  ShutdownReturns
  DestroyedLeaves
