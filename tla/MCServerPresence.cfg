\* Two peers log in under two names and learn of each other.
CONSTANTS
  alice = alice
  bob = bob
  NoName = NoName
  Names = {alice, bob}
  MaxClients = 2
  MaxPackets = 2
  MaxTicks = 1
  BufferSize = 2
  Inbound <- TwoUsers
SPECIFICATION Spec
INVARIANTS
  Presence
  NoGhostOfRemoved
  RosterProved
