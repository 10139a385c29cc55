\* A lost connection races the sending of the answers.
CONSTANTS
  alice = alice
  bob = bob
  NoName = NoName
  Names = {alice}
  MaxClients = 1
  MaxPackets = 2
  MaxTicks = 1
  BufferSize = 2
  Inbound <- OneUser
SPECIFICATION Spec
INVARIANT LinkSynchronized
