\* Two peers log in under one name, and leave, while the server runs or shuts down.
\* Timeouts come at once: a client that has timed out is told to go and may log in.
CONSTANTS
  alice = alice
  bob = bob
  NoName = NoName
  Names = {alice}
  MaxClients = 2
  MaxPackets = 2
  MaxTicks = 0
  BufferSize = 2
  Inbound <- OneUser
SPECIFICATION Spec
INVARIANTS
  UniqueNames
  RemovedIsDestroyed
PROPERTIES
  IsDirectory
  KeepsClientList
