\* One peer and every packet: the parser, repeated logins, timeouts.
CONSTANTS
  alice = alice
  bob = bob
  NoName = NoName
  Names = {alice, bob}
  MaxClients = 1
  MaxPackets = 3
  MaxTicks = 1
  BufferSize = 2
  Inbound <- AnyPackets
SPECIFICATION Spec
INVARIANTS
  TypeOK
  AdmittedProved
  PhasesAgree
PROPERTIES
  NameKept
  AnswersInOrder
  StreamKept
