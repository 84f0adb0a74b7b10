CONSTANTS
  c1 = c1
  c2 = c2
  a1 = a1
  a2 = a2
  Keys <- MCKeys
  Addrs <- MCAddrs
  Packets <- MCPackets
  Hub = 1
  NoAddr = NoAddr
  Nobody = Nobody
  NoKey = NoKey
  Broken = Broken
  MaxLate = 1
  ClientFiles <- MCClientFiles
  AgentFiles <- MCAgentFiles
SPECIFICATION Spec
INVARIANTS
  TypeOK
  RoundTrip
  RegistryApplied
PROPERTIES
  OnlyPermittedPackets
