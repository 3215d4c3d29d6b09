SPECIFICATION CycleFairSpec
CONSTANTS
  ByteBits = 2
  AddrBytes = 2
  MaxAddr = 7
  certA = certA
  certB = certB
  Certs = {certA}
  Certificates = {certA, certB}
  Invalid = Invalid
  V6 = V6
  OtherBlock = OtherBlock
  DefaultConcurrency = 2
  ScanConfigs <- MCScanConfigs
  StoreConfigs <- MCStoreConfigs
  CycleConfigs <- MCCycleConfigs
INVARIANTS
  AddressesAreNumbers
  DialsAreBounded
  ScanIsComplete
  StoreIsComplete
  CycleReportsAll
PROPERTIES
  CycleEnds
