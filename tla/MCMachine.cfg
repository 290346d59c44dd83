CONSTANTS
  CoreCount = 2
  MmioBase = 2
  MmioEnd = 4
  EfuseBase = 9
  EfuseEnd = 10
  MemorySize = 15
  StackSize = 2
  AddressModulus = 16
  LoadAddr = 4
  WordBytes = 2
  Bytes = {0, 1}
  Images <- MCImages
  Fuses <- MCFuses
  Signers = {"rom"}
  Encrypt <- MCEncrypt
  Crypt <- MCCrypt
  SskSource = 1
  DeviceKeySource = 2
  Devices <- MCDevices
  StoreAddresses = {7}
  MaxDevices = 2
  MaxDistributors = 2
SPECIFICATION Spec
INVARIANTS
  TypeOK
  StacksApart
  OneOwner
  OneDistributor
PROPERTIES
  ImplementsSecureBoot
