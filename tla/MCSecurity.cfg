CONSTANTS
  BlockSize = 2
  ByteValues = 4
  Polynomial = 3
  ByteXor <- MCXor
  Cipher <- MCCipher
  Decipher <- MCDecipher
  HeaderKey <- MCHeaderKey
  Sbk <- MCSbk
  SskSource <- MCSskSource
  DeviceKeySource <- MCDeviceKeySource
  Files <- MCFiles
  ByteBits = 2
  LimbBytes = 2
  EmLength = 6
  MinPadding = 1
  Questions <- MCQuestions
  Key <- MCKey
  DigestPrefix <- MCPrefix
  SmallPrimes = {2, 3, 5}
  Bases = {2, 3}
SPECIFICATION SecuritySpec
INVARIANTS
  ModesInvert
  CountersApart
  LimbsSound
PROPERTIES
  ContentRecovered
  ImplementsNumbers
CHECK_DEADLOCK FALSE
