SPECIFICATION FairSpec
CONSTANTS
  Devices = {a, b}
  ZeroSerial = zero
  MaxToken = 2
  KeyChunks = 2
  StatusWords <- MCStatusWords
  DevCodes <- MCDevCodes
  RsaLens <- MCRsaLens
INVARIANTS
  TypeOK
  OneSession
  KeyInPlace
  
  HealthyToken
  PacketKeyed
  ReturnMatchesError
PROPERTY
  CallReturns
