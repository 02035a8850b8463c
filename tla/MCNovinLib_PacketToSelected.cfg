SPECIFICATION Spec
CONSTANTS
  Devices = {a, b}
  ZeroSerial = zero
  MaxToken = 2
  KeyChunks = 1
  StatusWords <- MCStatusWords
  DevCodes <- MCDevCodes
  RsaLens <- MCRsaLens
INVARIANT PacketToSelected
