SPECIFICATION PluginSpec
CONSTANTS
  Devices = {a, b}
  ZeroSerial = zero
  MaxToken = 2
  KeyChunks = 1
  StatusWords <- MCStatusWords
  DevCodes <- MCDevCodes
  RsaLens <- MCRsaLens
  Instances = {p, q}
  NoInstance = nobody
  Garbage = garbage
SYMMETRY MCSymmetry
INVARIANTS
  PluginTypeOK
  LoadedWhileUsed
  SerialOfSelection
  
PROPERTIES
  ImplementsSession
