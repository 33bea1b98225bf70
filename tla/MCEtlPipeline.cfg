CONSTANTS
  none = none
  crc = crc
  sha1 = sha1
  md5 = md5
  other = other
  NotHex = NotHex
  Done = Done
  Raw = {none, crc, sha1, md5, other}
  ByteLen <- MCByteLen
  Source <- MCSource
  Workers = {w1, w2, w3}
  Crews <- AnyCrew
  Cpus = {1, 2}
  MemStop = 2
  L0Stop = 2
  RowCap = 2
  KvCap = 2
  CommitEvery = 2
  Prior <- MCPrior
  Faults = {"load", "stream", "kill"}
SPECIFICATION Spec
INVARIANTS TypeOK NothingLostInFlight DoneButForMemory SiblingsAgree
PROPERTIES ImplementsImport
SYMMETRY Symmetric
CHECK_DEADLOCK FALSE
