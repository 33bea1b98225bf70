CONSTANTS
  none = none
  crc = crc
  sha1 = sha1
  md5 = md5
  other = other
  NotHex = NotHex
  Done = Done
  Raw = {none, crc, sha1, md5, other}
  ByteLen <- MCByteLen
  Source <- MCSource
  Workers = {w1, w2}
  Crews <- AnyCrew
  Cpus = {2}
  MemStop = 8
  L0Stop = 8
  RowCap = 1
  KvCap = 1
  CommitEvery = 2
  Prior <- MCPrior
  Faults = {}
SPECIFICATION Spec
INVARIANTS DoneMeansImported
CHECK_DEADLOCK FALSE
