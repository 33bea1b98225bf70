CONSTANTS
  none = none
  crc = crc
  sha1 = sha1
  md5 = md5
  other = other
  NotHex = NotHex
  Done = Done
  Raw = {none, crc, sha1, md5, other}
  ByteLen <- MCByteLen
  Source <- CleanRows
  Workers = {w1, w2}
  Crews <- AnyCrew
  Cpus = {1, 2}
  MemStop = 1
  L0Stop = 2
  RowCap = 1
  KvCap = 1
  CommitEvery = 1
  Prior <- MCPrior
  Faults = {"load", "stream", "set", "commit"}
SPECIFICATION FairSpec
PROPERTIES Terminates
CHECK_DEADLOCK FALSE
