CONSTANTS
  none = none
  crc = crc
  md5 = md5
  sha1 = sha1
  sha256 = sha256
  odd = odd
  app1 = app1
  app2 = app2
  file1 = file1
  file2 = file2
  NotHex = NotHex
  Null = Null
  Raw = {none, crc, md5, sha1, sha256, odd}
  ByteLen <- MCByteLen
SPECIFICATION Spec
INVARIANTS EverySpellingFound NoFalseHit PackageDetailsGenuine NoFileLeftOut EitherSchema PercentilesNear
CHECK_DEADLOCK FALSE
