CONSTANTS
  none = none
  md5 = md5
  sha1 = sha1
  crc = crc
  odd = odd
  huge = huge
  details = details
  others = others
  NotHex = NotHex
  NoDetails = NoDetails
  NoRequest = NoRequest
  NoReply = NoReply
  Raw = {none, md5, sha1, crc, odd, huge}
  ByteLen <- MCByteLen
  Stored <- MCStored
  Value <- MCValue
  Unreadable <- MCUnreadable
  LongLines <- MCLongLines
  Conns = {c1, c2}
  Requests <- MCRequests
  MaxBulkWorkers = 2
SPECIFICATION Spec
INVARIANTS TypeOK LookupsBounded NoOrphans ResultsSettled NoFalseAlarm
PROPERTIES ImplementsService ClientAddsUp
SYMMETRY Symmetric
