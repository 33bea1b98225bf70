CONSTANTS
  none = none
  md5 = md5
  odd = odd
  details = details
  NotHex = NotHex
  NoDetails = NoDetails
  NoRequest = NoRequest
  NoReply = NoReply
  Raw = {none, md5, odd}
  ByteLen <- MCByteLen
  Stored <- MCStored
  Value <- MCValue
  Unreadable = {}
  Conns = {c1, c2}
  Requests <- MCRequests
  MaxBulkWorkers = 1
  MaxSignals = 2
SPECIFICATION ServerFairSpec
PROPERTIES SignalStops
CHECK_DEADLOCK FALSE
