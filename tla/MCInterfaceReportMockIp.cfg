SPECIFICATION Spec
CHECK_DEADLOCK FALSE
CONSTANTS
  a = a
  b = b
  NoAddress = NoAddress
  Hex <- MCHex
  Spelling <- MCSpelling
  Endpoints <- MCEndpoints
  Devices <- MCPlain
  Cases <- MCMockIp
INVARIANT ReportsTheDevice
