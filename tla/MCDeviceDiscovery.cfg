SPECIFICATION FairSpec
CONSTANTS
  NoAddress = NoAddress
  NoTarget = NoTarget
  NotGiven = NotGiven
  LLMax = 5000
  Numerals <- MCNumerals
  Environment <- MCEnvironment
  CommandLines <- MCCommandLines
  HostLists <- MCHostLists
  MaxHosts = 2
  Outputs <- MCOutputs
  ExitCodes = {0, 1}
  Candidates <- MCCandidates
INVARIANTS OptionsAsWritten ExitCodeTellsCredentials ClosedAtExit
PROPERTIES CredentialsOnlyToTheDevice RunEnds
