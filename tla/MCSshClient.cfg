SPECIFICATION FairSpec
CONSTANTS
  Commands = {"ifconfig", "ip"}
  Outputs <- MCOutputs
  ExitCodes = {0, 1}
  command_timeout = 1
  MaxElapsed = 2
INVARIANTS TypeOK NothingLeaks
PROPERTIES CredentialGate CallsReturn
