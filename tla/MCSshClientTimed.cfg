SPECIFICATION FairSpec
CONSTANTS
  Commands = {"ifconfig", "ip"}
  Outputs <- MCOutputs
  ExitCodes = {0, 1}
  command_timeout = 2
  MaxElapsed = 4
INVARIANT CommandTimed
