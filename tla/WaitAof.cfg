SPECIFICATION Spec
CONSTANTS
  Policies = {"always", "everysec"}
  Faults = {}
  WriteFaults = {}
  PowerFaults = {"everysec"}
  MaxCommands = 1
  MaxRewrites = 1
  MaxToggles = 0
  MaxFaults = 0
  MaxCrashes = 1
  None = None
INVARIANT WaitAofKept
