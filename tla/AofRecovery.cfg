SPECIFICATION Spec
CONSTANTS
  Policies = {"always", "everysec"}
  Faults = {"open", "manifest", "child", "rename"}
  WriteFaults = {"always"}
  PowerFaults = {"always"}
  MaxCommands = 2
  MaxRewrites = 2
  MaxToggles = 2
  MaxFaults = 1
  MaxCrashes = 2
  None = None
INVARIANTS TypeOK RecoversPrefix AckedKept ManifestCurrent
