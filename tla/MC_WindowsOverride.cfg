SPECIFICATION Spec
CONSTANTS
  Profiles <- MCProfiles
  RuleNames <- MCRuleNames
  LegacyNames <- MCLegacyNames
  Services <- MCServices
  RdpPolicy <- MCRdpPolicy
  Adapters <- MCAdapters
  OthersMaySet <- MCOthersMaySet
  Proc = {p1}
  InitialSystems <- Configured
  Tools = {"onsite"}
  Modes = {"repair"}
  OthersMayTouch = {"TCP-3389"}
  MaxStarts = 1
  MaxFaults = 0
  MaxOthers = 1
CHECK_DEADLOCK FALSE
PROPERTY OverrideReported
