SPECIFICATION FairSpec
CONSTANTS
  Profiles <- MCProfiles
  RuleNames <- MCRuleNames
  LegacyNames <- MCLegacyNames
  Services <- MCServices
  RdpPolicy <- MCRdpPolicy
  Adapters <- MCAdapters
  OthersMaySet <- MCOthersMaySet
  Proc = {p1, p2}
  InitialSystems <- Configured
  Tools = {"onsite", "ftp"}
  Modes = {"audit", "repair"}
  OthersMayTouch = {}
  MaxStarts = 2
  MaxFaults = 1
  MaxOthers = 0
CHECK_DEADLOCK FALSE
PROPERTY SilentRunEnds
