SPECIFICATION Spec
CONSTANTS
  Profiles <- MCProfiles
  RuleNames <- MCRuleNames
  LegacyNames <- MCLegacyNames
  Services <- MCServices
  RdpPolicy <- MCRdpPolicy
  Adapters <- MCAdapters
  OthersMaySet <- MCOthersMaySet
  Proc = {p1, p2}
  InitialSystems <- AllSystems
  Tools = {"onsite", "ftp"}
  Modes = {"audit", "repair", "rollback"}
  OthersMayTouch = {"public", "TCP-3389", "TermService", "fDenyTSConnections", "eth0", "eth1"}
  MaxStarts = 2
  MaxFaults = 1
  MaxOthers = 1
CHECK_DEADLOCK FALSE
SYMMETRY Symmetry
INVARIANTS
  CanAlwaysRollBack
  RollbackRestores
  HardenedAsReported
PROPERTY FirstBackupKept
