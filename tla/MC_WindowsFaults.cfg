SPECIFICATION Spec
CONSTANTS
  Profiles <- MCProfiles
  RuleNames <- MCRuleNames
  LegacyNames <- MCLegacyNames
  Services <- MCServices
  RdpPolicy <- MCRdpPolicy
  Adapters <- MCAdapters
  OthersMaySet <- MCOthersMaySet
  Proc = {p1, p2}
  InitialSystems <- Configured
  Tools = {"onsite", "ftp"}
  Modes = {"audit", "repair", "rollback"}
  OthersMayTouch = {}
  MaxStarts = 3
  MaxFaults = 2
  MaxOthers = 0
CHECK_DEADLOCK FALSE
SYMMETRY Symmetry
INVARIANTS
  TypeOK
  OneWorkflowAtATime
  CanAlwaysRollBack
  RollbackRestores
  HardenedAsReported
  ChangeReportedExactly
PROPERTY WritesAreGuarded
