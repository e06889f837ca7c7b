SPECIFICATION Spec
CONSTANTS
  p1 = p1
  p2 = p2
  Proc <- One
  Required <- Ports
  Legacy <- Old
  InitialTables <- HardTables
  Listings <- OtherListing
  CemsPolicies <- OnePolicy
  OthersInsert <- Nobody
  OthersRemove <- Nobody
  MaxStarts = 1
  MaxFaults = 0
  MaxOthers = 0
PROPERTY
  ThirdPartyKept
CHECK_DEADLOCK FALSE
