SPECIFICATION Spec
CONSTANTS
  p1 = p1
  p2 = p2
  Proc <- One
  Required <- Ports
  Legacy <- Old
  InitialTables <- RebuiltTables
  Listings <- NoListings
  CemsPolicies <- OnePolicy
  OthersInsert <- Nobody
  OthersRemove <- Leavers
  MaxStarts = 1
  MaxFaults = 0
  MaxOthers = 1
PROPERTY
  PassIsTrue
CHECK_DEADLOCK FALSE
