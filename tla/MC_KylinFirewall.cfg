SPECIFICATION Spec
CONSTANTS
  p1 = p1
  p2 = p2
  Proc <- Two
  Required <- Ports
  Legacy <- Old
  InitialTables <- AllTables
  Listings <- SomeListings
  CemsPolicies <- Policies
  OthersInsert <- Comers
  OthersRemove <- Leavers
  MaxStarts = 2
  MaxFaults = 2
  MaxOthers = 1
SYMMETRY Symmetry
INVARIANTS
  TypeOK
  UndoIsExact
  NeverUnblocks
  OverrideMeansInterference
PROPERTIES
  ThirdPartyKeptAlone
  PassIsTrueWhileCemsStays
CHECK_DEADLOCK FALSE
