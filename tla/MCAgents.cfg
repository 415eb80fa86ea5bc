SPECIFICATION Spec
CONSTANTS
  Upstreams <- MCUpstreams
  Relays <- MCRelays
  Catalogs <- MCCatalogs
  Loops <- MCLoops
  Planners <- MCPlanners
  Shells <- MCShells
  Codes <- MCCodes
  Recalls <- MCRecalls
  Connectors <- MCConnectors
  Viewers <- MCViewers
INVARIANTS
  TypesHold
  
  BeliefsAreSound
PROPERTIES
  SettingsAreTheUsers
  
CHECK_DEADLOCK FALSE
