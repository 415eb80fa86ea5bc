SPECIFICATION Spec
CONSTANTS
  Generations <- MCGenerations
  Watches <- MCWatches
  Libraries <- MCLibraries
  Registries <- MCRegistries
  Notes = {"n1", "n2"}
  Readers = {"u1", "u2"}
  Online = {"u1"}
  Posters = {"p1"}
  MaxFaulty = 1
  ChannelOrder <- MCChannels
  AlertRetries = 1
  Orders = {"o"}
  Handlers = {"h1", "h2"}
  Rates = {1}
  MaxDays = 0
  MaxAdjusts = 0
  MaxCrashes = 1
INVARIANTS
  TypesHold
  
PROPERTIES
  EndedStays
  JobsEnd
CHECK_DEADLOCK FALSE
