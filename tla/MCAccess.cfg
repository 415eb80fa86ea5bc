SPECIFICATION Spec
CONSTANTS
  Keys = {"k1", "k2"}
  Legacy = {"k1"}
  Callers = {"c1"}
  FailThreshold = 1
  Requests = {"q1", "q2"}
  ApiKeyIds = {"a", "b"}
  Limit <- Limits
  Window = 2
  Bucket = 1
  MaxClock = 2
  Handlers = {"h1", "h2"}
  SessionKeys = {"s1"}
  MaxPairs = 2
  MaxVersion = 1
  Emails = {"e1", "e2"}
  Invites = {"c1"}
  Applicants = {"a1", "a2"}
  Slots = 1
  Logins = {"d1"}
  Users = {"u1", "u2"}
  Grants = {"g1", "g2"}
  Desktops = {"r1", "r2"}
  Shared = {"a1"}
  Installers = {"u1"}
  Reviewers = {"r1"}
  MaxRevision = 2
  Actors = {"a1", "a2"}
  SpecSessions = {"s1", "s2"}
  AutoSessions = 2
  MaxFeedback = 2
  Orders = {"o"}
  Rates = {1}
  MaxDays = 1
  MaxAdjusts = 1
  MaxCrashes = 1
INVARIANTS
  TypesHold
  AdmittedRightly
  CopiesAgree
PROPERTY DecisionsLast
CHECK_DEADLOCK FALSE
