CONSTANTS
  u1 = u1
  n1 = n1
  n2 = n2
  slug1 = slug1
  Users = {u1}
  News <- MCNews
  Nanoids = {i1, i2}
  NoRow = NoRow
  Sockets = {s1}
  Handlers = {h1, h2}
  JoinMsgs <- OwnOnly
  ScrollValues = {99}
  FlagValues = {}
  Slugs <- MCSlugs
  SlugOf <- SharedSlug
  NonceKeys = {slug1}
  NoSlug = NoSlug
  MinReadSeconds <- OneOrTwo
  NaN = NaN
  MaxTime = 1
  NoReader = NoReader
SPECIFICATION SerialSpec
SYMMETRY Symmetry
INVARIANTS
  UpdateMeetsPending
  ReportedVerdictStands
  SuccessNotBeforeReadTime
PROPERTIES
  ImplementsLifecycle
