CONSTANTS
  u1 = u1
  u2 = u2
  n1 = n1
  slug1 = slug1
  Users <- MCUsers
  News <- MCNews
  Nanoids = {i1}
  NoRow = NoRow
  Sockets = {s1}
  Handlers = {h1,h2}
  JoinMsgs <- OwnOnly
  ScrollValues = {}
  FlagValues = {TRUE}
  Slugs <- MCSlugs
  SlugOf <- NewsSlug
  NonceKeys = {}
  NoSlug = NoSlug
  MinReadSeconds <- OneSecond
  NaN = NaN
  MaxTime = 1
  NoReader = NoReader
SPECIFICATION FairSpec
PROPERTIES
  HandlersFinish
  EventuallySettled
