CONSTANTS
  c1 = c1
  c2 = c2
  c3 = c3
  s1 = s1
  s2 = s2
  Slugs <- OneSlug
  Cids <- TwoCids
  EventSlug <- SameSlug
  NonceKeys = {}
  Lookups = {q1, q2}
  Nonce = Nonce
  Null = Null
  NoEntry = NoEntry
SPECIFICATION FairSpec
INVARIANTS
  NotFoundIsTrue
