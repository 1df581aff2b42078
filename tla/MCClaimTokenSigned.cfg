CONSTANTS
  u1 = u1
  u2 = u2
  n1 = n1
  n2 = n2
  w1 = w1
  w2 = w2
  Users <- TwoReaders
  News <- OneNews
  Nanoids = {i1, i2}
  NoRow = NoRow
  Wallets <- OneWallet
  NoWallet = NoWallet
  Requests = {q1, q2}
  TokenValue <- MCTokenValue
  LogValues = {0, 1}
  RepeatPays = TRUE
  MaxNonce = 1
SPECIFICATION Spec
SYMMETRY Symmetry
INVARIANTS
  TypeOK
  SignedOnlyIfWon
