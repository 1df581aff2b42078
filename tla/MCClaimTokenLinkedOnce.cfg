CONSTANTS
  u1 = u1
  u2 = u2
  n1 = n1
  n2 = n2
  w1 = w1
  w2 = w2
  Users <- OneReader
  News <- TwoNews
  Nanoids = {i1}
  NoRow = NoRow
  Wallets <- TwoWallets
  NoWallet = NoWallet
  Requests = {q1, q2}
  TokenValue <- MCTokenValue
  LogValues = {0, 1}
  RepeatPays = TRUE
  MaxNonce = 1
SPECIFICATION Spec
SYMMETRY Symmetry
PROPERTIES
  LinkedOnce
