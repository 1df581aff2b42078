CONSTANTS
  m1 = m1
  w1 = w1
  GoogleLogins <- Email
  PasswordLogins <- Email
  Addresses <- Address
  Pages = {q1, q2}
  Tokens = {t1, t2, t3, t4, t5}
  Nonces = {k1, k2, k3, k4, k5, k6, k7}
  None = None
SPECIFICATION FairSpec
INVARIANTS
  TypeOK
PROPERTIES
  NeverLockedOut
  ReplacedTokenRefused
