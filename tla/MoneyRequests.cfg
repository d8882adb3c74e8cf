SPECIFICATION MCSpec
CONSTANTS
  Parts = {"keys", "book", "locks", "newYear"}
  Keys = {k1, k2}
  Requests = {r1, r2, r3, r4}
  Commands = {payHundred, payTwoHundred}
  Fingerprint <- MCFingerprint
  HandlersMayStall = FALSE
  MaxDeaths = 2
  Accounts = {a1, a2}
  NoAccount = cash
  AccountOf <- PaidInCash
  BookAmounts = {3}
  BookStarts <- MCBooks
  BookOffers = {"spend", "unspend", "enter", "undo"}
  BookRequests = 3
  BookCrashes = 1
  Payments = {p1, p2}
  Fresh = fresh
  LockRequests = 3
  Bills = {1, 2}
  Settles <- MCSettles
  Years = {2017}
  None = none
SYMMETRY Identities
INVARIANTS
  OneClaimantAtATime
  AnswersHold
  BookHolds
  NeverDeadlock
PROPERTIES
  StoredResponseIsFinal
CHECK_DEADLOCK FALSE
