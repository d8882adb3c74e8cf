SPECIFICATION MCSpec
CONSTANTS
  Parts = {"keys"}
  Keys = {k1}
  Requests = {r1, r2}
  Commands = {payHundred}
  Fingerprint <- MCFingerprint
  HandlersMayStall = FALSE
  MaxDeaths = 1
  Accounts = {a1}
  NoAccount = cash
  AccountOf <- PaidInCash
  BookAmounts = {3}
  BookStarts <- MCBooks
  BookOffers = {"spend", "unspend", "enter", "undo"}
  BookRequests = 0
  BookCrashes = 0
  Payments = {p1}
  Fresh = fresh
  LockRequests = 0
  Bills = {1}
  Settles <- MCSettles
  Years = {2017}
  None = none
INVARIANTS
  RepeatNeverReexecutes
CHECK_DEADLOCK FALSE
