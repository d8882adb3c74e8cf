SPECIFICATION MCSpec
CONSTANTS
  Parts = {"ledger", "answers", "formula"}
  Customers = {c1, c2}
  Invoices = {1, 2}
  Payments = {p1, p2}
  Requests = {r1, r2}
  Crons = {}
  None = none
  Amounts = {1}
  InvTotal <- MCInvTotal
  InvCustomer <- MCSplitOwners
  MaxLines = 2
  MaxCrashes = 0
  Thousand = 10
  Numbers = {3, 12}
SYMMETRY Identities
ACTION_CONSTRAINT OnePerCustomer
INVARIANTS
  StoredSumsAreExact
  FiguresAndDatesAgree
  FormulasKeepTheirValue
CHECK_DEADLOCK FALSE
