SPECIFICATION MCSpec
CONSTANTS
  Parts = {"quotation", "edits", "sales", "instalments", "rates"}
  Txns = {t1, t2}
  Lines = {a, b, c}
  Legacy = a
  QuotationStarts <- Racing
  QuotationKinds <- AllKinds
  QuotationRequests = 2
  Alone = alone
  EditRequests = 3
  Projects = {p}
  Deals = {d1, d2}
  SalesRequests = 3
  Invoices = {i, j, k}
  Ours = {i, j}
  InstalmentRequests = 3
  LastDay = 5
  SeedDay = 2
  Starts <- RateStarts
  MaxRequests = 4
  MaxCrashes = 1
  Same = same
  Nothing = nothing
SYMMETRY Identities
INVARIANTS
  ProformasAreSound
  EditsKeepTheQuotation
  SignedIsWon
  ScheduleMakesTheValue
  OneRatePerDay
PROPERTIES
  PapersOnlyMoveForward
CHECK_DEADLOCK FALSE
