SPECIFICATION MCSpec
CONSTANTS
  Parts = {"quotation"}
  Txns = {t1, t2}
  Lines = {a, b, c}
  Legacy = a
  QuotationStarts <- JustTwoLines
  QuotationKinds <- LineEdits
  QuotationRequests = 2
  Alone = alone
  EditRequests = 0
  Projects = {p}
  Deals = {d1}
  SalesRequests = 0
  Invoices = {i}
  Ours = {i}
  InstalmentRequests = 0
  LastDay = 5
  SeedDay = 2
  Starts <- RateStarts
  MaxRequests = 0
  MaxCrashes = 0
  Same = same
  Nothing = nothing
INVARIANTS
  HeaderIsTheSumOfItsLines
CHECK_DEADLOCK FALSE
