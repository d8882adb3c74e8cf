SPECIFICATION MCSpec
CONSTANTS
  Parts = {"staff", "sessions", "surveys", "lifts", "lift", "visits", "visit", "daily", "money", "office"}
  Txns = {t1, t2}
  Emails = {"abebe", "chala", "derartu"}
  Founders = {"abebe", "chala"}
  MaxRequests = 3
  MaxCrashes = 1
  None = None
  PhoneCall = phoneCall
  Browser = browser
  Phone = phone
  SurveyNames = {"bole plaza", "sar bet"}
  SurveyRequests = 3
  Lift = lift
  People = {abel, sara}
  AssetRequests = 3
  AssetRequestsAlone = 4
  Customer = customer
  Writer = writer
  Invoice = invoice
  Warranty = warranty
SYMMETRY Interchangeable
INVARIANTS
  AnAdminRemains
  RefusedForAReason
  SheetsAreWhole
  LiftsAndVisitsHold
  PeopleAreTold
PROPERTIES
  VisitsRoll
CHECK_DEADLOCK FALSE
