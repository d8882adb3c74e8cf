SPECIFICATION FairSpec
CONSTANTS
  Customers = {c1}
  Invoices = {1}
  Payments = {p1}
  Requests = {r1, r2}
  Crons = {n1}
  None = none
  Amounts = {1}
  InvTotal <- MCInvTotal
  InvCustomer <- MCOneOwner
  MaxLines = 1
  MaxCrashes = 1
PROPERTIES
  ReconciliationHeals
