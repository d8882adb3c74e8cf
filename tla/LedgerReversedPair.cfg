SPECIFICATION Spec
CONSTANTS
  Customers = {c1}
  Invoices = {1}
  Payments = {p1, p2}
  Requests = {r1}
  Crons = {}
  None = none
  Amounts = {1}
  InvTotal <- MCInvTotal
  InvCustomer <- MCOneOwner
  MaxLines = 1
  MaxCrashes = 0
INVARIANTS
  ReversedPairsNetToZero
