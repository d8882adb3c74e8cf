SPECIFICATION Spec
CONSTANTS
  Customers = {c1}
  Invoices = {1, 2}
  Payments = {p1, p2}
  Requests = {r1, r2}
  Crons = {}
  None = none
  Amounts = {1}
  InvTotal <- MCInvTotal
  InvCustomer <- MCOneOwner
  MaxLines = 2
  MaxCrashes = 0
VIEW WithoutBalances
SYMMETRY Identities
INVARIANTS
  Inductive
  PaymentNotOverspent
  NumbersAreGapless
  NoDeadlock
