SPECIFICATION Spec
CONSTANTS
  Customers = {c1}
  Invoices = {1}
  Payments = {p1, p2, p3}
  Requests = {r1, r2}
  Crons = {}
  None = none
  Amounts = {1, 2}
  InvTotal <- MCInvTotal
  InvCustomer <- MCOneOwner
  MaxLines = 1
  MaxCrashes = 0
VIEW WithoutBalances
SYMMETRY Identities
INVARIANTS
  NoOverAllocation
  StatusMatchesMoney
  StatementIsTheBalanceOfSound
  ReversalsAreFlatAndSingle
PROPERTIES
  VoidIsSealed
  ReversalUndoesTheWhole
