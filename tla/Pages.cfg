SPECIFICATION MCSpec
CONSTANTS
  Parts = {"receipts", "lossy", "ticks", "cases", "note", "patches", "editor", "components", "sections", "products"}
  a = a
  b = b
  a1 = a1
  a2 = a2
  b1 = b1
  x1 = x1
  x2 = x2
  y1 = y1
  Pages = {p1, p2}
  Readers = {r1, r2, r3, r4}
  Hand = Hand
  None = None
SYMMETRY Interchangeable
INVARIANTS
  FormsShowWhatIsHeld
  LinesAndRowsHold
PROPERTIES
  EditsStand
CHECK_DEADLOCK FALSE
