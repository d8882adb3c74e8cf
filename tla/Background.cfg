SPECIFICATION MCSpec
CONSTANTS
  Parts = {"outbox", "renderer", "exports"}
  Messages = {sms, unlisted}
  Runs = {d1, d2}
  Blocked = {unlisted}
  NoProvider = {}
  BatchSize = 2
  MaxAttempts = 2
  Backoff <- MCBackoff
  SendTime = 1
  StaleAfter = 2
  MaxAhead = 0
  MaxLate = 1
  MaxFaults = 2
  MaxRetries = 1
  Documents = {doc1, doc2}
  Images = {image}
  MaxLaunches = 4
  MaxRenderFaults = 2
  Ids = {1, 2, 3, 4}
  Keys = {1, 2}
  ExportBatch = 1
  MaxChanges = 2
  None = none
INVARIANTS
  ClaimsAreExclusive
  DeliveriesAreExplained
  OneDocumentAtATime
  DamageIsBounded
PROPERTIES
  ImplementsDelivery
  EveryRequestIsAnswered
CHECK_DEADLOCK FALSE
