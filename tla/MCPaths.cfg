SPECIFICATION Spec
CONSTANTS
  Releases = {h1, h2}
  Categories = {tv, movies}
  Roots = {r1, r2}
  Tops <- MCTops
  Incomplete = Incomplete
  Uncategorised = Uncategorised
  Elsewhere = Elsewhere
  NoPath = NoPath
  NoRow = NoRow
  NoJob = NoJob
  NoListing = NoListing
  NoRequest = NoRequest
  NoDelete = NoDelete
  MaxEvents = 3
SYMMETRY Interchangeable
CHECK_DEADLOCK FALSE
INVARIANTS TypeOK CompleteIsThere PendingUnderRoot
PROPERTY DeletesOwn
