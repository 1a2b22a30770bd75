CONSTANTS
  Paths = {root, cat, post}
  Root = root
  Default = cat
  Sites = {site}
  SiteOf <- MCSiteOf
  Empty = Empty
  MaxFetches = 4
  MaxTx = 1
SPECIFICATION Spec
INVARIANTS
  ForwardKept
CHECK_DEADLOCK FALSE
