CONSTANTS
  Paths = {root, cat, post}
  Root = root
  Default = cat
  Sites = {site}
  SiteOf <- MCSiteOf
  Empty = Empty
  MaxFetches = 2
  MaxTx = 1
SPECIFICATION Spec
PROPERTIES
  TransactionShown
CHECK_DEADLOCK FALSE
