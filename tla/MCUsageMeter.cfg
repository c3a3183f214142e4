CONSTANTS
  p1 = p1  p2 = p2  p3 = p3  u1 = u1  u2 = u2  i1 = i1  Nothing = Nothing
  Proc = {p1, p2, p3}  Url = {u1, u2}  UrlsOf <- Aliases
  Backends = 2  Pass = {i1}
  MaxTokens = 2  MaxEdits = 2  MaxCrashes = 1
SPECIFICATION MeterSpec
INVARIANTS BookedOnce
CHECK_DEADLOCK FALSE
