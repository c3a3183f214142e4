CONSTANTS
  r1 = r1  r2 = r2  s1 = s1  s2 = s2  s3 = s3  None = None
  Run = {r1, r2}  Slug = {s1, s2, s3}
SPECIFICATION Spec
SYMMETRY Names
INVARIANTS SharesMatch SiteIsPublic
CHECK_DEADLOCK FALSE
