CONSTANTS
  p1 = p1  p2 = p2  p3 = p3  u1 = u1  u2 = u2  spark = spark  lail = lail
  vllm = vllm  sglang = sglang  r1 = r1  r2 = r2  None = None
  Proc = {p1, p2, p3}  Url = {u1, u2}  Home = u1  Name = {spark, lail}  Kind = {vllm, sglang}
  UrlOf <- TwoUrls  NameOf <- TwoNames  KindOf <- TwoKinds
  Vllm = vllm  Unversioned = {}
  Reader = {r1, r2}
  QuickSwap = FALSE  MaxStarts = 2  MaxTokens = 1  MaxLost = 1
SPECIFICATION Spec
SYMMETRY Interchangeable
INVARIANTS NoMissedPublish RateIsReal
CHECK_DEADLOCK FALSE
