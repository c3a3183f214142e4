CONSTANTS
  m1 = m1  m2 = m2  n1 = n1  n2 = n2  n3 = n3  None = None
  Ram = 120  Lab = 26
  Model = {m1, m2}  Worlds <- AllWorlds  Presets <- OnePreset
  Local = n1  Others <- TwoMore
  MaxSteps = 4  MaxChanges = 1
SPECIFICATION Spec
INVARIANTS LaunchFits StartAgrees SizedAsPromised BackendIsSafe
CHECK_DEADLOCK FALSE
