CONSTANTS
  Runtimes = {"agy", "claude", "kimi"}
  MaxVersion = 1
  Nothing = Nothing
  Modified = Modified
  MaxTrouble = 2
SPECIFICATION Spec
INVARIANTS ReleasedIsConsistent SuccessMatchesPins BundleKept
PROPERTY ReleasesHandled
CHECK_DEADLOCK FALSE
