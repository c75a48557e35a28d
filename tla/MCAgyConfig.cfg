CONSTANTS
  Sessions = {s1, s2, s3}
  Names = {n1}
  Values = {v1, v2}
  UserValues = {u1}
  Absent = Absent
  Nobody = Nobody
  MaxEdits = 2
  MaxKills = 1
  Channels = {c1, c2}
  NoChannel = NoChannel
  Retries = 2
  Nothing = Nothing
  Garbage = Garbage
  Parts = {Nothing, Garbage, mine}
  NoRegistry = NoRegistry
  MaxHookEdits = 3
SPECIFICATION ConfigSpec
SYMMETRY Symmetry
INVARIANTS NoLeftovers UserEditsKept HookEditsKept RegistrationMatchesStatus RestoresWorkspace
CHECK_DEADLOCK FALSE
