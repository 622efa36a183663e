SPECIFICATION EvaluationSpec
CONSTANTS
  e = e
  v1 = v1
  v2 = v2
  u1 = u1
  first = first
  second = second
  Run = {e, v1, v2}
  Id = {first, second}
  IdOf <- MCIdOf
  ModeOf <- MCModeOf
  Url = {u1}
  Urls <- MCUrls
  Repetitions = 1
  Version = {plain, tagged}
  Plain = {plain}
  Freshness = 1
  None = None
  NoTail = NoTail
  Torn = Torn
  Glued = Glued
  MaxTime = 2
  MaxEdits = 1
SYMMETRY Symmetry
INVARIANTS
  NothingLost
  ValidationsBacked
  CompleteMeansCovered
  RevalidationFindsCandidates
CHECK_DEADLOCK FALSE
