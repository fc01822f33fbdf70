CONSTANTS
  TaskLimit = 2
  Second = 2
  LimitSecs = 1
  Lag = 1
  Fetches = {f1}
  MaxHttp = 2
SPECIFICATION FairSpec
PROPERTY FetchIsLeft
