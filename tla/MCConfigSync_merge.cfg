SPECIFICATION SyncSpec
CONSTANTS
  name = name
  lat = lat
  tx = tx
  timeout = timeout
  StrFields = {name}
  NumFields = {lat, tx}
  FixedFields = {timeout}
  FieldOrder <- MCFieldOrder
  Values = {v0, v1, v2}
  Default = v0
  Bad = Bad
  NoFile = NoFile
  Empty = Empty
  NoSnap = NoSnap
  MaxEdits = 3
  MaxUpdates = 2
  MaxCrashes = 2
PROPERTIES StaleFileNeverWins EditsAreMergedFirst EditsArrive
CHECK_DEADLOCK FALSE
