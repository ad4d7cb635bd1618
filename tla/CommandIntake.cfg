SPECIFICATION FairSpec
CONSTANTS
  Commands = {delete, send}
  Requests = {q1, q2, q3}
  Tokens = {t1, t2, t3}
  Destructive = {delete}
  WithUpload = {send}
  Droppable = {q1}
  MaxExits = 1
  NoCommand = NoCommand
  NoRequest = NoRequest
  NoToken = NoToken
CHECK_DEADLOCK FALSE
INVARIANTS
  AppliedOnce
  AnswerIsDurable
  TokenClearsOnce
  UploadKeptForRetry
PROPERTIES
  RestoredDataStays
  AdmittedRequestsEnd
  ImplementsOneReceipt
