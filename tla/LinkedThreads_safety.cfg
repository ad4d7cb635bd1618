SPECIFICATION Spec
SYMMETRY Symmetry
CONSTANTS
  Exchanges = {e1, e2}
  Runs = {r1, r2}
  OriginRuns = {o1, o2}
  Cancellable = {e1, e2}
  MaxRestarts = 2
  NoMail = NoMail
  NoRun = NoRun
CHECK_DEADLOCK FALSE
INVARIANTS
  AnswerIsComing
  ReceiptReachesTimeline
  MailHandedOverOnce
  ReceiptConsumedOnce
PROPERTIES
  ReceiptIsFinal
