\* An object of each class, calls through the adapter, a clock that is set back.
CONSTANTS
  Kept = {k}
  Gates = {g}
  Asked = {"queryBalance", "queryMessages", "usdt"}
  MaxCalls = 3
  MaxEach = 2
  Replies <- MCReplies
  Tickers <- MCTickers
  Lines <- MCLines
  Times = {3, 6}
  TenHours = 2
  U64 = 16
SPECIFICATION Spec
INVARIANTS
  AsyncTypeOK
  AloneHearsItsOwn
  NoRateOnlyAfterFailure
  OwnObjects
PROPERTIES
  AnswersOnce
  FinishedIsAnswered
CHECK_DEADLOCK FALSE
