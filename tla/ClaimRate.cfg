\* As AsyncApi, for one claim.
CONSTANTS
  Kept = {k}
  Gates = {g}
  Asked = {"queryBalance", "queryMessages", "usdt"}
  MaxCalls = 3
  MaxEach = 2
  Replies <- MCReplies
  Tickers <- MCTickers
  Lines <- MCLines
  Times = {3, 6}
  TenHours = 2
  U64 = 16
SPECIFICATION Spec
INVARIANT ConvertedAtAFetchedRate
CHECK_DEADLOCK FALSE
