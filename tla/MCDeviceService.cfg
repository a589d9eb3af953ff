CONSTANTS
  a = a
  b = b
  Client = {a, b}
  Root = {a}
  NoClient = NoClient
  ClientLimit = 1
  Request <- AllRequests
  Changing = {"storage"}
  MaxWait = 1
  Grace = 1
SPECIFICATION FairSpec
INVARIANTS ConnectionsHeldOnce EventsAreOwn ReplyTruthful
PROPERTIES RequestsTakenUp WaitsEnd
