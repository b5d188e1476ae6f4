CONSTANTS
  p1 = p1
  plain = plain
  proxied = proxied
  u1 = u1
  u2 = u2
  BadUrl = BadUrl
  Blank = Blank
  None = None
  Panes <- MCPanes
  Params <- MCParams
  Urls <- MCUrls
  MaxQueue = 2
SPECIFICATION FairSpec
INVARIANTS BookkeepingTrue FollowsPane
PROPERTIES RequestsHonoured
