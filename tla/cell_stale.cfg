SPECIFICATION FairSpec
CONSTANTS
  Feeds <- MCFeeds
  FirstFeed <- MCFirstFeed
  Cells <- MCCells
  FirstCell <- MCFirstCell
  Period = 2
  Lead = 5
  Margin = 2
  Timeout = 1
  MaxAge = 1
  MaxAhead = 1
  MaxStates = 2
  MaxEvents = 1
PROPERTY StaleAlwaysNoticed
