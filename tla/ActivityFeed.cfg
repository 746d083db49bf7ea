SPECIFICATION FeedSpec
CONSTANTS
  Room = 2
  MaxRows = 5
  Times = {1, 2}
  MaxSteps = 5
PROPERTY PositionPreserved
