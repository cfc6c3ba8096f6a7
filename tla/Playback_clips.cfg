SPECIFICATION FairSpec
CONSTANTS
  stand = stand
  walk = walk
  None = None
  Anims <- TheAnims
  Length <- TheLength
  NextAnim <- TheNext
  First = walk
  Stand = stand
  FrameIntervals = 6
  Ticks = {7}
  Speeds = {20}
  LoopChoices = {0, 1, 2}
  SliderStops = {0, 9, 16}
  Ranges <- TheRanges
  Step = 9
  MaxNesting = 10
  MaxClicks = 3
INVARIANTS TypeOK StopReturns PlaceHeld
PROPERTIES ExportRestores LoopsEnd
