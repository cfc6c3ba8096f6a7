SPECIFICATION Spec
CONSTANTS
  Objects <- MCObjects
  Scenes <- MCScenes
  human = human
  wolf = wolf
  wyvern = wyvern
  CharFiles = {human}
  OtherFiles = {wolf, wyvern}
  Null = Null
  NoChild = NoChild
  Missing = Missing
  Free = Free
  Wmo = Wmo
CHECK_DEADLOCK FALSE
INVARIANTS TypeOK RenderSafe NoFault PanelsAlive EditsShown
