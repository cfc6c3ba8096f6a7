SPECIFICATION Spec
CONSTANTS
  hero = hero
  rat = rat
  ratskin = ratskin
  mod = mod
  bone = bone
  walk = walk
  Ids <- MCIds
  Names <- MCNames
  Lines <- MCLines
  Present <- MCPresent
  Openables <- MCOpenables
  CustomDir <- MCCustom
  Archived <- MCArchived
  MpqListed <- MCMpqListed
  MaxLoads = 2
  NoId = NoId
  None = None
  NoKey = NoKey
  Data <- MCData
CHECK_DEADLOCK FALSE
INVARIANTS TypeOK MapsAgree Chosen NothingLeftOpen ShownIsAlive
PROPERTIES ServiceKept ReadsRight
