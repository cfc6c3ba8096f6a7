SPECIFICATION Spec
CONSTANTS
  Slots <- TheSlots
  Items <- TheItems
  SlotOf <- TheSlotOf
  Rows <- TheRows
  NpcOutfits <- TheNpcOutfits
  ModelsOf <- TheModelsOf
  MergedOf <- TheMergedOf
  CustomOrder <- TheCustomOrder
  BrokenFiles = {13}
  MaxCached = 1
  NoItem = 0
  NpcItem <- TheNpcItem
  NoLook = NoLook
  NoFile = NoFile
  Null = Null
INVARIANTS AttachedOnce
