----------------------------- MODULE MCEquipment -----------------------------
(***************************************************************************)
(* A head and a shoulder slot.  The helms 1 and 2 have two looks and one;  *)
(* the shoulders 3 have two models; NPCs wear a helm of their own.  Files  *)
(* below 10 belong to the customization, and one of those does not load.   *)
(***************************************************************************)
EXTENDS Equipment

TheSlots == {"head", "shoulder"}
TheItems == {1, 2, 3}
TheSlotOf == <<"head", "head", "shoulder">>
TheRows == <<<<<<0, "hood">>, <<1, "horns">>>>, <<<<1, "cap">>>>, <<<<0, "pads">>>>>>
TheModelsOf == [l \in {"hood", "horns", "cap", "pads"} |->
                  CASE l = "hood" -> <<11>> [] l = "horns" -> <<12, 13>>
                    [] l = "cap" -> <<>>    [] l = "pads" -> <<14, 14>>]
TheMergedOf == [l \in DOMAIN TheModelsOf |-> CASE l = "hood" -> 15 [] l = "cap" -> 15 [] OTHER -> NoFile]
TheNpcOutfits == [k \in TheSlots |-> IF k = "head" THEN "cap" ELSE NoLook]
TheCustomOrder == <<1, 2>>
TheNpcItem == -1
=============================================================================
