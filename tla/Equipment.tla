------------------------------- MODULE Equipment -------------------------------
(***************************************************************************)
(* What a character wears.  A WoWItem per slot owns the models of its look *)
(* (attached to the character's bones) and one model that is merged into   *)
(* the character; the customization owns further merged models, which go   *)
(* to a cache when they are no longer needed.  All of them are allocated   *)
(* and freed by hand, and named from the attachment tree, the set of       *)
(* merged models and the cache.                                            *)
(*                                                                         *)
(* An object is the file it was made from and a number; heap is the set of *)
(* those that live.  An object that something still names is not allocated *)
(* again, so that a dangling name stays visible.  A model that fails to    *)
(* load and is forgotten by the code (WoWItem::updateItemModel, WoWModel:: *)
(* mergeModel by file) is left out of the heap.  Every handler runs to its *)
(* end on the UI thread and is one action.                                 *)
(***************************************************************************)
EXTENDS FiniteSets, Functions, Loops

CONSTANTS Slots,       \* the slots of the character
          Items,       \* items; SlotOf tells where each is worn
          SlotOf,
          Rows,        \* Rows[i]: the appearance rows of i, as <<modifier, look>>
          NpcOutfits,  \* looks that NPCs wear, by slot (NoLook: none)
          ModelsOf,    \* ModelsOf[l]: the files that look l attaches
          MergedOf,    \* MergedOf[l]: the file that it merges, or NoFile
          CustomOrder, \* the files that customization choices merge, by number
          BrokenFiles, \* files whose model does not load
          MaxCached    \* MAX_CACHED of WoWModel::poolMergedModel

CONSTANTS NoItem, NpcItem,    \* the ids 0 and -1
          NoLook, NoFile, Null

Looks == DOMAIN ModelsOf
CustomFiles == Range(CustomOrder)
Files == ({MergedOf[l] : l \in Looks} \ {NoFile}) \cup CustomFiles \cup UNION {Range(ModelsOf[l]) : l \in Looks}
Modifiers == {r[1] : r \in UNION {Range(Rows[i]) : i \in Items}}

\* Every item has an appearance, and no item merges a customization's file.
\* A look has two models at most (WoWItem::load).
ASSUME ItemsAssumption ==
    /\ SlotOf \in [Items -> Slots] /\ IsFiniteSet(Slots)
    /\ {NoItem, NpcItem} \cap Items = {} /\ NoItem # NpcItem
    /\ \A i \in Items : Rows[i] \in Seq(Nat \X Looks) /\ Rows[i] # <<>>
ASSUME LooksAssumption ==
    /\ NoLook \notin Looks /\ NpcOutfits \in [Slots -> Looks \cup {NoLook}]
    /\ \A l \in Looks : /\ ModelsOf[l] \in Seq(Nat) /\ Len(ModelsOf[l]) <= 2
                         /\ MergedOf[l] \in (Nat \ CustomFiles) \cup {NoFile}
ASSUME FilesAssumption ==
    /\ CustomOrder \in Seq(Nat) /\ MaxCached \in Nat \ {0}
    /\ NoFile \notin Nat /\ Null \notin Nat \X Nat

Objects == Files \X (Nat \ {0})

VARIABLES heap,    \* the objects that exist
          item,    \* the WoWItem of each slot
          tree,    \* children of the character's attachment
          merged,  \* WoWModel::mergedModels
          cache,   \* WoWModel::mergedModelCache: an object names its file
          custom,  \* CharDetails::models_: files merged at the last refresh
          wanted,  \* files of the choices in customizationElementsPerOption_
          order,   \* the order in which the unordered set yields the items
          loaded   \* what the last handler read: a file, or Null

vars == <<heap, item, tree, merged, cache, custom, wanted, order, loaded>>

Now == [heap |-> heap, item |-> item, tree |-> tree, merged |-> merged,
        cache |-> cache, custom |-> custom]

(***************************************************************************)
(* Objects.                                                                *)
(***************************************************************************)
ItemModels(s) == UNION {Range(s.item[k].models) : k \in Slots}
ItemMerged(s) == {s.item[k].merged : k \in Slots} \ {Null}
Drawn(s) == {s.tree[i].model : i \in DOMAIN s.tree} \ {Null}
Named(s) == ItemModels(s) \cup ItemMerged(s) \cup Drawn(s) \cup s.merged \cup s.cache
NewObject(s, f) ==
    LET used == {o[2] : o \in {p \in s.heap \cup Named(s) : p[1] = f}}
    IN  <<f, CHOOSE n \in 1 .. Cardinality(used) + 1 : n \notin used>>

\* ~WoWModel leaves the attachment it was given last; an older one still names it.
Delete(s, dead) ==
    LET att == s.tree
        left(i) == att[i].model \in dead /\ \A j \in DOMAIN att : att[j].model = att[i].model => j <= i
    IN  [s EXCEPT !.heap = @ \ dead,
                  !.tree = [i \in DOMAIN att |-> [slot |-> att[i].slot,
                                                  model |-> IF left(i) THEN Null ELSE att[i].model]]]

\* Attachment::delSlot: what moves to the place of an erased attachment is
\* not looked at.  at: the attachments that stay.  A mutation: it stops at
\* the first.
StopAtFirst(at, i, att, k) ==
    IF att[i].slot = k /\ Len(at) = i - 1 THEN at ELSE Append(at, i)
LookAt(at, i, att, k) ==
    IF att[i].slot = k /\ (i = 1 \/ i - 1 \in Range(at)) THEN at ELSE Append(at, i)
delSlot(att, k) ==
    LET at == Loop(LAMBDA a, i : LookAt(a, i, att, k), <<>>, [i \in DOMAIN att |-> i])
    IN  [p \in DOMAIN at |-> att[at[p]]]

(***************************************************************************)
(* WoWItem.                                                                *)
(***************************************************************************)
NewItem == [id |-> NpcItem, look |-> NoLook, level |-> 0, levels |-> <<>>,
            mods |-> [m \in Modifiers |-> NoLook], models |-> <<>>, merged |-> Null]

\* A mutation: the merged model is not deleted.
unmergeOnly(s, m) == [s EXCEPT !.merged = @ \ {m}]
dropMerged(s, m) == Delete([s EXCEPT !.merged = @ \ {m}], {m})
unload(s, k) ==
    LET t == Delete(s, Range(s.item[k].models))
        u == [t EXCEPT !.item[k].models = <<>>, !.item[k].merged = Null,
                       !.tree = delSlot(t.tree, k)]
    IN  IF s.item[k].merged = Null THEN u ELSE dropMerged(u, s.item[k].merged)

updateItemModel(s, k, f) ==
    IF f \in BrokenFiles THEN s
    ELSE LET o == NewObject(s, f)
         IN  [s EXCEPT !.heap = @ \cup {o}, !.item[k].models = Append(@, o)]
mergeModel(s, k, f) ==
    IF f = NoFile THEN s
    ELSE LET o == NewObject(s, f) IN [s EXCEPT !.heap = @ \cup {o}, !.item[k].merged = o]

loadModels(s, k, l) == Loop(LAMBDA t, f : updateItemModel(t, k, f), s, ModelsOf[l])
load(s, k) ==
    LET l == s.item[k].look
    IN  IF s.item[k].id = NoItem \/ l = NoLook THEN unload(s, k)
        ELSE mergeModel(loadModels(unload(s, k), k, l), k, MergedOf[l])

\* levelDisplayMap_ has each look once; of two rows with one modifier the last counts.
AddLevel(levels, row) == IF row[2] \in Range(levels) THEN levels ELSE Append(levels, row[2])
LevelsOf == [i \in Items |-> Loop(AddLevel, <<>>, Rows[i])]
ModsOf == [i \in Items |-> [m \in Modifiers |->
    LET with == {j \in DOMAIN Rows[i] : Rows[i][j][1] = m}
    IN  IF with = {} THEN NoLook ELSE Rows[i][CHOOSE j \in with : \A h \in with : h <= j][2]]]
Remembered(mods, i) ==
    [m \in Modifiers |-> IF ModsOf[i][m] = NoLook THEN mods[m] ELSE ModsOf[i][m]]

\* A mutation: the levels of the item worn before stay.
keepLevels(w, i) == [w EXCEPT !.id = i, !.level = 0, !.mods = Remembered(@, i)]
itsLevels(w, i) ==
    [w EXCEPT !.id = i, !.level = 0, !.levels = LevelsOf[i], !.mods = Remembered(@, i)]
firstLook(w) == IF w.levels = <<>> THEN w.look ELSE w.levels[1]
setId(s, k, i) ==
    IF i = s.item[k].id THEN s
    ELSE IF i = NoItem THEN unload([s EXCEPT !.item[k].id = NoItem], k)
    ELSE LET w == itsLevels(s.item[k], i)
         IN  load([s EXCEPT !.item[k] = [w EXCEPT !.look = firstLook(w)]], k)

setDisplayId(s, k, l) ==
    IF l = s.item[k].look THEN s
    ELSE load([s EXCEPT !.item[k].id = NpcItem, !.item[k].look = l], k)

setLevel(s, k, n) ==
    IF Len(s.item[k].levels) <= 1 \/ n = s.item[k].level THEN s
    ELSE LET l == IF n + 1 \in DOMAIN s.item[k].levels THEN s.item[k].levels[n + 1]
                  ELSE s.item[k].look
         IN  load([s EXCEPT !.item[k].level = n, !.item[k].look = l], k)

setModifierId(s, k, m) ==
    IF m \notin Modifiers \/ s.item[k].mods[m] = NoLook THEN s
    ELSE load([s EXCEPT !.item[k].look = s.item[k].mods[m]], k)

\* The slot's part of a saved file.  A mutation: the saved look is not forced.
savedItem(w) == [id |-> w.id, look |-> w.look, level |-> w.level]
keepLook(s, k, l) == s
forceLook(s, k, l) ==
    IF l = NoLook \/ l = s.item[k].look THEN s ELSE load([s EXCEPT !.item[k].look = l], k)
loadSaved(s, k, w) ==
    LET t == IF w.id = NpcItem THEN s ELSE setId(s, k, w.id)
    IN  forceLook(setLevel(t, k, w.level), k, w.look)

(***************************************************************************)
(* Merged customization models, and the refresh of the character.          *)
(***************************************************************************)
OfFile(S, f) == {o \in S : o[1] = f}

\* Mutation: the object taken from the cache stays in it.
takeAndKeep(s, o) == [s EXCEPT !.merged = @ \cup {o}]
takeCached(s, o) == [s EXCEPT !.merged = @ \cup {o}, !.cache = @ \ {o}]
mergeFile(s, f) ==
    IF OfFile(s.merged, f) # {} THEN s
    ELSE IF OfFile(s.cache, f) # {} THEN takeCached(s, CHOOSE o \in OfFile(s.cache, f) : TRUE)
    ELSE IF f \in BrokenFiles THEN s
    ELSE LET o == NewObject(s, f) IN [s EXCEPT !.heap = @ \cup {o}, !.merged = @ \cup {o}]

\* A full cache gives up the file with the least number.  Mutation: it does not.
noRoom(s) == s
makeRoom(s) ==
    LET o == CHOOSE o \in s.cache : \A p \in s.cache : o[1] <= p[1]
    IN  IF Cardinality(s.cache) < MaxCached THEN s
        ELSE [Delete(s, {o}) EXCEPT !.cache = @ \ {o}]
poolMergedModel(s, o) ==
    IF OfFile(s.cache, o[1]) # {} THEN Delete(s, {o})
    ELSE [makeRoom(s) EXCEPT !.cache = @ \cup {o}]
unmergeFile(s, f) ==
    IF OfFile(s.merged, f) = {} THEN s
    ELSE LET o == CHOOSE o \in OfFile(s.merged, f) : TRUE
         IN  poolMergedModel([s EXCEPT !.merged = @ \ {o}], o)

\* What is no longer needed is dropped, then what is newly needed is merged.
dropOld(s, f, files) == IF f \in s.custom \ files THEN unmergeFile(s, f) ELSE s
mergeNew(s, f, files) == IF f \in files \ s.custom THEN mergeFile(s, f) ELSE s
refreshSkinnedModels(s, files) ==
    LET t == Loop(LAMBDA u, f : dropOld(u, f, files), s, CustomOrder)
    IN  [Loop(LAMBDA u, f : mergeNew(u, f, files), t, CustomOrder) EXCEPT !.custom = files]

\* WoWItem::refresh, and WoWModel::refresh around it.
refreshItem(s, k) ==
    LET w == s.item[k]
        nodes == [i \in DOMAIN w.models |-> [slot |-> k, model |-> w.models[i]]]
    IN  IF w.id = NoItem THEN s
        ELSE [s EXCEPT !.merged = @ \cup ({w.merged} \ {Null}), !.tree = delSlot(@, k) \o nodes]
refresh(s, files, os) == Loop(refreshItem, refreshSkinnedModels(s, files), os)

(***************************************************************************)
(* The handlers of CharControl and ModelViewer.                            *)
(***************************************************************************)
Fresh == [heap |-> {}, item |-> [k \in Slots |-> NewItem], tree |-> <<>>,
          merged |-> {}, cache |-> {}, custom |-> {}]

\* A handler tells the item of each slot something.
Told(act, what) == [act |-> act, what |-> what]
Tell(s, k, told) ==
    CASE told.act = "item"   -> setId(s, k, told.what)
      [] told.act = "import" -> setModifierId(setId(s, k, told.what[1]), k, told.what[2])
      [] told.act = "npc"    -> setDisplayId(s, k, told.what)
      [] told.act = "saved"  -> loadSaved(s, k, told.what)
      [] told.act = "none"   -> s
TellAll(s, os, told) == Loop(LAMBDA t, k : Tell(t, k, told[k]), s, os)

Clear(s, os) == TellAll(s, os, [k \in Slots |-> Told("item", NoItem)])

\* A set or a start outfit: its items one by one, after everything is taken off.
tryToEquipItem(i) == IF i = NoItem THEN Told("none", i) ELSE Told("item", i)
wearOutfit(s, o, os) == TellAll(Clear(s, os), os, [k \in Slots |-> tryToEquipItem(o[k])])

\* ImportArmoury: w has an item and its modifier for each slot.
wearImported(s, w, os) == TellAll(s, os, [k \in Slots |-> Told("import", w[k])])

\* LoadNPC with NpcModelItemSlotDisplayInfo.
wearNpc(s, os) ==
    TellAll(s, os, [k \in Slots |-> Told(IF NpcOutfits[k] = NoLook THEN "none" ELSE "npc",
                                         NpcOutfits[k])])

\* LoadChar: every item reads its part of the file.
wearSaved(s, f, os) == TellAll(s, os, [k \in Slots |-> Told("saved", f[k])])

(***************************************************************************)
(* What the handlers are given.                                            *)
(***************************************************************************)
Worn(k) == {NoItem} \cup {i \in Items : SlotOf[i] = k}
PerSlot(Of(_)) == {f \in [Slots -> UNION {Of(k) : k \in Slots}] : \A k \in Slots : f[k] \in Of(k)}
Outfits == PerSlot(Worn)

\* The armory gives an item with the modifier of its look, an empty slot with 0.
Imported(k) == {<<NoItem, 0>>} \cup
               {w \in (Worn(k) \ {NoItem}) \X Modifiers : ModsOf[w[1]][w[2]] # NoLook}
Imports == PerSlot(Imported)

\* What SaveChar writes of a slot.  TypeOK says that it writes nothing else.
LooksIn(k) == {l \in Looks \cup {NoLook} :
                 \/ l \in {NpcOutfits[k], NoLook}
                 \/ \E i \in Worn(k) \ {NoItem} : l \in Range(LevelsOf[i])}
LevelsIn(k) == {0} \cup UNION {1 .. Len(LevelsOf[i]) - 1 : i \in Worn(k) \ {NoItem}}
SavedItems(k) ==
    {w \in [id : Worn(k) \cup {NpcItem}, look : LooksIn(k), level : LevelsIn(k)] :
        /\ w.id = NpcItem => w.look \in {NpcOutfits[k], NoLook} /\ w.level = 0
        /\ w.id \in Items => /\ w.look \in Range(LevelsOf[w.id])
                             /\ w.level < Len(LevelsOf[w.id])}
SavedFiles == PerSlot(SavedItems)

\* An order of the slots.
Orders == {os \in [1 .. Cardinality(Slots) -> Slots] : Range(os) = Slots}

(***************************************************************************)
(* The state machine.  It follows one character model: a handler that      *)
(* loads another model starts anew.                                        *)
(***************************************************************************)
Become(s) == /\ heap = s.heap /\ item = s.item /\ tree = s.tree
             /\ merged = s.merged /\ cache = s.cache /\ custom = s.custom

\* The model is new: picked, a saved character, an imported one, or an NPC.
Init == /\ wanted \in SUBSET CustomFiles /\ order \in Orders
        /\ \/ loaded = Null /\ Become(refresh(Fresh, wanted, order))
           \/ \E f \in SavedFiles : /\ loaded = [file |-> f, new |-> TRUE]
                                    /\ Become(refresh(wearSaved(Fresh, f, order), wanted, order))
           \/ \E w \in Imports : /\ loaded = Null
                                 /\ Become(refresh(wearImported(Fresh, w, order), wanted, order))
           \/ loaded = Null /\ Become(refresh(wearNpc(Fresh, order), wanted, order))

\* A handler leaves the character as s and refreshes it; l: the file it read.
LeaveWith(s, files, l) ==
    \E t \in {refresh(s, files, order)} :
        /\ heap' = t.heap /\ item' = t.item /\ tree' = t.tree
        /\ merged' = t.merged /\ cache' = t.cache /\ custom' = t.custom
        /\ wanted' = files /\ loaded' = l /\ UNCHANGED order
Leave(s) == LeaveWith(s, wanted, Null)

ClearEquipment == Leave(Clear(Now, order))
ClearSlot(k) == item[k].id # NoItem /\ Leave(setId(Now, k, NoItem))
PickItem(k) == \E i \in Worn(k) : Leave(setId(Now, k, i))
ChangeLevel(k) == \E n \in 0 .. Len(item[k].levels) - 1 : Leave(setLevel(Now, k, n))
WearOutfit == \E o \in Outfits : Leave(wearOutfit(Now, o, order))
Import == \E w \in Imports : Leave(wearImported(Now, w, order))
LoadChar == \E f \in SavedFiles :
    LeaveWith(wearSaved(Clear(Now, order), f, order), wanted, [file |-> f, new |-> FALSE])

\* A choice is set: other files are wanted.
Customize == \E files \in SUBSET CustomFiles : LeaveWith(Now, files, Null)

Next == \/ ClearEquipment \/ WearOutfit \/ Import \/ LoadChar \/ Customize
        \/ \E k \in Slots : ClearSlot(k) \/ PickItem(k) \/ ChangeLevel(k)

Spec == Init /\ [][Next]_vars

(***************************************************************************)
(* Properties.                                                             *)
(***************************************************************************)
\* The types of the variables; the cache keeps its bound and files its
\* objects by their file (WoWModel::poolMergedModel).
TypeOK ==
    /\ heap \subseteq Objects
    /\ \A k \in Slots : /\ savedItem(item[k]) \in SavedItems(k)
                        /\ Range(item[k].models) \subseteq Objects
                        /\ item[k].merged \in Objects \cup {Null}
    /\ \A a \in Range(tree) : a.slot \in Slots /\ a.model \in Objects \cup {Null}
    /\ merged \subseteq Objects /\ custom \subseteq CustomFiles /\ wanted \subseteq CustomFiles
    /\ cache \subseteq Objects /\ Cardinality(cache) <= MaxCached
    /\ \A o \in cache : o[1] \in CustomFiles /\ OfFile(cache, o[1]) = {o}

\* Nothing names a deleted model: neither the attachments that are drawn and
\* ticked, of which delSlot overlooks some, nor the merged models, the cache
\* and the items (WoWItem::unload, WoWModel::poolMergedModel).
NoDeadModel == Named(Now) \subseteq heap

\* A model that was made is deleted when nothing owns it any more (the comment
\* in WoWItem::unload tells of the leak this once was).
NothingLost == heap \subseteq ItemModels(Now) \cup merged \cup cache

\* What is drawn is what is worn: the attachments are those of the worn looks,
\* and merged are their merged models and one model for each file that the
\* customization asks for, none of which lies in the cache as well.
WornIsDrawn ==
    LET others == merged \ ItemMerged(Now)
    IN  /\ Drawn(Now) = ItemModels(Now)
        /\ ItemMerged(Now) \subseteq merged
        /\ {o[1] : o \in others} = wanted \ BrokenFiles
        /\ Cardinality(others) = Cardinality(wanted \ BrokenFiles)
        /\ merged \cap cache = {}

\* An item shows one of its own looks, though the slot remembers the modifiers
\* of every item it has held (WoWItem::setId, setModifierId).
LookIsOwn ==
    \A k \in Slots : item[k].id \in Items =>
        item[k].look \in {r[2] : r \in Range(Rows[item[k].id])}

\* A saved character wears again what it wore (WoWItem::load): on a new model
\* every look comes back, on the displayed one every look that an item has.
Look(w) == IF w.id = NoItem THEN NoLook ELSE w.look
ReloadShows ==
    loaded # Null =>
        \A k \in Slots : loaded.new \/ loaded.file[k].id \in Items =>
            Look(item[k]) = Look(loaded.file[k])

\* "remove any existing attachement" (WoWItem::unload): no model is attached twice.
AttachedOnce ==
    \A i, j \in DOMAIN tree : tree[i].model = tree[j].model /\ tree[i].model # Null => i = j
=============================================================================
