------------------------------ MODULE ModelPanel ------------------------------
(***************************************************************************)
(* Who owns the displayed model, and who only points to it.  ModelCanvas   *)
(* allocates and deletes the WoWModel or WMO that FileControl, ModelViewer *)
(* and CharControl ask for; the attachment tree, the character panel, the  *)
(* customization frame, the animation panel and the model panel keep plain *)
(* pointers to it.  An object is a member of Objects; heap says what it is *)
(* or that it is free, and an object that some pointer still names is not  *)
(* allocated again, so that a dangling pointer stays visible as one.       *)
(*                                                                         *)
(* Every handler runs to its end on the UI thread and is one action.  A    *)
(* handler that follows a null or a deleted pointer sets fault, and nothing*)
(* happens after it.                                                       *)
(***************************************************************************)
EXTENDS Naturals, FiniteSets

CONSTANTS Objects,     \* bound: the objects that can exist or be pointed to at once
          CharFiles,   \* files of character models
          OtherFiles,  \* files of other models
          Scenes       \* the stories told: see FilesAssumption

Files == CharFiles \cup OtherFiles
\* A scene has the files whose model does not load (ok = false) and what the
\* user does besides loading models.
UseNames == {"image", "wmo", "import", "mount", "dismount", "missing"}
ASSUME FilesAssumption == /\ CharFiles \cap OtherFiles = {}
                          /\ Scenes \subseteq [broken : SUBSET Files, uses : SUBSET UseNames]

CONSTANTS Null,      \* no object
          NoChild,   \* root has no child attachment
          Missing,   \* a file that the game directory does not have
          Free, Wmo  \* heap: a deleted object, a world map object
ASSUME NullAssumption == /\ Null \notin Objects /\ NoChild \notin Objects \cup {Null}
                         /\ Missing \notin Files /\ Wmo \notin Files /\ Free \notin Files \cup {Wmo}

VARIABLES heap,       \* what each object is
          canvas,     \* ModelCanvas::model_
          wmo,        \* ModelCanvas::wmo
          root,       \* ModelCanvas::root->model_
          child,      \* model_ of the attachment below root
          charModel,  \* CharControl::model
          charAtt,    \* CharControl::charAtt: "null", "child" or "gone"
          cdModel,    \* CharDetailsFrame::model_
          selModel,   \* g_selModel of the animation panel
          mcModel,    \* ModelControl::model
          list,       \* ModelControl::attachments: of "root", "child", "gone"
          isModel, isChar, isWMO, cdOn, \* ModelViewer's flags, cdFrame->Enable
          fault,      \* "none", "null" or "freed"
          scene       \* the member of Scenes that is played

owned == <<heap, canvas, wmo, root, child>>
panels == <<charModel, charAtt, cdModel, selModel, mcModel, list>>
flags == <<isModel, isChar, isWMO, cdOn>>
pvars == <<owned, panels, flags, fault, scene>>

Now == [heap |-> heap, canvas |-> canvas, wmo |-> wmo, root |-> root, child |-> child,
        charModel |-> charModel, charAtt |-> charAtt, cdModel |-> cdModel,
        selModel |-> selModel, mcModel |-> mcModel, list |-> list,
        isModel |-> isModel, isChar |-> isChar, isWMO |-> isWMO, cdOn |-> cdOn,
        fault |-> fault]

BrokenFiles == scene.broken
Uses == scene.uses

(***************************************************************************)
(* Pointers.                                                               *)
(***************************************************************************)
Live(s) == {o \in Objects : s.heap[o] # Free}
Pointers(s) == {s.canvas, s.wmo, s.root, s.child, s.charModel, s.cdModel, s.selModel, s.mcModel}
Unused(s) == {o \in Objects : s.heap[o] = Free} \ Pointers(s)

\* The handler follows pointer p.
Follow(s, p) ==
    IF s.fault # "none" \/ p \in Live(s) THEN s
    ELSE [s EXCEPT !.fault = IF p = Null THEN "null" ELSE "freed"]
FollowIfSet(s, p) == IF p \in {Null, NoChild} THEN s ELSE Follow(s, p)

\* delete p.  ~WoWModel leaves its attachment; ~WMO does not.
Delete(s, p) ==
    IF p = Null THEN s
    ELSE LET t == Follow(s, p)
             leaves(att) == IF att = p /\ s.heap[p] # Wmo THEN Null ELSE att
         IN  [t EXCEPT !.heap[p] = Free, !.root = leaves(@), !.child = leaves(@)]

\* Attachment::setModel on root: the former model is told that it is detached.
SetRoot(s, p) == [FollowIfSet(s, s.root) EXCEPT !.root = p]

\* clearAttachments: ~Attachment detaches the child's model.
Gone(atts) == (atts \ {"child"}) \cup (IF "child" \in atts THEN {"gone"} ELSE {})
clearAttachments(s) ==
    [FollowIfSet(s, s.child) EXCEPT !.child = NoChild, !.list = Gone(@),
        !.charAtt = IF @ = "child" /\ s.child # NoChild THEN "gone" ELSE @]

\* ModelControl::RefreshModel.
RefreshList(s) ==
    [FollowIfSet(FollowIfSet(s, s.root), s.child) EXCEPT
        !.list = (IF s.root = Null THEN {} ELSE {"root"}) \cup
                 (IF s.child \in {Null, NoChild} THEN {} ELSE {"child"})]

(***************************************************************************)
(* ModelCanvas and ModelViewer.                                            *)
(***************************************************************************)
\* wxDELETE(wmo).  A mutation: the pointer is not reset.
danglingWMO(s) == Delete(s, s.wmo)
deleteWMO(s) == [Delete(s, s.wmo) EXCEPT !.wmo = Null]
\* ModelCanvas::setModel(NULL).  A mutation: the pointer is not reset.
deleteOnly(s) == Delete(s, s.canvas)
deleteCanvas(s) == [Delete(s, s.canvas) EXCEPT !.canvas = Null]

\* ModelCanvas::LoadModel.
canvasDetaches(s) == SetRoot(clearAttachments(s), Null)
canvasLoadModel(s, f) ==
    LET t == deleteCanvas(deleteWMO(canvasDetaches(s)))
        new == CHOOSE o \in Unused(t) : TRUE
        u == [t EXCEPT !.heap[new] = f]
    IN  IF f \in BrokenFiles THEN u ELSE [u EXCEPT !.canvas = new, !.child = new]

\* The panels' part of LoadModel: CharControl::UpdateModel with the frame's
\* setModel, ModelControl::UpdateModel and RefreshModel, AnimControl::UpdateModel.
\* A mutation: the character panel keeps the first model it gets.
updateOnce(s) ==
    RefreshList([s EXCEPT !.charModel = IF @ = Null THEN s.canvas ELSE @,
                          !.charAtt = "child", !.cdOn = s.isChar,
                          !.cdModel = IF s.isChar THEN s.canvas ELSE @,
                          !.mcModel = s.canvas, !.selModel = s.canvas])
updatePanels(s) ==
    RefreshList([s EXCEPT !.charModel = s.canvas, !.charAtt = "child", !.cdOn = s.isChar,
                          !.cdModel = IF s.isChar THEN s.canvas ELSE @,
                          !.mcModel = s.canvas, !.selModel = s.canvas])

\* ModelViewer::LoadModel.
modelFlags(s, f) == [s EXCEPT !.isModel = TRUE, !.isChar = (f \in CharFiles)]
Shows(s, f) == s.canvas # Null /\ s.heap[s.canvas] = f
LoadModel(s, f) ==
    IF f = Missing \/ Shows(s, f) THEN s
    ELSE LET t == modelFlags(canvasLoadModel(FollowIfSet(s, s.canvas), f), f)
         IN  IF f \in BrokenFiles THEN t ELSE updatePanels(t)

\* LoadNPC and LoadItem; f is what the database row of the entry leads to.
LoadEntry(s, f) ==
    LoadModel([deleteCanvas(clearAttachments(s)) EXCEPT
                  !.isModel = TRUE, !.isChar = FALSE, !.isWMO = FALSE], f)

\* OnToggleCommand(ID_LOAD_CHAR) and LoadChar.
LoadChar(s, f) ==
    LET t == FollowIfSet(s, s.charModel)
        u == LoadModel(IF s.isWMO THEN deleteWMO(t) ELSE t, f)
    IN  RefreshList(Follow(u, u.canvas))

ImportArmoury(s, f) ==
    LET t == LoadModel(s, f)
    IN  IF t.canvas = Null THEN t ELSE RefreshList(Follow(t, t.charModel))

(***************************************************************************)
(* FileControl and CharControl.                                            *)
(***************************************************************************)
ClearCanvas(s) ==
    IF ~s.isModel /\ ~s.isWMO THEN s
    ELSE LET t == IF s.isWMO THEN deleteWMO(s)
                  ELSE [deleteCanvas(clearAttachments(s)) EXCEPT
                           !.charAtt = IF s.isChar THEN "null" ELSE @]
         IN  [t EXCEPT !.isModel = FALSE, !.isChar = FALSE, !.isWMO = FALSE]

SelectModel(s, f) ==
    IF Shows(s, f) THEN s ELSE LoadModel([ClearCanvas(s) EXCEPT !.isModel = TRUE], f)

LoadWMO(s) ==
    LET new == CHOOSE o \in Unused(s) : TRUE
    IN  IF s.wmo # Null THEN s
        ELSE [SetRoot(s, new) EXCEPT !.heap[new] = Wmo, !.wmo = new]
SelectWMO(s) == LoadWMO([ClearCanvas(s) EXCEPT !.isWMO = TRUE])

\* CharControl::OnUpdateItem(UPDATE_MOUNT): what is below root first goes.
leaveMount(s) == IF s.root = Null THEN s ELSE deleteCanvas(SetRoot(s, Null))

\* A mount that loads; the canvas keeps the rider, which stays root's child.
\* A mutation: setModel without its second argument deletes it.
mountAndDelete(s, new) == [Delete(s, s.canvas) EXCEPT !.canvas = new]
mountAndKeep(s, new) == [s EXCEPT !.canvas = new]
MountOn(s, f) ==
    LET t == Follow(leaveMount(s), s.charModel)
        new == CHOOSE o \in Unused(t) : TRUE
        u == mountAndKeep([t EXCEPT !.heap[new] = f, !.root = new, !.selModel = new], new)
        v == IF u.charAtt = "gone" THEN [u EXCEPT !.fault = "freed"]
             ELSE IF u.charAtt = "child" THEN Follow(u, u.child) ELSE u
    IN  RefreshList(v)

\* "None": the canvas shows the rider again, whose scale is read from root.
Dismount(s) ==
    LET t == leaveMount(s)
        u == [Delete(t, t.canvas) EXCEPT !.canvas = s.charModel]
        v == IF u.charAtt = "null" THEN u ELSE Follow(u, u.root)
    IN  [Follow(v, s.charModel) EXCEPT !.selModel = s.charModel]

(***************************************************************************)
(* The state machine.                                                      *)
(***************************************************************************)
Become(after) ==
    \E s \in {after} :
      /\ heap' = s.heap /\ canvas' = s.canvas /\ wmo' = s.wmo /\ root' = s.root
      /\ child' = s.child /\ charModel' = s.charModel /\ charAtt' = s.charAtt
      /\ cdModel' = s.cdModel /\ selModel' = s.selModel /\ mcModel' = s.mcModel
      /\ list' = s.list /\ isModel' = s.isModel /\ isChar' = s.isChar
      /\ isWMO' = s.isWMO /\ cdOn' = s.cdOn /\ fault' = s.fault
      /\ UNCHANGED scene

Init == /\ heap = [o \in Objects |-> Free]
        /\ canvas = Null /\ wmo = Null /\ root = Null /\ child = NoChild
        /\ charModel = Null /\ charAtt = "null" /\ cdModel = Null
        /\ selModel = Null /\ mcModel = Null /\ list = {}
        /\ isModel = FALSE /\ isChar = FALSE /\ isWMO = FALSE /\ cdOn = FALSE
        /\ fault = "none" /\ scene \in Scenes

\* The program runs and has room for one more object.
Ready == fault = "none" /\ Unused(Now) # {}

PickModel(f) == Ready /\ Become(SelectModel(Now, f))
PickEntry(f) == Ready /\ Become(LoadEntry(Now, f))
PickChar(f) == Ready /\ "import" \in Uses /\ Become(LoadChar(Now, f))
Import(f) == Ready /\ "import" \in Uses /\ Become(ImportArmoury(Now, f))
PickImage == Ready /\ "image" \in Uses /\ Become(ClearCanvas(Now))
PickWMO == Ready /\ "wmo" \in Uses /\ Become(SelectWMO(Now))
PickMount(f) == Ready /\ "mount" \in Uses /\ charModel # Null /\ Become(MountOn(Now, f))
PickNone == Ready /\ "dismount" \in Uses /\ charModel # Null /\ Become(Dismount(Now))

\* What a database entry may lead to besides files that exist.
Known == IF "missing" \in Uses THEN {Missing} ELSE {}

Next == \/ \E f \in Files : PickModel(f) \/ PickChar(f)
        \/ \E f \in Files \cup Known : PickEntry(f) \/ Import(f)
        \/ \E f \in Files \ BrokenFiles : PickMount(f)
        \/ PickImage \/ PickWMO \/ PickNone

Spec == Init /\ [][Next]_pvars

(***************************************************************************)
(* Properties.                                                             *)
(***************************************************************************)
Objs == Live(Now) \cup {Null}

TypeOK == /\ heap \in [Objects -> Files \cup {Free, Wmo}]
          /\ {canvas, wmo, root, charModel, cdModel, selModel, mcModel} \subseteq Objects \cup {Null}
          /\ child \in Objects \cup {Null, NoChild} /\ charAtt \in {"null", "child", "gone"}
          /\ list \subseteq {"root", "child", "gone"} /\ fault \in {"none", "null", "freed"}
          /\ fault = "none" => /\ canvas # Null => heap[canvas] \in Files
                               /\ wmo # Null => heap[wmo] = Wmo

\* A model that is imported or mounted over a world map object stays displayed
\* when that one is picked again and an image picked after it, and root keeps it.
Mixed == {"image", "wmo"} \subseteq Uses /\ Uses \cap {"import", "mount"} # {}

\* While there is something to draw, the timer and the paint handler, which
\* walk the attachment tree, meet no deleted object.
RenderSafe == ~Mixed /\ fault = "none" /\ (canvas # Null \/ wmo # Null) =>
                 {canvas, wmo, root} \cup ({child} \ {NoChild}) \subseteq Objs

\* Every file loads, and the user only picks, imports and mounts models.
Tame == BrokenFiles = {} /\ Uses \subseteq {"import", "mount"}

\* While a character is displayed in a tame scene, the character panel edits it:
\* the model on the canvas or, mounted, the rider below it.
EditsShown == Tame /\ fault = "none" /\ isChar /\ canvas # Null => charModel \in {canvas, child}

\* No handler of a tame scene follows a null or a deleted pointer.
NoFault == Tame => fault = "none"

\* In a tame scene no panel keeps a deleted model that its controls or the menus,
\* which stay enabled, would follow.
PanelsAlive == Tame /\ fault = "none" =>
    /\ {charModel, selModel, mcModel} \subseteq Objs
    /\ (cdOn => cdModel \in Objs) /\ "gone" \notin list
=============================================================================
