--------------------------- MODULE ModelPanelProofs ---------------------------
(***************************************************************************)
(* Theorems about ModelPanel, for any number of objects and files and any  *)
(* scenes.                                                                 *)
(***************************************************************************)
EXTENDS ModelPanel, TLAPS

Ptr == Objects \cup {Null}
States == [heap : [Objects -> Files \cup {Free, Wmo}], canvas : Ptr, wmo : Ptr, root : Ptr,
           child : Ptr \cup {NoChild}, charModel : Ptr, charAtt : {"null", "child", "gone"},
           cdModel : Ptr, selModel : Ptr, mcModel : Ptr,
           list : SUBSET {"root", "child", "gone"},
           isModel : BOOLEAN, isChar : BOOLEAN, isWMO : BOOLEAN, cdOn : BOOLEAN,
           fault : {"none", "null", "freed"}]

(* From s to t no fault is forgotten and no address comes into use. *)
Shrinks(s, t) == /\ t \in States
                 /\ t.fault = "none" => s.fault = "none"
                 /\ Unused(s) \subseteq Unused(t)

(* What a step changes of what the theorems are about. *)
Tree(s)  == <<s.heap, s.canvas, s.wmo, s.root, s.child>>
Other(s) == <<s.charModel, s.isModel, s.isWMO>>

LEMMA ShrinksTwice ==
  ASSUME NEW s, NEW t, NEW u, Shrinks(s, t), Shrinks(t, u) PROVE Shrinks(s, u)
  BY DEF Shrinks

(* What is freed or forgotten can only make room. *)
LEMMA Room ==
  ASSUME NEW s \in States, NEW t \in States,
         t.fault = "none" => s.fault = "none",
         \A o \in Objects : t.heap[o] \in {s.heap[o], Free},
         Pointers(t) \subseteq Pointers(s) \cup {Null, NoChild}
  PROVE  Shrinks(s, t)
  BY NullAssumption DEF Shrinks, Unused

(* A pointer that is followed without a fault is live. *)
LEMMA Followed ==
  ASSUME NEW s \in States, NEW p
  PROVE  /\ Shrinks(s, Follow(s, p))
         /\ Tree(Follow(s, p)) = Tree(s) /\ Other(Follow(s, p)) = Other(s)
         /\ Follow(s, p).fault = "none" => p \in Live(s)
<1> DEFINE t == Follow(s, p)
<1>1. \/ t = s /\ (s.fault # "none" \/ p \in Live(s))
      \/ \E x \in {"null", "freed"} : t = [s EXCEPT !.fault = x] /\ s.fault = "none"
  BY DEF Follow
<1>2. CASE t = s /\ (s.fault # "none" \/ p \in Live(s))
  BY <1>2 DEF Shrinks
<1>3. ASSUME NEW x \in {"null", "freed"}, t = [s EXCEPT !.fault = x], s.fault = "none"
      PROVE  /\ Shrinks(s, t) /\ Tree(t) = Tree(s) /\ Other(t) = Other(s) /\ t.fault # "none"
  <2> HIDE DEF t
  <2>1. t \in States /\ t.fault = x
    BY <1>3 DEF States
  <2>2. /\ t.heap = s.heap /\ t.canvas = s.canvas /\ t.wmo = s.wmo /\ t.root = s.root
        /\ t.child = s.child /\ t.charModel = s.charModel /\ t.cdModel = s.cdModel
        /\ t.selModel = s.selModel /\ t.mcModel = s.mcModel
        /\ t.isModel = s.isModel /\ t.isWMO = s.isWMO
    BY <1>3 DEF States
  <2> QED
    BY <2>1, <2>2 DEF Shrinks, Unused, Pointers, Tree, Other
<1> QED
  BY <1>1, <1>2, <1>3

LEMMA FollowedIfSet ==
  ASSUME NEW s \in States, NEW p
  PROVE  /\ Shrinks(s, FollowIfSet(s, p))
         /\ Tree(FollowIfSet(s, p)) = Tree(s) /\ Other(FollowIfSet(s, p)) = Other(s)
         /\ FollowIfSet(s, p).fault = "none" => p \in Live(s) \cup {Null, NoChild}
  BY Followed DEF FollowIfSet, Shrinks
(* ~WoWModel leaves its attachment. *)
LEMMA Deleted ==
  ASSUME NEW s \in States, NEW p \in Ptr,
         NEW t, t = Delete(s, p)
  PROVE  /\ Shrinks(s, t)
         /\ t.fault = "none" => p \in Live(s) \cup {Null}
         /\ \A o \in Objects : t.heap[o] = IF o = p THEN Free ELSE s.heap[o]
         /\ t.canvas = s.canvas /\ t.wmo = s.wmo /\ Other(t) = Other(s)
         /\ t.root \in {s.root, Null} /\ (s.root # p => t.root = s.root)
         /\ t.child \in {s.child, Null} /\ (s.child # p => t.child = s.child)
         /\ p # Null /\ s.heap[p] # Wmo => t.root # p /\ t.child # p
<1> USE NullAssumption DEF Ptr
<1>1. CASE p = Null
  BY <1>1 DEF Delete, Shrinks, States
<1>2. CASE p # Null
  <2> DEFINE u == Follow(s, p)
             r == IF u.root = p /\ s.heap[p] # Wmo THEN Null ELSE u.root
             c == IF u.child = p /\ s.heap[p] # Wmo THEN Null ELSE u.child
  <2>1. t = [u EXCEPT !.heap[p] = Free, !.root = r, !.child = c]
    BY <1>2 DEF Delete
  <2>2. Shrinks(s, u) /\ Tree(u) = Tree(s) /\ Other(u) = Other(s) /\ (u.fault = "none" => p \in Live(s))
    BY Followed
  <2> HIDE DEF u
  <2>3. u \in States /\ r \in Ptr /\ c \in Ptr \cup {NoChild} /\ p \in Objects
    BY <1>2, <2>2 DEF Shrinks, States
  <2>4. /\ u.heap = s.heap /\ u.canvas = s.canvas /\ u.wmo = s.wmo /\ u.root = s.root /\ u.child = s.child
    BY <2>2 DEF Tree
  <2> HIDE DEF r, c
  <2>5. /\ t \in States
        /\ \A o \in Objects : t.heap[o] = IF o = p THEN Free ELSE u.heap[o]
        /\ t.root = r /\ t.child = c
    <3> DEFINE h == [u.heap EXCEPT ![p] = Free]
    <3>1. /\ h \in [Objects -> Files \cup {Free, Wmo}]
          /\ \A o \in Objects : h[o] = IF o = p THEN Free ELSE u.heap[o]
      BY <2>3 DEF States
    <3>2. t = [u EXCEPT !.heap = h, !.root = r, !.child = c]
      BY <2>1
    <3> HIDE DEF h
    <3>3. /\ t.heap = h /\ t.root = r /\ t.child = c
          /\ t = [heap |-> h, canvas |-> u.canvas, wmo |-> u.wmo, root |-> r, child |-> c,
                  charModel |-> u.charModel, charAtt |-> u.charAtt, cdModel |-> u.cdModel,
                  selModel |-> u.selModel, mcModel |-> u.mcModel, list |-> u.list,
                  isModel |-> u.isModel, isChar |-> u.isChar, isWMO |-> u.isWMO,
                  cdOn |-> u.cdOn, fault |-> u.fault]
      BY <2>3, <3>2 DEF States
    <3>4. t \in States
      BY <2>3, <3>1, <3>3 DEF States
    <3> QED
      BY <3>1, <3>3, <3>4
  <2>6. /\ t.canvas = u.canvas /\ t.wmo = u.wmo /\ t.charModel = u.charModel /\ t.cdModel = u.cdModel
        /\ t.selModel = u.selModel /\ t.mcModel = u.mcModel /\ t.fault = u.fault
        /\ t.isModel = u.isModel /\ t.isWMO = u.isWMO
    BY <2>1, <2>3 DEF States
  <2>7. r \in {u.root, Null} /\ c \in {u.child, Null}
    BY DEF r, c
  <2>8. Shrinks(u, t)
    <3>1. Pointers(t) \subseteq Pointers(u) \cup {Null, NoChild}
      BY <2>5, <2>6, <2>7 DEF Pointers
    <3> QED
      BY <2>3, <2>5, <2>6, <3>1, Room
  <2>9. Shrinks(s, t)
    BY <2>2, <2>8, ShrinksTwice
  <2>10. Other(t) = Other(s)
    BY <2>2, <2>6 DEF Other
  <2>11. t.fault = "none" => p \in Live(s)
    BY <2>2, <2>6
  <2>12. /\ t.root \in {s.root, Null} /\ (s.root # p => t.root = s.root)
         /\ t.child \in {s.child, Null} /\ (s.child # p => t.child = s.child)
         /\ s.heap[p] # Wmo => t.root # p /\ t.child # p
    BY <1>2, <2>4, <2>5 DEF r, c
  <2> QED
    BY <1>2, <2>4, <2>5, <2>6, <2>9, <2>10, <2>11, <2>12
<1> QED
  BY <1>1, <1>2

(* The handlers that only detach. *)
LEMMA RootSet ==
  ASSUME NEW s \in States, NEW p \in Ptr, NEW t, t = SetRoot(s, p)
  PROVE  /\ t \in States /\ (t.fault = "none" => s.fault = "none")
         /\ t.heap = s.heap /\ t.canvas = s.canvas /\ t.wmo = s.wmo /\ t.child = s.child
         /\ t.root = p /\ Other(t) = Other(s)
         /\ t.fault = "none" => s.root \in Live(s) \cup {Null}
         /\ p = Null => Shrinks(s, t)
<1> DEFINE u == FollowIfSet(s, s.root)
<1>1. t = [u EXCEPT !.root = p]
  BY DEF SetRoot
<1>2. /\ Shrinks(s, u) /\ Tree(u) = Tree(s) /\ Other(u) = Other(s)
      /\ u.fault = "none" => s.root \in Live(s) \cup {Null, NoChild}
  BY FollowedIfSet
<1>3. s.root # NoChild
  BY NullAssumption DEF States, Ptr
<1> HIDE DEF u
<1>4. u \in States
  BY <1>2 DEF Shrinks
<1>5. t \in States /\ t.root = p
  BY <1>1, <1>4 DEF States
<1>6. /\ t.heap = u.heap /\ t.canvas = u.canvas /\ t.wmo = u.wmo /\ t.child = u.child
      /\ t.charModel = u.charModel /\ t.cdModel = u.cdModel
      /\ t.selModel = u.selModel /\ t.mcModel = u.mcModel /\ t.fault = u.fault
      /\ t.isModel = u.isModel /\ t.isWMO = u.isWMO
  BY <1>1, <1>4 DEF States
<1>7. p = Null => Shrinks(s, t)
  <2> SUFFICES ASSUME p = Null PROVE Shrinks(u, t)
    BY <1>2, ShrinksTwice
  <2>1. Pointers(t) \subseteq Pointers(u) \cup {Null, NoChild}
    BY <1>5, <1>6 DEF Pointers
  <2> QED
    BY <1>4, <1>5, <1>6, <2>1, Room
<1> QED
  BY <1>2, <1>3, <1>5, <1>6, <1>7 DEF Tree, Other, Shrinks

LEMMA Cleared ==
  ASSUME NEW s \in States, NEW t, t = clearAttachments(s)
  PROVE  /\ Shrinks(s, t) /\ t.child = NoChild
         /\ t.heap = s.heap /\ t.canvas = s.canvas /\ t.wmo = s.wmo /\ t.root = s.root
         /\ Other(t) = Other(s)
<1> DEFINE u == FollowIfSet(s, s.child)
           l == Gone(u.list)
           a == IF u.charAtt = "child" /\ s.child # NoChild THEN "gone" ELSE u.charAtt
<1>1. t = [u EXCEPT !.child = NoChild, !.list = l, !.charAtt = a]
  BY DEF clearAttachments
<1>2. Shrinks(s, u) /\ Tree(u) = Tree(s) /\ Other(u) = Other(s)
  BY FollowedIfSet
<1> HIDE DEF u
<1>3. u \in States
  BY <1>2 DEF Shrinks
<1>4. l \in SUBSET {"root", "child", "gone"} /\ a \in {"null", "child", "gone"}
  BY <1>3 DEF Gone, States
<1> HIDE DEF l, a
<1>5. t \in States /\ t.child = NoChild
  BY <1>1, <1>3, <1>4 DEF States
<1>6. /\ t.heap = u.heap /\ t.canvas = u.canvas /\ t.wmo = u.wmo /\ t.root = u.root
      /\ t.charModel = u.charModel /\ t.cdModel = u.cdModel
      /\ t.selModel = u.selModel /\ t.mcModel = u.mcModel /\ t.fault = u.fault
      /\ t.isModel = u.isModel /\ t.isWMO = u.isWMO
  BY <1>1, <1>3 DEF States
<1>7. Shrinks(u, t)
  <2>1. Pointers(t) \subseteq Pointers(u) \cup {Null, NoChild}
    BY <1>5, <1>6 DEF Pointers
  <2> QED
    BY <1>3, <1>5, <1>6, <2>1, Room
<1> QED
  BY <1>2, <1>5, <1>6, <1>7, ShrinksTwice DEF Tree, Other

(* RefreshModel names root's model and the child's. *)
LEMMA Refreshed ==
  ASSUME NEW s \in States, NEW t, t = RefreshList(s)
  PROVE  /\ t \in States /\ (t.fault = "none" => s.fault = "none")
         /\ Tree(t) = Tree(s) /\ Other(t) = Other(s)
         /\ t.fault = "none" => s.root \in Live(s) \cup {Null}
<1> DEFINE u == FollowIfSet(s, s.root)
           v == FollowIfSet(u, s.child)
           l == (IF s.root = Null THEN {} ELSE {"root"}) \cup
                (IF s.child \in {Null, NoChild} THEN {} ELSE {"child"})
<1>1. t = [v EXCEPT !.list = l]
  BY DEF RefreshList
<1>2. /\ Shrinks(s, u) /\ Tree(u) = Tree(s) /\ Other(u) = Other(s)
      /\ u.fault = "none" => s.root \in Live(s) \cup {Null, NoChild}
  BY FollowedIfSet
<1>3. s.root # NoChild
  BY NullAssumption DEF States, Ptr
<1> HIDE DEF u
<1>4. Shrinks(u, v) /\ Tree(v) = Tree(u) /\ Other(v) = Other(u)
  BY <1>2, FollowedIfSet DEF Shrinks
<1> HIDE DEF v
<1>5. v \in States
  BY <1>4 DEF Shrinks
<1>6. l \in SUBSET {"root", "child", "gone"}
  OBVIOUS
<1> HIDE DEF l
<1>7. t \in States
  BY <1>1, <1>5, <1>6 DEF States
<1>8. Tree(t) = Tree(v) /\ Other(t) = Other(v) /\ t.fault = v.fault
  BY <1>1, <1>5 DEF States, Tree, Other
<1> QED
  BY <1>2, <1>3, <1>4, <1>7, <1>8 DEF Shrinks
-----------------------------------------------------------------------------
(* Owned objects *)

(* The canvas owns models and world map objects, the attachment below root
   never keeps a deleted model, as ~WoWModel leaves it, and neither it nor the
   character panel ever names a world map object, ... *)
Sound(s) == s.fault = "none" =>
    /\ s.canvas # Null => s.heap[s.canvas] \in Files
    /\ s.wmo # Null => s.heap[s.wmo] = Wmo
    /\ s.child \in Live(s) \cup {Null, NoChild}
    /\ s.child \in Objects => s.heap[s.child] # Wmo
    /\ s.charModel \in Objects => s.heap[s.charModel] # Wmo

(* ... but root may: ~WMO leaves no attachment, so root may keep one that is
   deleted, though, if the scene is not mixed, not while something is drawn. *)
Rooted(s) == s.fault = "none" /\ (s.canvas # Null \/ s.wmo # Null) => s.root \in Live(s) \cup {Null}

LEMMA WMOGone ==
  ASSUME NEW s \in States, Sound(s), NEW t, t = deleteWMO(s)
  PROVE  /\ Shrinks(s, t) /\ Sound(t) /\ t.wmo = Null
         /\ t.canvas = s.canvas /\ Other(t) = Other(s)
         /\ \A o \in Objects : t.heap[o] = IF o = s.wmo THEN Free ELSE s.heap[o]
<1> USE NullAssumption
<1> DEFINE u == Delete(s, s.wmo)
<1>1. t = [u EXCEPT !.wmo = Null]
  BY DEF deleteWMO
<1>2. s.wmo \in Ptr /\ s.canvas \in Ptr /\ s.child \in Ptr \cup {NoChild} /\ s.charModel \in Ptr
  BY DEF States
<1>3. /\ Shrinks(s, u)
      /\ u.fault = "none" => s.wmo \in Live(s) \cup {Null}
      /\ \A o \in Objects : u.heap[o] = IF o = s.wmo THEN Free ELSE s.heap[o]
      /\ u.canvas = s.canvas /\ Other(u) = Other(s)
      /\ s.child # s.wmo => u.child = s.child
      /\ u.child \in {s.child, Null}
  BY <1>2, Deleted
<1> HIDE DEF u
<1>4. u \in States
  BY <1>3 DEF Shrinks
<1>5. t \in States /\ t.wmo = Null
  BY <1>1, <1>4 DEF States, Ptr
<1>6. /\ t.heap = u.heap /\ t.canvas = u.canvas /\ t.root = u.root /\ t.child = u.child
      /\ t.charModel = u.charModel /\ t.cdModel = u.cdModel
      /\ t.selModel = u.selModel /\ t.mcModel = u.mcModel /\ t.fault = u.fault
      /\ t.isModel = u.isModel /\ t.isWMO = u.isWMO
  BY <1>1, <1>4 DEF States
<1>7. Shrinks(s, t)
  <2>1. Pointers(t) \subseteq Pointers(u) \cup {Null, NoChild}
    BY <1>5, <1>6 DEF Pointers
  <2>2. Shrinks(u, t)
    BY <1>4, <1>5, <1>6, <2>1, Room
  <2> QED
    BY <1>3, <2>2, ShrinksTwice
<1>8. Sound(t)
  <2> SUFFICES ASSUME t.fault = "none" PROVE Sound(t)
    BY DEF Sound
  <2>1. s.fault = "none"
    BY <1>7 DEF Shrinks
  <2>2. s.wmo \in Objects => s.heap[s.wmo] = Wmo
    BY <2>1 DEF Sound
  <2>3. s.canvas \in Objects => s.heap[s.canvas] \in Files /\ s.canvas # s.wmo
    BY <2>1, <2>2 DEF Sound
  <2>4. t.canvas # Null => t.heap[t.canvas] \in Files
    BY <1>2, <1>3, <1>6, <2>3 DEF Ptr
  <2>5. s.child \in Objects => s.child # s.wmo /\ s.heap[s.child] \notin {Wmo, Free}
    BY <2>1, <2>2 DEF Sound, Live
  <2>6. /\ t.child \in Live(t) \cup {Null, NoChild}
        /\ t.child \in Objects => t.heap[t.child] # Wmo
    BY <1>2, <1>3, <1>6, <2>5 DEF Ptr, Live
  <2>7. t.charModel \in Objects => t.heap[t.charModel] # Wmo
    BY <1>3, <1>6, <2>1 DEF Sound, Other
  <2> QED
    BY <1>5, <2>4, <2>6, <2>7 DEF Sound
<1> QED
  BY <1>3, <1>5, <1>6, <1>7, <1>8 DEF Other

LEMMA CanvasGone ==
  ASSUME NEW s \in States, Sound(s), NEW t, t = deleteCanvas(s)
  PROVE  /\ Shrinks(s, t) /\ Sound(t) /\ t.canvas = Null
         /\ t.wmo = s.wmo /\ Other(t) = Other(s)
         /\ t.fault = "none" => t.root = s.root \/ t.root = Null
         /\ Rooted(s) => Rooted(t)
         /\ \A o \in Objects : t.heap[o] = IF o = s.canvas THEN Free ELSE s.heap[o]
         /\ s.child = NoChild => t.child = NoChild
<1> USE NullAssumption
<1> DEFINE u == Delete(s, s.canvas)
<1>1. t = [u EXCEPT !.canvas = Null]
  BY DEF deleteCanvas
<1>2. /\ s.wmo \in Ptr /\ s.canvas \in Ptr /\ s.child \in Ptr \cup {NoChild} /\ s.charModel \in Ptr
      /\ s.root \in Ptr
  BY DEF States
<1>3. /\ Shrinks(s, u)
      /\ u.fault = "none" => s.canvas \in Live(s) \cup {Null}
      /\ \A o \in Objects : u.heap[o] = IF o = s.canvas THEN Free ELSE s.heap[o]
      /\ u.wmo = s.wmo /\ Other(u) = Other(s)
      /\ s.root # s.canvas => u.root = s.root
      /\ s.child # s.canvas => u.child = s.child
      /\ u.root \in {s.root, Null} /\ u.child \in {s.child, Null}
      /\ s.canvas # Null /\ s.heap[s.canvas] # Wmo => u.root # s.canvas /\ u.child # s.canvas
  BY <1>2, Deleted
<1> HIDE DEF u
<1>4. u \in States
  BY <1>3 DEF Shrinks
<1>5. t \in States /\ t.canvas = Null
  BY <1>1, <1>4 DEF States, Ptr
<1>6. /\ t.heap = u.heap /\ t.wmo = u.wmo /\ t.root = u.root /\ t.child = u.child
      /\ t.charModel = u.charModel /\ t.cdModel = u.cdModel
      /\ t.selModel = u.selModel /\ t.mcModel = u.mcModel /\ t.fault = u.fault
      /\ t.isModel = u.isModel /\ t.isWMO = u.isWMO
  BY <1>1, <1>4 DEF States
<1>7. Shrinks(s, t)
  <2>1. Pointers(t) \subseteq Pointers(u) \cup {Null, NoChild}
    BY <1>5, <1>6 DEF Pointers
  <2>2. Shrinks(u, t)
    BY <1>4, <1>5, <1>6, <2>1, Room
  <2> QED
    BY <1>3, <2>2, ShrinksTwice
<1>8. ASSUME t.fault = "none"
      PROVE  /\ s.fault = "none"
             /\ s.canvas # Null => s.canvas \in Objects /\ s.heap[s.canvas] \in Files /\ s.canvas # s.wmo
             /\ s.canvas # Null => t.root # s.canvas /\ t.child # s.canvas
  <2>1. s.fault = "none"
    BY <1>7, <1>8 DEF Shrinks
  <2>2. s.canvas # Null => s.canvas \in Objects /\ s.heap[s.canvas] \in Files /\ s.heap[s.canvas] # Wmo
    BY <1>2, <2>1 DEF Sound, Ptr
  <2>3. s.canvas # Null => s.canvas # s.wmo
    BY <2>1, <2>2 DEF Sound
  <2> QED
    BY <1>3, <1>6, <2>1, <2>2, <2>3
<1>9. Sound(t)
  <2> SUFFICES ASSUME t.fault = "none" PROVE Sound(t)
    BY DEF Sound
  <2>1. t.wmo # Null => t.heap[t.wmo] = Wmo
    BY <1>2, <1>3, <1>6, <1>8 DEF Sound, Ptr
  <2>2. /\ t.child \in Live(t) \cup {Null, NoChild}
        /\ t.child \in Objects => t.heap[t.child] # Wmo
    BY <1>2, <1>3, <1>6, <1>8 DEF Sound, Ptr, Live
  <2>3. t.charModel \in Objects => t.heap[t.charModel] # Wmo
    BY <1>3, <1>6, <1>8 DEF Sound, Other
  <2> QED
    BY <1>5, <2>1, <2>2, <2>3 DEF Sound
<1>10. Rooted(s) => Rooted(t)
  <2> SUFFICES ASSUME Rooted(s), t.fault = "none", t.wmo # Null
               PROVE  t.root \in Live(t) \cup {Null}
    BY <1>5 DEF Rooted
  <2>1. s.root \in Live(s) \cup {Null}
    BY <1>3, <1>6, <1>8 DEF Rooted
  <2> QED
    BY <1>2, <1>3, <1>6, <1>8, <2>1 DEF Live, Ptr
<1>11. s.child = NoChild => t.child = NoChild
  BY <1>2, <1>3, <1>6 DEF Ptr
<1> QED
  BY <1>3, <1>5, <1>6, <1>7, <1>9, <1>10, <1>11 DEF Other
(* A free address stays one while a handler frees and forgets. *)
LEMMA Chosen == ASSUME NEW s, Unused(s) # {} PROVE (CHOOSE o \in Unused(s) : TRUE) \in Unused(s)
  OBVIOUS

LEMMA Detached ==
  ASSUME NEW s \in States, Sound(s), NEW t, t = canvasDetaches(s)
  PROVE  /\ Shrinks(s, t) /\ Sound(t) /\ t.root = Null /\ t.child = NoChild
         /\ t.heap = s.heap /\ t.canvas = s.canvas /\ t.wmo = s.wmo /\ Other(t) = Other(s)
         /\ t.fault = "none" => s.root \in Live(s) \cup {Null}
<1> DEFINE u == clearAttachments(s)
<1>1. /\ Shrinks(s, u) /\ u.child = NoChild
      /\ u.heap = s.heap /\ u.canvas = s.canvas /\ u.wmo = s.wmo /\ u.root = s.root
      /\ Other(u) = Other(s)
  BY Cleared
<1>2. u \in States /\ Null \in Ptr
  BY <1>1 DEF Shrinks, Ptr
<1>3. t = SetRoot(u, Null)
  BY DEF canvasDetaches
<1> HIDE DEF u
<1>4. /\ t.heap = u.heap /\ t.canvas = u.canvas /\ t.wmo = u.wmo /\ t.child = u.child
      /\ t.root = Null /\ Other(t) = Other(u)
      /\ t.fault = "none" => u.root \in Live(u) \cup {Null}
      /\ Shrinks(u, t)
  BY <1>2, <1>3, RootSet
<1>5. Shrinks(s, t)
  BY <1>1, <1>4, ShrinksTwice
<1>6. Sound(t)
  BY <1>1, <1>4, <1>5, NullAssumption DEF Sound, Shrinks, Other
<1> QED
  BY <1>1, <1>4, <1>5, <1>6 DEF Live

(* ModelCanvas::LoadModel: what root kept does not matter to it. *)
LEMMA CanvasLoads ==
  ASSUME NEW s \in States, Sound(s), NEW f \in Files, Unused(s) # {},
         NEW t, t = canvasLoadModel(s, f)
  PROVE  /\ t \in States /\ (t.fault = "none" => s.fault = "none")
         /\ Sound(t) /\ Rooted(t) /\ t.wmo = Null /\ Other(t) = Other(s)
         /\ f \notin BrokenFiles => t.canvas # Null
         /\ s.charModel \in Objects =>
               t.heap[s.charModel] = IF s.charModel \in {s.canvas, s.wmo} THEN Free ELSE s.heap[s.charModel]
<1> USE NullAssumption
<1> DEFINE u == canvasDetaches(s)
           v == deleteWMO(u)
           w == deleteCanvas(v)
           new == CHOOSE o \in Unused(w) : TRUE
           x == [w EXCEPT !.heap[new] = f]
<1>1. t = IF f \in BrokenFiles THEN x ELSE [x EXCEPT !.canvas = new, !.child = new]
  BY DEF canvasLoadModel
<1>2. /\ Shrinks(s, u) /\ Sound(u) /\ u.root = Null /\ u.child = NoChild
      /\ u.heap = s.heap /\ u.canvas = s.canvas /\ u.wmo = s.wmo /\ Other(u) = Other(s)
  BY Detached
<1> HIDE DEF u
<1>3. u \in States
  BY <1>2 DEF Shrinks
<1>4. /\ Shrinks(u, v) /\ Sound(v) /\ v.wmo = Null
      /\ v.canvas = u.canvas /\ Other(v) = Other(u)
      /\ \A o \in Objects : v.heap[o] = IF o = u.wmo THEN Free ELSE u.heap[o]
  BY <1>2, <1>3, WMOGone
<1>5. v.fault = "none" => v.root = Null
  <2>1. u.wmo \in Ptr
    BY <1>3 DEF States
  <2>2. Delete(u, u.wmo).root \in {u.root, Null}
    BY <1>3, <2>1, Deleted
  <2>3. v = [Delete(u, u.wmo) EXCEPT !.wmo = Null]
    BY DEF deleteWMO
  <2>4. Delete(u, u.wmo) \in States
    BY <1>3, <2>1, Deleted DEF Shrinks
  <2>5. v.root = Delete(u, u.wmo).root
    BY <2>3, <2>4 DEF States
  <2> QED
    BY <1>2, <2>2, <2>5
<1> HIDE DEF v
<1>6. v \in States
  BY <1>4 DEF Shrinks
<1>7. /\ Shrinks(v, w) /\ Sound(w) /\ w.canvas = Null
      /\ w.wmo = v.wmo /\ Other(w) = Other(v)
      /\ w.fault = "none" => w.root = v.root \/ w.root = Null
      /\ \A o \in Objects : w.heap[o] = IF o = v.canvas THEN Free ELSE v.heap[o]
  BY <1>4, <1>6, CanvasGone
<1> HIDE DEF w
<1>8. Shrinks(s, w) /\ w \in States
  BY <1>2, <1>4, <1>7, ShrinksTwice DEF Shrinks
<1>9. new \in Unused(w)
  BY <1>8, Chosen DEF Shrinks
<1>10. new \in Objects /\ w.heap[new] = Free /\ new \notin Pointers(w)
  BY <1>9 DEF Unused
<1> HIDE DEF new
<1>11. /\ x \in States
       /\ \A o \in Objects : x.heap[o] = IF o = new THEN f ELSE w.heap[o]
       /\ x.canvas = w.canvas /\ x.wmo = w.wmo /\ x.root = w.root /\ x.child = w.child
       /\ Other(x) = Other(w) /\ x.fault = w.fault
  <2> DEFINE h == [w.heap EXCEPT ![new] = f]
  <2>1. /\ h \in [Objects -> Files \cup {Free, Wmo}]
        /\ \A o \in Objects : h[o] = IF o = new THEN f ELSE w.heap[o]
    BY <1>8, <1>10 DEF States
  <2>2. x = [w EXCEPT !.heap = h]
    OBVIOUS
  <2> HIDE DEF h, x
  <2>3. x \in States /\ x.heap = h
    BY <1>8, <2>1, <2>2 DEF States
  <2>4. /\ x.canvas = w.canvas /\ x.wmo = w.wmo /\ x.root = w.root /\ x.child = w.child
        /\ Other(x) = Other(w) /\ x.fault = w.fault
    BY <1>8, <2>2 DEF States, Other
  <2> QED
    BY <2>1, <2>3, <2>4
<1> HIDE DEF x
<1>12. /\ t \in States /\ t.heap = x.heap /\ t.wmo = Null /\ t.root = w.root /\ t.fault = w.fault
       /\ Other(t) = Other(s)
       /\ IF f \in BrokenFiles THEN t.canvas = Null /\ t.child = w.child
                               ELSE t.canvas = new /\ t.child = new
  <2>1. CASE f \in BrokenFiles
    BY <1>1, <1>2, <1>4, <1>7, <1>11, <2>1
  <2>2. CASE f \notin BrokenFiles
    <3>1. t = [x EXCEPT !.canvas = new, !.child = new]
      BY <1>1, <2>2
    <3>2. new \in Ptr /\ x \in States
      BY <1>10, <1>11 DEF Ptr
    <3>4. t \in States /\ t.canvas = new /\ t.child = new
      BY <3>1, <3>2 DEF States
    <3>3. t.heap = x.heap /\ t.wmo = x.wmo /\ t.root = x.root /\ Other(t) = Other(x) /\ t.fault = x.fault
      BY <1>11, <3>1 DEF States, Other
    <3> QED
      BY <1>2, <1>4, <1>7, <1>11, <2>2, <3>3, <3>4
  <2> QED
    BY <2>1, <2>2
<1>13. t.fault = "none" => s.fault = "none" /\ t.root = Null
  BY <1>5, <1>7, <1>8, <1>12 DEF Shrinks
<1>14. Sound(t)
  <2> SUFFICES ASSUME t.fault = "none" PROVE Sound(t)
    BY DEF Sound
  <2>1. t.canvas # Null => t.heap[t.canvas] \in Files
    BY <1>10, <1>11, <1>12
  <2>2. w.charModel = s.charModel /\ t.charModel = s.charModel
    BY <1>2, <1>4, <1>7, <1>12 DEF Other
  <2>3. t.charModel \in Objects => t.heap[t.charModel] # Wmo
    BY <1>7, <1>11, <1>12, <2>2 DEF Sound
  <2>4. /\ t.child \in Live(t) \cup {Null, NoChild}
        /\ t.child \in Objects => t.heap[t.child] # Wmo
    BY <1>7, <1>10, <1>11, <1>12 DEF Sound, Live
  <2> QED
    BY <1>12, <2>1, <2>3, <2>4 DEF Sound
<1>15. Rooted(t)
  BY <1>13 DEF Rooted
<1>16. f \notin BrokenFiles => t.canvas # Null
  BY <1>10, <1>12
<1>17. s.charModel \in Objects =>
         t.heap[s.charModel] = IF s.charModel \in {s.canvas, s.wmo} THEN Free ELSE s.heap[s.charModel]
  <2>1. w.charModel = s.charModel
    BY <1>2, <1>4, <1>7 DEF Other
  <2>2. s.charModel # new
    BY <1>10, <2>1 DEF Pointers
  <2> QED
    BY <1>2, <1>4, <1>7, <1>11, <1>12, <2>2
<1> QED
  BY <1>12, <1>13, <1>14, <1>15, <1>16, <1>17

LEMMA Updated ==
  ASSUME NEW s \in States, Sound(s), Rooted(s), NEW t, t = updatePanels(s)
  PROVE  /\ t \in States /\ (t.fault = "none" => s.fault = "none")
         /\ Tree(t) = Tree(s) /\ t.charModel = s.canvas /\ t.isModel = s.isModel /\ t.isWMO = s.isWMO
         /\ Sound(t) /\ Rooted(t)
<1> USE NullAssumption
<1> DEFINE c == IF s.isChar THEN s.canvas ELSE s.cdModel
           u == [s EXCEPT !.charModel = s.canvas, !.charAtt = "child", !.cdOn = s.isChar,
                          !.cdModel = c, !.mcModel = s.canvas, !.selModel = s.canvas]
<1>1. s.canvas \in Ptr /\ c \in Ptr /\ s.isChar \in BOOLEAN
  BY DEF States
<1>2. u = [s EXCEPT !.charModel = s.canvas, !.charAtt = "child", !.cdOn = s.isChar,
                          !.cdModel = IF s.isChar THEN s.canvas ELSE @, !.mcModel = s.canvas, !.selModel = s.canvas]
  BY DEF States
<1>3. t = RefreshList(u)
  BY <1>2 DEF updatePanels
<1> HIDE DEF c
<1>4. u \in States
  BY <1>1 DEF States
<1>5. /\ Tree(u) = Tree(s) /\ u.charModel = s.canvas /\ u.isModel = s.isModel /\ u.isWMO = s.isWMO
      /\ u.fault = s.fault
  BY DEF States, Tree
<1> HIDE DEF u
<1>6. /\ t \in States /\ (t.fault = "none" => u.fault = "none")
      /\ Tree(t) = Tree(u) /\ Other(t) = Other(u)
  BY <1>3, <1>4, Refreshed
<1>7. /\ Tree(t) = Tree(s) /\ t.charModel = s.canvas /\ t.isModel = s.isModel /\ t.isWMO = s.isWMO
      /\ t.fault = "none" => s.fault = "none"
  BY <1>5, <1>6 DEF Other
<1>8. Sound(t) /\ Rooted(t)
  BY <1>1, <1>7 DEF Sound, Rooted, Tree, Live, Ptr
<1> QED
  BY <1>6, <1>7, <1>8

(* In a scene without imports and mounts the character panel names what is
   displayed or nothing that is left, ... *)
Solo(s) == s.fault = "none" /\ s.charModel \in Live(s) => s.charModel = s.canvas

LEMMA ModelLoads ==
  ASSUME NEW s \in States, Sound(s), NEW f \in Files \cup {Missing}, Unused(s) # {},
         NEW t, t = LoadModel(s, f)
  PROVE  /\ t \in States /\ (t.fault = "none" => s.fault = "none")
         /\ Sound(t) /\ (Solo(s) => Solo(t))
         /\ \/ t = s /\ (f = Missing \/ Shows(s, f))
            \/ Rooted(t) /\ t.isModel /\ t.isWMO = s.isWMO
<1> USE NullAssumption
<1>1. CASE f = Missing \/ Shows(s, f)
  BY <1>1 DEF LoadModel
<1>2. CASE f # Missing /\ ~Shows(s, f)
  <2> DEFINE u == FollowIfSet(s, s.canvas)
             v == canvasLoadModel(u, f)
             w == modelFlags(v, f)
  <2>1. t = IF f \in BrokenFiles THEN w ELSE updatePanels(w)
    BY <1>2 DEF LoadModel
  <2>2. Shrinks(s, u) /\ Tree(u) = Tree(s) /\ Other(u) = Other(s)
    BY FollowedIfSet
  <2> HIDE DEF u
  <2>3. u \in States /\ Sound(u) /\ Unused(u) # {} /\ (Solo(s) => Solo(u))
    BY <2>2 DEF Shrinks, Sound, Solo, Live, Tree, Other
  <2>4. /\ v \in States /\ (v.fault = "none" => u.fault = "none")
        /\ Sound(v) /\ Rooted(v) /\ Other(v) = Other(u)
        /\ u.charModel \in Objects =>
               v.heap[u.charModel] = IF u.charModel \in {u.canvas, u.wmo} THEN Free ELSE u.heap[u.charModel]
    BY <1>2, <2>3, CanvasLoads
  <2> HIDE DEF v
  <2>5. Solo(u) /\ v.fault = "none" => v.charModel \notin Live(v)
    <3> SUFFICES ASSUME Solo(u), v.fault = "none", v.charModel \in Live(v) PROVE FALSE
      OBVIOUS
    <3>1. v.charModel = u.charModel /\ u.fault = "none"
      BY <2>4 DEF Other
    <3>2. u.charModel \in Live(u) => u.charModel = u.canvas
      BY <3>1 DEF Solo
    <3> QED
      BY <2>4, <3>1, <3>2 DEF Live
  <2>6. /\ w \in States /\ w.fault = v.fault /\ Tree(w) = Tree(v) /\ w.charModel = v.charModel
        /\ w.isModel = TRUE /\ w.isWMO = v.isWMO
    <3>1. w = [v EXCEPT !.isModel = TRUE, !.isChar = (f \in CharFiles)]
      BY DEF modelFlags
    <3>2. (f \in CharFiles) \in BOOLEAN
      OBVIOUS
    <3> DEFINE b == (f \in CharFiles)
    <3> HIDE DEF b, w
    <3>3. w = [v EXCEPT !.isModel = TRUE, !.isChar = b] /\ b \in BOOLEAN
      BY <3>1, <3>2, Zenon DEF b
    <3> QED
      BY <2>4, <3>3 DEF States, Tree
  <2> HIDE DEF w
  <2>7. Sound(w) /\ Rooted(w)
    BY <2>4, <2>6 DEF Sound, Rooted, Tree, Live
  <2>8. w.isWMO = s.isWMO /\ (w.fault = "none" => s.fault = "none")
    BY <2>2, <2>4, <2>6 DEF Other, Shrinks
  <2>9. CASE f \in BrokenFiles
    <3>1. t = w
      BY <2>1, <2>9
    <3>2. Solo(s) => Solo(t)
      BY <2>3, <2>5, <2>6, <3>1 DEF Solo, Live, Tree
    <3> QED
      BY <2>6, <2>7, <2>8, <3>1, <3>2
  <2>10. CASE f \notin BrokenFiles
    <3>1. t = updatePanels(w)
      BY <2>1, <2>10
    <3>2. /\ t \in States /\ (t.fault = "none" => w.fault = "none")
          /\ Tree(t) = Tree(w) /\ t.charModel = w.canvas /\ t.isModel = w.isModel /\ t.isWMO = w.isWMO
          /\ Sound(t) /\ Rooted(t)
      BY <2>6, <2>7, <3>1, Updated
    <3>3. Solo(t)
      BY <3>2 DEF Solo, Tree
    <3> QED
      BY <2>6, <2>8, <3>2, <3>3
  <2> QED
    BY <2>9, <2>10
<1> QED
  BY <1>1, <1>2
-----------------------------------------------------------------------------
(* Handlers *)

(* ... and one thing at most is displayed, as the flags say. *)
Single(s) == s.fault = "none" => /\ s.isWMO => s.canvas = Null
                                 /\ s.canvas # Null => s.isModel

(* Only the deletion of a world map object may leave root a deleted object. *)
LEMMA CanvasCleared ==
  ASSUME NEW s \in States, Sound(s), NEW t, t = ClearCanvas(s)
  PROVE  /\ Shrinks(s, t) /\ Sound(t) /\ (Solo(s) => Solo(t))
         /\ t.isModel = FALSE /\ t.isWMO = FALSE
         /\ \A o \in Objects : t.heap[o] \in {s.heap[o], Free}
         /\ t.canvas \in {s.canvas, Null}
         /\ s.isWMO => t.wmo = Null /\ t.canvas = s.canvas
         /\ ~s.isWMO => (Rooted(s) => Rooted(t)) /\ (s.isModel => t.canvas = Null)
<1> USE NullAssumption
<1>1. CASE ~s.isModel /\ ~s.isWMO
  <2>1. t = s /\ s.isModel = FALSE /\ s.isWMO = FALSE
    BY <1>1 DEF ClearCanvas, States
  <2> QED
    BY <2>1 DEF Shrinks
<1>2. CASE s.isModel \/ s.isWMO
  <2> DEFINE u == deleteWMO(s)
             v == clearAttachments(s)
             w == deleteCanvas(v)
             a == IF s.isChar THEN "null" ELSE w.charAtt
             x == IF s.isWMO THEN u ELSE [w EXCEPT !.charAtt = a]
  <2>1. t = [x EXCEPT !.isModel = FALSE, !.isChar = FALSE, !.isWMO = FALSE]
    BY <1>2 DEF ClearCanvas
  <2>2. /\ x \in States /\ (x.fault = "none" => s.fault = "none") /\ Sound(x)
        /\ Unused(s) \subseteq Unused(x) /\ x.charModel = s.charModel
        /\ \A o \in Objects : x.heap[o] \in {s.heap[o], Free}
        /\ x.canvas \in {s.canvas, Null} /\ (Solo(s) => Solo(x))
        /\ s.isWMO => x.wmo = Null /\ x.canvas = s.canvas
        /\ ~s.isWMO => (Rooted(s) => Rooted(x)) /\ x.canvas = Null
    <3>1. CASE s.isWMO
      <4>1. x = u
        BY <3>1
      <4> HIDE DEF u
      <4>2. /\ Shrinks(s, u) /\ Sound(u) /\ u.wmo = Null /\ u.canvas = s.canvas /\ Other(u) = Other(s)
            /\ \A o \in Objects : u.heap[o] = IF o = s.wmo THEN Free ELSE s.heap[o]
        BY WMOGone DEF u
      <4>3. Solo(s) => Solo(u)
        BY <4>2 DEF Solo, Live, Other, Shrinks
      <4> QED
        BY <3>1, <4>1, <4>2, <4>3 DEF Shrinks, Other
    <3>2. CASE ~s.isWMO
      <4>1. /\ Shrinks(s, v) /\ v.child = NoChild
            /\ v.heap = s.heap /\ v.canvas = s.canvas /\ v.wmo = s.wmo /\ v.root = s.root
            /\ Other(v) = Other(s)
        BY Cleared
      <4> HIDE DEF v
      <4>2. v \in States /\ Sound(v) /\ (Rooted(s) => Rooted(v))
        BY <4>1 DEF Shrinks, Sound, Rooted, Live, Other
      <4>3. /\ Shrinks(v, w) /\ Sound(w) /\ w.canvas = Null /\ w.wmo = v.wmo /\ Other(w) = Other(v)
            /\ Rooted(v) => Rooted(w)
            /\ \A o \in Objects : w.heap[o] = IF o = v.canvas THEN Free ELSE v.heap[o]
        BY <4>2, CanvasGone
      <4> HIDE DEF w
      <4>4. x = [w EXCEPT !.charAtt = a] /\ w \in States /\ a \in {"null", "child", "gone"}
        BY <3>2, <4>3 DEF Shrinks, States
      <4> HIDE DEF x, a
      <4>5. /\ x \in States /\ Tree(x) = Tree(w) /\ Other(x) = Other(w) /\ x.fault = w.fault
            /\ Pointers(x) = Pointers(w)
        BY <4>4 DEF States, Tree, Other, Pointers
      <4>6. Unused(s) \subseteq Unused(x)
        BY <4>1, <4>3, <4>5 DEF Shrinks, Unused, Tree
      <4>7. Sound(x) /\ (Rooted(s) => Rooted(x))
        BY <4>2, <4>3, <4>5 DEF Sound, Rooted, Live, Tree, Other
      <4>8. x.fault = "none" => s.fault = "none"
        BY <4>1, <4>3, <4>5 DEF Shrinks
      <4>9. /\ \A o \in Objects : x.heap[o] = IF o = s.canvas THEN Free ELSE s.heap[o]
            /\ x.canvas = Null /\ x.charModel = s.charModel
        BY <4>1, <4>3, <4>5 DEF Tree, Other
      <4>10. Solo(s) => Solo(x)
        BY <4>8, <4>9 DEF Solo, Live
      <4> QED
        BY <3>2, <4>5, <4>6, <4>7, <4>8, <4>9, <4>10
    <3> QED
      BY <3>1, <3>2
  <2> HIDE DEF x
  <2>3. /\ t \in States /\ Tree(t) = Tree(x) /\ t.charModel = x.charModel /\ t.fault = x.fault
        /\ t.isModel = FALSE /\ t.isWMO = FALSE /\ Pointers(t) = Pointers(x)
    BY <2>1, <2>2 DEF States, Tree, Pointers
  <2>4. Shrinks(s, t)
    BY <2>2, <2>3 DEF Shrinks, Unused, Tree
  <2>5. Sound(t) /\ (Rooted(x) => Rooted(t)) /\ (Solo(x) => Solo(t))
    BY <2>2, <2>3 DEF Sound, Rooted, Solo, Live, Tree
  <2> QED
    BY <2>2, <2>3, <2>4, <2>5 DEF Tree
<1> QED
  BY <1>1, <1>2

LEMMA ModelSelected ==
  ASSUME NEW s \in States, Sound(s), NEW f \in Files, Unused(s) # {}, NEW t, t = SelectModel(s, f)
  PROVE  /\ t \in States /\ (t.fault = "none" => s.fault = "none") /\ Sound(t)
         /\ (Rooted(s) => Rooted(t)) /\ (Solo(s) => Solo(t))
         /\ t = s \/ (t.isModel /\ ~t.isWMO)
<1> USE NullAssumption
<1>1. CASE Shows(s, f)
  BY <1>1 DEF SelectModel
<1>2. CASE ~Shows(s, f)
  <2> DEFINE u == ClearCanvas(s)
             v == [u EXCEPT !.isModel = TRUE]
  <2>1. t = LoadModel(v, f)
    BY <1>2 DEF SelectModel
  <2>2. /\ Shrinks(s, u) /\ Sound(u) /\ (Solo(s) => Solo(u)) /\ u.isWMO = FALSE
        /\ \A o \in Objects : u.heap[o] \in {s.heap[o], Free}
        /\ u.canvas \in {s.canvas, Null}
    BY CanvasCleared
  <2> HIDE DEF u
  <2>3. u \in States
    BY <2>2 DEF Shrinks
  <2>4. /\ v \in States /\ Tree(v) = Tree(u) /\ v.charModel = u.charModel /\ v.fault = u.fault
        /\ v.isWMO = FALSE /\ Pointers(v) = Pointers(u)
    BY <2>2, <2>3 DEF States, Tree, Pointers
  <2> HIDE DEF v
  <2>5. /\ Sound(v) /\ (Solo(s) => Solo(v)) /\ Unused(v) # {} /\ (v.fault = "none" => s.fault = "none")
    BY <2>2, <2>4 DEF Sound, Solo, Live, Tree, Unused, Shrinks
  <2>6. ~Shows(v, f) /\ f # Missing
    BY <1>2, <2>2, <2>3, <2>4 DEF Shows, Tree, States, Ptr
  <2>7. /\ t \in States /\ (t.fault = "none" => v.fault = "none")
        /\ Sound(t) /\ (Solo(v) => Solo(t))
        /\ Rooted(t) /\ t.isModel /\ t.isWMO = v.isWMO
    BY <2>1, <2>4, <2>5, <2>6, ModelLoads
  <2> QED
    BY <2>4, <2>5, <2>7
<1> QED
  BY <1>1, <1>2

LEMMA EntryLoaded ==
  ASSUME NEW s \in States, Sound(s), NEW f \in Files \cup {Missing}, Unused(s) # {},
         NEW t, t = LoadEntry(s, f)
  PROVE  /\ t \in States /\ Sound(t)
         /\ (Rooted(s) => Rooted(t)) /\ (Solo(s) => Solo(t))
         /\ t.isModel /\ ~t.isWMO
<1> USE NullAssumption
<1> DEFINE v == clearAttachments(s)
           w == deleteCanvas(v)
           x == [w EXCEPT !.isModel = TRUE, !.isChar = FALSE, !.isWMO = FALSE]
<1>1. t = LoadModel(x, f)
  BY DEF LoadEntry
<1>2. /\ Shrinks(s, v) /\ v.child = NoChild
      /\ v.heap = s.heap /\ v.canvas = s.canvas /\ v.wmo = s.wmo /\ v.root = s.root
      /\ Other(v) = Other(s)
  BY Cleared
<1> HIDE DEF v
<1>3. v \in States /\ Sound(v) /\ (Rooted(s) => Rooted(v))
  BY <1>2 DEF Shrinks, Sound, Rooted, Live, Other
<1>4. /\ Shrinks(v, w) /\ Sound(w) /\ w.canvas = Null /\ Other(w) = Other(v)
      /\ Rooted(v) => Rooted(w)
      /\ \A o \in Objects : w.heap[o] = IF o = v.canvas THEN Free ELSE v.heap[o]
  BY <1>3, CanvasGone
<1> HIDE DEF w
<1>5. w \in States
  BY <1>4 DEF Shrinks
<1>6. /\ x \in States /\ Tree(x) = Tree(w) /\ x.charModel = w.charModel /\ x.fault = w.fault
      /\ x.isModel = TRUE /\ x.isWMO = FALSE /\ Pointers(x) = Pointers(w)
  BY <1>5 DEF States, Tree, Pointers
<1> HIDE DEF x
<1>7. Sound(x) /\ (Rooted(s) => Rooted(x)) /\ Unused(x) # {}
  BY <1>2, <1>3, <1>4, <1>6 DEF Sound, Rooted, Live, Tree, Unused, Shrinks
<1>8. Solo(s) => Solo(x)
  <2>1. /\ \A o \in Objects : x.heap[o] = IF o = s.canvas THEN Free ELSE s.heap[o]
        /\ x.charModel = s.charModel /\ (x.fault = "none" => s.fault = "none")
    BY <1>2, <1>4, <1>6 DEF Tree, Other, Shrinks
  <2> QED
    BY <2>1 DEF Solo, Live
<1>9. /\ t \in States /\ Sound(t) /\ (Solo(x) => Solo(t))
      /\ t = x \/ (Rooted(t) /\ t.isModel /\ t.isWMO = x.isWMO)
  BY <1>1, <1>6, <1>7, ModelLoads
<1> QED
  BY <1>6, <1>7, <1>8, <1>9

(* FileControl::OnTreeSelect for a world map object. *)
LEMMA WMOSelected ==
  ASSUME NEW s \in States, Sound(s), Unused(s) # {}, NEW t, t = SelectWMO(s)
  PROVE  /\ t \in States /\ Sound(t)
         /\ (Rooted(s) => Rooted(t)) /\ (Solo(s) => Solo(t)) /\ (Single(s) => Single(t))
<1> USE NullAssumption
<1> DEFINE u == ClearCanvas(s)
           v == [u EXCEPT !.isWMO = TRUE]
           new == CHOOSE o \in Unused(v) : TRUE
           w == SetRoot(v, new)
<1>1. t = IF v.wmo # Null THEN v ELSE [w EXCEPT !.heap[new] = Wmo, !.wmo = new]
  BY DEF SelectWMO, LoadWMO
<1>2. /\ Shrinks(s, u) /\ Sound(u) /\ (Solo(s) => Solo(u))
      /\ u.isModel = FALSE /\ u.isWMO = FALSE
      /\ u.canvas \in {s.canvas, Null}
      /\ s.isWMO => u.wmo = Null /\ u.canvas = s.canvas
      /\ ~s.isWMO => (Rooted(s) => Rooted(u)) /\ (s.isModel => u.canvas = Null)
  BY CanvasCleared
<1> HIDE DEF u
<1>3. u \in States
  BY <1>2 DEF Shrinks
<1>4. /\ v \in States /\ Tree(v) = Tree(u) /\ v.charModel = u.charModel /\ v.fault = u.fault
      /\ v.isWMO = TRUE /\ v.isModel = FALSE /\ Pointers(v) = Pointers(u)
  BY <1>2, <1>3 DEF States, Tree, Pointers
<1> HIDE DEF v
<1>5. Sound(v) /\ (Solo(s) => Solo(v)) /\ Unused(v) # {} /\ (v.fault = "none" => s.fault = "none")
  BY <1>2, <1>4 DEF Sound, Solo, Live, Tree, Unused, Shrinks
<1>6. Single(s) /\ v.fault = "none" => v.canvas = Null
  BY <1>2, <1>4, <1>5 DEF Single, Tree
<1>7. CASE v.wmo # Null
  <2>1. t = v
    BY <1>1, <1>7
  <2>2. ~s.isWMO
    BY <1>2, <1>4, <1>7 DEF Tree
  <2>3. Rooted(s) => Rooted(v)
    BY <1>2, <1>4, <2>2 DEF Rooted, Live, Tree
  <2>4. Single(s) => Single(v)
    BY <1>6 DEF Single
  <2> QED
    BY <1>4, <1>5, <2>1, <2>3, <2>4
<1>8. CASE v.wmo = Null
  <2>1. new \in Unused(v)
    BY <1>5
  <2> HIDE DEF new
  <2>2. new \in Objects /\ new \in Ptr /\ new \notin Pointers(v)
    BY <2>1 DEF Unused, Ptr
  <2>3. /\ w \in States /\ (w.fault = "none" => v.fault = "none")
        /\ w.heap = v.heap /\ w.canvas = v.canvas /\ w.wmo = v.wmo /\ w.child = v.child
        /\ w.root = new /\ Other(w) = Other(v)
    BY <1>4, <2>2, RootSet
  <2> HIDE DEF w
  <2> DEFINE h == [w.heap EXCEPT ![new] = Wmo]
  <2>4. /\ h \in [Objects -> Files \cup {Free, Wmo}]
        /\ \A o \in Objects : h[o] = IF o = new THEN Wmo ELSE w.heap[o]
    BY <2>3 DEF States
  <2>5. t = [w EXCEPT !.heap = h, !.wmo = new]
    BY <1>1, <1>8
  <2> HIDE DEF h
  <2>6. t \in States /\ t.heap = h /\ t.wmo = new
    BY <2>2, <2>3, <2>4, <2>5 DEF States
  <2>7. /\ t.canvas = w.canvas /\ t.root = w.root /\ t.child = w.child
        /\ Other(t) = Other(w) /\ t.fault = w.fault
    BY <2>3, <2>5 DEF States, Other
  <2>8. /\ v.canvas # new /\ v.child # new /\ v.charModel # new
    BY <2>2 DEF Pointers
  <2>9. /\ v.canvas \in Ptr /\ v.child \in Ptr \cup {NoChild} /\ v.charModel \in Ptr
    BY <1>4 DEF States
  <2>10. \A o \in Objects : o # new => t.heap[o] = v.heap[o]
    BY <2>3, <2>4, <2>6
  <2>11. /\ t.canvas = v.canvas /\ t.child = v.child /\ t.charModel = v.charModel
         /\ t.fault = "none" => v.fault = "none"
    BY <2>3, <2>7 DEF Other
  <2>12. Sound(t)
    <3> SUFFICES ASSUME t.fault = "none" PROVE Sound(t)
      BY DEF Sound
    <3>1. t.canvas # Null => t.heap[t.canvas] \in Files
      BY <1>5, <2>8, <2>9, <2>10, <2>11 DEF Sound, Ptr
    <3>2. t.wmo # Null => t.heap[t.wmo] = Wmo
      BY <2>2, <2>4, <2>6
    <3>3. t.child \in Live(t) \cup {Null, NoChild} /\ (t.child \in Objects => t.heap[t.child] # Wmo)
      BY <1>5, <2>8, <2>9, <2>10, <2>11 DEF Sound, Ptr, Live
    <3>4. t.charModel \in Objects => t.heap[t.charModel] # Wmo
      BY <1>5, <2>8, <2>9, <2>10, <2>11 DEF Sound
    <3> QED
      BY <3>1, <3>2, <3>3, <3>4 DEF Sound
  <2>13. Rooted(t)
    BY <2>2, <2>3, <2>4, <2>6, <2>7 DEF Rooted, Live
  <2>14. Solo(s) => Solo(t)
    BY <1>5, <2>8, <2>10, <2>11 DEF Solo, Live
  <2>15. Single(s) => Single(t)
    BY <1>6, <2>11 DEF Single
  <2> QED
    BY <2>6, <2>12, <2>13, <2>14, <2>15
<1> QED
  BY <1>7, <1>8

(* CharControl::OnUpdateItem: what is below root first goes. *)
LEMMA MountLeft ==
  ASSUME NEW s \in States, Sound(s), NEW t, t = leaveMount(s)
  PROVE  /\ Shrinks(s, t) /\ Sound(t) /\ Other(t) = Other(s)
         /\ t.fault = "none" => t.root = Null
         /\ \/ t = s
            \/ t.canvas = Null /\ \A o \in Objects : t.heap[o] = IF o = s.canvas THEN Free ELSE s.heap[o]
<1> USE NullAssumption
<1>1. CASE s.root = Null
  BY <1>1 DEF leaveMount, Shrinks
<1>2. CASE s.root # Null
  <2> DEFINE u == SetRoot(s, Null)
  <2>1. t = deleteCanvas(u)
    BY <1>2 DEF leaveMount
  <2>2. /\ u.heap = s.heap /\ u.canvas = s.canvas /\ u.wmo = s.wmo /\ u.child = s.child
        /\ u.root = Null /\ Other(u) = Other(s) /\ Shrinks(s, u)
    BY RootSet DEF Ptr
  <2> HIDE DEF u
  <2>3. u \in States /\ Sound(u)
    BY <2>2 DEF Shrinks, Sound, Live, Other
  <2>4. /\ Shrinks(u, t) /\ Sound(t) /\ t.canvas = Null /\ Other(t) = Other(u)
        /\ t.fault = "none" => t.root = u.root \/ t.root = Null
        /\ \A o \in Objects : t.heap[o] = IF o = u.canvas THEN Free ELSE u.heap[o]
    BY <2>1, <2>3, CanvasGone
  <2> QED
    BY <2>2, <2>4, ShrinksTwice
<1> QED
  BY <1>1, <1>2

LEMMA Mounted ==
  ASSUME NEW s \in States, Sound(s), Unused(s) # {}, NEW f \in Files, NEW t, t = MountOn(s, f)
  PROVE  t \in States /\ Sound(t) /\ Rooted(t) /\ t.isWMO = s.isWMO
<1> USE NullAssumption
<1> DEFINE l == leaveMount(s)
           w == Follow(l, s.charModel)
           new == CHOOSE o \in Unused(w) : TRUE
           h == [w.heap EXCEPT ![new] = f]
           u == [w EXCEPT !.heap = h, !.root = new, !.selModel = new, !.canvas = new]
           v == IF u.charAtt = "gone" THEN [u EXCEPT !.fault = "freed"]
                ELSE IF u.charAtt = "child" THEN Follow(u, u.child) ELSE u
<1>1. t = RefreshList(v)
  BY DEF MountOn, mountAndKeep
<1>2. Shrinks(s, l) /\ Sound(l) /\ Other(l) = Other(s)
  BY MountLeft
<1> HIDE DEF l
<1>3. l \in States
  BY <1>2 DEF Shrinks
<1>4. /\ Shrinks(l, w) /\ Tree(w) = Tree(l) /\ Other(w) = Other(l)
  BY <1>3, Followed
<1> HIDE DEF w
<1>5. /\ w \in States /\ Sound(w) /\ Unused(w) # {} /\ w.isWMO = s.isWMO
  BY <1>2, <1>4 DEF Shrinks, Sound, Live, Tree, Other
<1>6. new \in Unused(w)
  BY <1>5
<1> HIDE DEF new
<1>7. new \in Objects /\ new \in Ptr /\ new \notin Pointers(w)
  BY <1>6 DEF Unused, Ptr
<1>8. /\ h \in [Objects -> Files \cup {Free, Wmo}]
      /\ \A o \in Objects : h[o] = IF o = new THEN f ELSE w.heap[o]
  BY <1>5 DEF States
<1> HIDE DEF h
<1>9. /\ u \in States /\ u.heap = h /\ u.root = new /\ u.canvas = new
  BY <1>5, <1>7, <1>8 DEF States
<1>10. /\ u.wmo = w.wmo /\ u.child = w.child /\ Other(u) = Other(w) /\ u.fault = w.fault
  BY <1>5 DEF States, Other
<1> HIDE DEF u
<1>11. /\ w.wmo # new /\ w.child # new /\ w.charModel # new
       /\ w.wmo \in Ptr /\ w.child \in Ptr \cup {NoChild}
  BY <1>5, <1>7 DEF Pointers, States
<1>12. Sound(u)
  <2> SUFFICES ASSUME u.fault = "none" PROVE Sound(u)
    BY DEF Sound
  <2>1. u.canvas # Null => u.heap[u.canvas] \in Files
    BY <1>7, <1>8, <1>9
  <2>2. u.wmo # Null => u.heap[u.wmo] = Wmo
    BY <1>5, <1>8, <1>9, <1>10, <1>11 DEF Sound, Ptr
  <2>3. u.child \in Live(u) \cup {Null, NoChild} /\ (u.child \in Objects => u.heap[u.child] # Wmo)
    BY <1>5, <1>8, <1>9, <1>10, <1>11 DEF Sound, Ptr, Live
  <2>4. u.charModel \in Objects => u.heap[u.charModel] # Wmo
    BY <1>5, <1>8, <1>9, <1>10, <1>11 DEF Sound, Other
  <2> QED
    BY <2>1, <2>2, <2>3, <2>4 DEF Sound
<1>13. Rooted(u)
  BY <1>7, <1>8, <1>9 DEF Rooted, Live
<1>14. v \in States /\ Tree(v) = Tree(u) /\ Other(v) = Other(u) /\ (v.fault = "none" => u.fault = "none")
  <2>1. CASE u.charAtt = "gone"
    <3>1. v = [u EXCEPT !.fault = "freed"]
      BY <2>1
    <3> HIDE DEF v
    <3> QED
      BY <1>9, <3>1 DEF States, Tree, Other
  <2>2. CASE u.charAtt = "child"
    <3>1. v = Follow(u, u.child)
      BY <2>2
    <3> HIDE DEF v
    <3> QED
      BY <1>9, <3>1, Followed DEF Shrinks
  <2>3. CASE u.charAtt \notin {"gone", "child"}
    BY <1>9, <2>3
  <2> QED
    BY <2>1, <2>2, <2>3
<1> HIDE DEF v
<1>15. /\ t \in States /\ (t.fault = "none" => v.fault = "none")
       /\ Tree(t) = Tree(v) /\ Other(t) = Other(v)
  BY <1>1, <1>14, Refreshed
<1>16. Sound(t) /\ Rooted(t)
  BY <1>12, <1>13, <1>14, <1>15 DEF Sound, Rooted, Live, Tree, Other
<1> QED
  BY <1>5, <1>10, <1>14, <1>15, <1>16 DEF Other

LEMMA Dismounted ==
  ASSUME NEW s \in States, Sound(s), s.charModel # Null, NEW t, t = Dismount(s)
  PROVE  /\ t \in States /\ Sound(t) /\ Rooted(t) /\ t.isWMO = s.isWMO
         /\ s.fault = "none" /\ Solo(s) => t.fault # "none"
<1> USE NullAssumption
<1> DEFINE l == leaveMount(s)
           d == Delete(l, l.canvas)
           u == [d EXCEPT !.canvas = s.charModel]
           v == IF u.charAtt = "null" THEN u ELSE Follow(u, u.root)
           w == Follow(v, s.charModel)
<1>1. t = [w EXCEPT !.selModel = s.charModel]
  BY DEF Dismount
<1>2. /\ Shrinks(s, l) /\ Sound(l) /\ Other(l) = Other(s)
      /\ l.fault = "none" => l.root = Null
      /\ \/ l = s
         \/ l.canvas = Null /\ \A o \in Objects : l.heap[o] = IF o = s.canvas THEN Free ELSE s.heap[o]
  BY MountLeft
<1> HIDE DEF l
<1>3. l \in States /\ l.canvas \in Ptr /\ s.charModel \in Objects
  BY <1>2 DEF Shrinks, States, Ptr
<1>4. /\ Shrinks(l, d) /\ Other(d) = Other(l)
      /\ \A o \in Objects : d.heap[o] = IF o = l.canvas THEN Free ELSE l.heap[o]
      /\ d.wmo = l.wmo /\ d.root \in {l.root, Null} /\ d.child \in {l.child, Null}
      /\ l.child # l.canvas => d.child = l.child
      /\ l.canvas # Null /\ l.heap[l.canvas] # Wmo => d.child # l.canvas
  BY <1>3, Deleted
<1> HIDE DEF d
<1>5. d \in States /\ (d.fault = "none" => l.fault = "none")
  BY <1>4 DEF Shrinks
<1>6. u \in States /\ u.canvas = s.charModel /\ s.charModel \in Ptr
  BY <1>3, <1>5 DEF States, Ptr
<1>7. /\ u.heap = d.heap /\ u.wmo = d.wmo /\ u.root = d.root /\ u.child = d.child
      /\ Other(u) = Other(d) /\ u.fault = d.fault
  BY <1>5 DEF States, Other
<1> HIDE DEF u
<1>8. v \in States /\ Tree(v) = Tree(u) /\ Other(v) = Other(u) /\ (v.fault = "none" => u.fault = "none")
  <2>1. CASE u.charAtt = "null"
    BY <1>6, <2>1
  <2>2. CASE u.charAtt # "null"
    <3>1. v = Follow(u, u.root)
      BY <2>2
    <3> HIDE DEF v
    <3> QED
      BY <1>6, <3>1, Followed DEF Shrinks
  <2> QED
    BY <2>1, <2>2
<1> HIDE DEF v
<1>9. /\ w \in States /\ Tree(w) = Tree(v) /\ Other(w) = Other(v)
      /\ w.fault = "none" => v.fault = "none" /\ s.charModel \in Live(v)
  BY <1>8, Followed DEF Shrinks
<1> HIDE DEF w
<1>10. t \in States /\ Tree(t) = Tree(w) /\ Other(t) = Other(w) /\ t.fault = w.fault
  BY <1>1, <1>6, <1>9 DEF States, Tree, Other
<1>11. /\ t.heap = d.heap /\ t.canvas = s.charModel /\ t.wmo = l.wmo /\ t.root = d.root
       /\ t.child = d.child /\ t.charModel = s.charModel /\ t.isWMO = s.isWMO
  BY <1>2, <1>4, <1>6, <1>7, <1>8, <1>9, <1>10 DEF Tree, Other
<1>12. ASSUME t.fault = "none"
       PROVE  /\ l.fault = "none" /\ s.fault = "none" /\ d.heap[s.charModel] # Free
  BY <1>2, <1>5, <1>7, <1>8, <1>9, <1>10, <1>12 DEF Tree, Live, Shrinks
<1>13. t.fault = "none" => t.root = Null
  BY <1>2, <1>4, <1>11, <1>12
<1>14. Sound(t)
  <2> SUFFICES ASSUME t.fault = "none" PROVE Sound(t)
    BY DEF Sound
  <2>1. /\ l.wmo \in Ptr /\ l.child \in Ptr \cup {NoChild} /\ l.canvas \in Ptr
        /\ l.charModel = s.charModel /\ l.heap[s.charModel] \in Files \cup {Free, Wmo}
    BY <1>2, <1>3 DEF States, Other
  <2>2. /\ l.canvas # Null => l.heap[l.canvas] \in Files
        /\ l.wmo # Null => l.heap[l.wmo] = Wmo
        /\ l.child \in Live(l) \cup {Null, NoChild}
        /\ l.child \in Objects => l.heap[l.child] # Wmo
        /\ l.heap[s.charModel] # Wmo
    BY <1>2, <1>3, <1>12, <2>1 DEF Sound
  <2>3. t.heap[s.charModel] \in Files
    BY <1>3, <1>4, <1>11, <1>12, <2>1, <2>2
  <2>4. t.wmo # Null => t.heap[t.wmo] = Wmo
    BY <1>4, <1>11, <2>1, <2>2 DEF Ptr
  <2>5. t.child \in Live(t) \cup {Null, NoChild} /\ (t.child \in Objects => t.heap[t.child] # Wmo)
    BY <1>4, <1>11, <2>1, <2>2 DEF Ptr, Live
  <2> QED
    BY <1>11, <2>3, <2>4, <2>5 DEF Sound
<1>15. Rooted(t)
  BY <1>13 DEF Rooted
<1>16. s.fault = "none" /\ Solo(s) => t.fault # "none"
  <2> SUFFICES ASSUME s.fault = "none", Solo(s), t.fault = "none" PROVE FALSE
    OBVIOUS
  <2>1. d.heap[s.charModel] # Free /\ s.charModel # l.canvas /\ l.heap[s.charModel] # Free
    BY <1>3, <1>4, <1>12
  <2>2. CASE l = s
    BY <1>3, <2>1, <2>2 DEF Solo, Live
  <2>3. CASE \A o \in Objects : l.heap[o] = IF o = s.canvas THEN Free ELSE s.heap[o]
    BY <1>3, <2>1, <2>3 DEF Solo, Live
  <2> QED
    BY <1>2, <2>2, <2>3
<1> QED
  BY <1>10, <1>11, <1>14, <1>15, <1>16

(* What LoadChar and ImportArmoury end with follows root. *)
LEMMA Listed ==
  ASSUME NEW s \in States, Sound(s), NEW p, NEW t, t = RefreshList(Follow(s, p))
  PROVE  t \in States /\ Sound(t) /\ Rooted(t) /\ t.isWMO = s.isWMO
<1> DEFINE u == Follow(s, p)
<1>1. u \in States /\ Tree(u) = Tree(s) /\ Other(u) = Other(s) /\ (u.fault = "none" => s.fault = "none")
  BY Followed DEF Shrinks
<1> HIDE DEF u
<1>2. /\ t \in States /\ (t.fault = "none" => u.fault = "none")
      /\ Tree(t) = Tree(u) /\ Other(t) = Other(u)
      /\ t.fault = "none" => u.root \in Live(u) \cup {Null}
  BY <1>1, Refreshed DEF u
<1>3. Sound(t) /\ Rooted(t)
  BY <1>1, <1>2 DEF Sound, Rooted, Live, Tree, Other
<1> QED
  BY <1>1, <1>2, <1>3 DEF Other

LEMMA CharLoaded ==
  ASSUME NEW s \in States, Sound(s), NEW f \in Files, Unused(s) # {}, NEW t, t = LoadChar(s, f)
  PROVE  t \in States /\ Sound(t) /\ Rooted(t) /\ t.isWMO = s.isWMO
<1> DEFINE v == FollowIfSet(s, s.charModel)
           l == IF s.isWMO THEN deleteWMO(v) ELSE v
           u == LoadModel(l, f)
<1>1. t = RefreshList(Follow(u, u.canvas))
  BY DEF LoadChar
<1>2. Shrinks(s, v) /\ Tree(v) = Tree(s) /\ Other(v) = Other(s)
  BY FollowedIfSet
<1> HIDE DEF v
<1>3. v \in States /\ Sound(v)
  BY <1>2 DEF Shrinks, Sound, Live, Tree, Other
<1>4. Shrinks(v, l) /\ Sound(l) /\ Other(l) = Other(v)
  <2>1. CASE s.isWMO
    BY <1>3, <2>1, WMOGone
  <2>2. CASE ~s.isWMO
    BY <1>3, <2>2 DEF Shrinks
  <2> QED
    BY <2>1, <2>2
<1> HIDE DEF l
<1>5. l \in States /\ Unused(l) # {} /\ l.isWMO = s.isWMO
  BY <1>2, <1>4 DEF Shrinks, Other
<1>6. u \in States /\ Sound(u) /\ u.isWMO = l.isWMO
  BY <1>4, <1>5, ModelLoads
<1> HIDE DEF u
<1> QED
  BY <1>1, <1>5, <1>6, Listed

LEMMA ArmouryImported ==
  ASSUME NEW s \in States, Sound(s), NEW f \in Files \cup {Missing}, Unused(s) # {},
         NEW t, t = ImportArmoury(s, f)
  PROVE  t \in States /\ Sound(t) /\ (Rooted(s) => Rooted(t)) /\ t.isWMO = s.isWMO
<1> DEFINE u == LoadModel(s, f)
<1>1. t = IF u.canvas = Null THEN u ELSE RefreshList(Follow(u, u.charModel))
  BY DEF ImportArmoury
<1>2. u \in States /\ Sound(u) /\ u.isWMO = s.isWMO /\ (u = s \/ Rooted(u))
  BY ModelLoads
<1> HIDE DEF u
<1>3. CASE u.canvas = Null
  BY <1>1, <1>2, <1>3
<1>4. CASE u.canvas # Null
  BY <1>1, <1>2, <1>4, Listed
<1> QED
  BY <1>3, <1>4

(* FileControl::OnTreeSelect for an image. *)
LEMMA ImageSelected ==
  ASSUME NEW s \in States, Sound(s), NEW t, t = ClearCanvas(s)
  PROVE  /\ t \in States /\ Sound(t) /\ ~t.isWMO
         /\ Single(s) \/ ~s.isWMO => (Rooted(s) => Rooted(t))
         /\ (Solo(s) => Solo(t)) /\ (Single(s) => Single(t))
<1>1. /\ Shrinks(s, t) /\ Sound(t) /\ (Solo(s) => Solo(t))
      /\ t.isModel = FALSE /\ t.isWMO = FALSE
      /\ t.canvas \in {s.canvas, Null}
      /\ s.isWMO => t.wmo = Null /\ t.canvas = s.canvas
      /\ ~s.isWMO => (Rooted(s) => Rooted(t)) /\ (s.isModel => t.canvas = Null)
  BY CanvasCleared
<1>2. t \in States /\ (t.fault = "none" => s.fault = "none")
  BY <1>1 DEF Shrinks
<1>3. Single(s) /\ t.fault = "none" => t.canvas = Null
  BY <1>1, <1>2 DEF Single
<1>4. Single(s) => Single(t)
  BY <1>1, <1>3 DEF Single
<1>5. Single(s) /\ s.isWMO => Rooted(t)
  BY <1>1, <1>3 DEF Rooted
<1> QED
  BY <1>1, <1>2, <1>4, <1>5
-----------------------------------------------------------------------------
(* Every scene *)

(* What holds of every scene, and what depends on what its user does. *)
PanelInv == /\ Now \in States
            /\ Sound(Now)
            /\ ~Mixed => Rooted(Now)
            /\ "wmo" \notin Uses => ~isWMO
            /\ Uses \cap {"import", "mount"} = {} => Solo(Now) /\ Single(Now)

LEMMA PanelInit == Init => PanelInv
<1> SUFFICES ASSUME Init PROVE PanelInv
  OBVIOUS
<1>1. Now \in States
  BY DEF Init, Now, States, Ptr
<1>2. Sound(Now) /\ Rooted(Now) /\ Solo(Now) /\ Single(Now)
  BY NullAssumption DEF Init, Now, Sound, Rooted, Solo, Single, Live
<1> QED
  BY <1>1, <1>2 DEF PanelInv, Init

LEMMA BecomeIs ==
  ASSUME NEW s \in States, Become(s)
  PROVE  Now' = s /\ UNCHANGED scene
<1>1. Now' = [heap |-> s.heap, canvas |-> s.canvas, wmo |-> s.wmo, root |-> s.root, child |-> s.child,
              charModel |-> s.charModel, charAtt |-> s.charAtt, cdModel |-> s.cdModel,
              selModel |-> s.selModel, mcModel |-> s.mcModel, list |-> s.list,
              isModel |-> s.isModel, isChar |-> s.isChar, isWMO |-> s.isWMO, cdOn |-> s.cdOn,
              fault |-> s.fault]
  BY DEF Become, Now
<1>2. UNCHANGED scene
  BY DEF Become
<1> QED
  BY <1>1, <1>2 DEF States

(* A handler that ends in t. *)
LEMMA Ends ==
  ASSUME NEW t \in States, Become(t), Sound(t),
         ~Mixed => Rooted(t),
         "wmo" \notin Uses => ~t.isWMO,
         Uses \cap {"import", "mount"} = {} => Solo(t) /\ Single(t)
  PROVE  PanelInv'
<1>1. Now' = t /\ UNCHANGED scene
  BY BecomeIs
<1>2. isWMO' = t.isWMO
  BY DEF Become
<1>3. Sound(Now') /\ (~Mixed => Rooted(Now')) /\ (Uses \cap {"import", "mount"} = {} => Solo(Now') /\ Single(Now'))
  BY <1>1
<1>4. /\ Sound(Now)' = Sound(Now') /\ Rooted(Now)' = Rooted(Now')
      /\ Solo(Now)' = Solo(Now') /\ Single(Now)' = Single(Now')
  OBVIOUS
<1>5. (Now \in States)'
  BY <1>1 DEF States, Ptr, Files
<1> QED
  BY <1>1, <1>2, <1>3, <1>4, <1>5 DEF PanelInv, Uses, Mixed

LEMMA PanelStep == PanelInv /\ [Next]_pvars => PanelInv'
<1> SUFFICES ASSUME PanelInv, [Next]_pvars PROVE PanelInv'
  OBVIOUS
<1>1. /\ Now \in States /\ Sound(Now) /\ (~Mixed => Rooted(Now))
      /\ "wmo" \notin Uses => ~Now.isWMO
      /\ Uses \cap {"import", "mount"} = {} => Solo(Now) /\ Single(Now)
  BY DEF PanelInv, Now
<1>2. Now.charModel = charModel /\ Now.fault = fault
  BY DEF Now
<1>3. ASSUME NEW f \in Files, PickModel(f) PROVE PanelInv'
  <2>1. Unused(Now) # {} /\ Become(SelectModel(Now, f))
    BY <1>3 DEF PickModel, Ready
  <2> DEFINE t == SelectModel(Now, f)
  <2>2. /\ t \in States /\ Sound(t)
        /\ (Rooted(Now) => Rooted(t)) /\ (Solo(Now) => Solo(t))
        /\ t = Now \/ (t.isModel /\ ~t.isWMO)
    BY <1>1, <2>1, ModelSelected
  <2> HIDE DEF t
  <2>3. Become(t)
    BY <2>1 DEF t
  <2>4. Single(Now) => Single(t)
    BY <2>2 DEF Single
  <2> QED
    BY <1>1, <2>2, <2>3, <2>4, Ends
<1>4. ASSUME NEW f \in Files \cup {Missing}, PickEntry(f) PROVE PanelInv'
  <2>1. Unused(Now) # {} /\ Become(LoadEntry(Now, f))
    BY <1>4 DEF PickEntry, Ready
  <2> DEFINE t == LoadEntry(Now, f)
  <2>2. /\ t \in States /\ Sound(t)
        /\ (Rooted(Now) => Rooted(t)) /\ (Solo(Now) => Solo(t)) /\ t.isModel /\ ~t.isWMO
    BY <1>1, <2>1, EntryLoaded
  <2> HIDE DEF t
  <2>3. Become(t)
    BY <2>1 DEF t
  <2>4. Single(t)
    BY <2>2 DEF Single
  <2> QED
    BY <1>1, <2>2, <2>3, <2>4, Ends
<1>5. ASSUME NEW f \in Files, PickChar(f) PROVE PanelInv'
  <2>1. Unused(Now) # {} /\ Become(LoadChar(Now, f)) /\ "import" \in Uses
    BY <1>5 DEF PickChar, Ready
  <2> DEFINE t == LoadChar(Now, f)
  <2>2. t \in States /\ Sound(t) /\ Rooted(t) /\ t.isWMO = Now.isWMO
    BY <1>1, <2>1, CharLoaded
  <2> HIDE DEF t
  <2>3. Become(t)
    BY <2>1 DEF t
  <2> QED
    BY <1>1, <2>1, <2>2, <2>3, Ends
<1>6. ASSUME NEW f \in Files \cup {Missing}, Import(f) PROVE PanelInv'
  <2>1. Unused(Now) # {} /\ Become(ImportArmoury(Now, f)) /\ "import" \in Uses
    BY <1>6 DEF Import, Ready
  <2> DEFINE t == ImportArmoury(Now, f)
  <2>2. t \in States /\ Sound(t) /\ (Rooted(Now) => Rooted(t)) /\ t.isWMO = Now.isWMO
    BY <1>1, <2>1, ArmouryImported
  <2> HIDE DEF t
  <2>3. Become(t)
    BY <2>1 DEF t
  <2> QED
    BY <1>1, <2>1, <2>2, <2>3, Ends
<1>7. ASSUME NEW f \in Files, PickMount(f) PROVE PanelInv'
  <2>1. Unused(Now) # {} /\ Become(MountOn(Now, f)) /\ "mount" \in Uses
    BY <1>7 DEF PickMount, Ready
  <2> DEFINE t == MountOn(Now, f)
  <2>2. t \in States /\ Sound(t) /\ Rooted(t) /\ t.isWMO = Now.isWMO
    BY <1>1, <2>1, Mounted
  <2> HIDE DEF t
  <2>3. Become(t)
    BY <2>1 DEF t
  <2> QED
    BY <1>1, <2>1, <2>2, <2>3, Ends
<1>8. CASE PickImage
  <2>1. Become(ClearCanvas(Now)) /\ "image" \in Uses
    BY <1>8 DEF PickImage
  <2> DEFINE t == ClearCanvas(Now)
  <2>2. /\ t \in States /\ Sound(t) /\ ~t.isWMO
        /\ Single(Now) \/ ~Now.isWMO => (Rooted(Now) => Rooted(t))
        /\ (Solo(Now) => Solo(t)) /\ (Single(Now) => Single(t))
    BY <1>1, ImageSelected
  <2> HIDE DEF t
  <2>3. Become(t)
    BY <2>1 DEF t
  <2>4. ~Mixed => Single(Now) \/ ~Now.isWMO
    BY <1>1, <2>1 DEF Mixed
  <2> QED
    BY <1>1, <2>2, <2>3, <2>4, Ends
<1>9. CASE PickWMO
  <2>1. Unused(Now) # {} /\ Become(SelectWMO(Now)) /\ "wmo" \in Uses
    BY <1>9 DEF PickWMO, Ready
  <2> DEFINE t == SelectWMO(Now)
  <2>2. /\ t \in States /\ Sound(t)
        /\ (Rooted(Now) => Rooted(t)) /\ (Solo(Now) => Solo(t)) /\ (Single(Now) => Single(t))
    BY <1>1, <2>1, WMOSelected
  <2> HIDE DEF t
  <2>3. Become(t)
    BY <2>1 DEF t
  <2> QED
    BY <1>1, <2>1, <2>2, <2>3, Ends
<1>10. CASE PickNone
  <2>1. Become(Dismount(Now)) /\ Now.charModel # Null /\ Now.fault = "none"
    BY <1>2, <1>10 DEF PickNone, Ready
  <2> DEFINE t == Dismount(Now)
  <2>2. /\ t \in States /\ Sound(t) /\ Rooted(t) /\ t.isWMO = Now.isWMO
        /\ Now.fault = "none" /\ Solo(Now) => t.fault # "none"
    BY <1>1, <2>1, Dismounted
  <2> HIDE DEF t
  <2>3. Become(t)
    BY <2>1 DEF t
  <2>4. Solo(Now) => Solo(t) /\ Single(t)
    BY <2>1, <2>2 DEF Solo, Single
  <2> QED
    BY <1>1, <2>2, <2>3, <2>4, Ends
<1>11. CASE UNCHANGED pvars
  <2>1. Now' = Now /\ scene' = scene /\ isWMO' = isWMO
    BY <1>11 DEF pvars, owned, panels, flags, Now
  <2>2. /\ Sound(Now)' = Sound(Now') /\ Rooted(Now)' = Rooted(Now')
        /\ Solo(Now)' = Solo(Now') /\ Single(Now)' = Single(Now')
    OBVIOUS
  <2>3. (Now \in States)'
    BY <1>1, <2>1 DEF States, Ptr, Files
  <2> QED
    BY <1>1, <2>1, <2>2, <2>3 DEF PanelInv, Uses, Mixed
<1> QED
  BY <1>3, <1>4, <1>5, <1>6, <1>7, <1>8, <1>9, <1>10, <1>11 DEF Next, Known

LEMMA PanelSafe == Spec => []PanelInv
  BY PanelInit, PanelStep, PTL DEF Spec

LEMMA InvType == PanelInv => TypeOK
<1> SUFFICES ASSUME PanelInv PROVE TypeOK
  OBVIOUS
<1>1. /\ Now.heap = heap /\ Now.canvas = canvas /\ Now.wmo = wmo /\ Now.root = root
      /\ Now.child = child /\ Now.charModel = charModel /\ Now.charAtt = charAtt
      /\ Now.cdModel = cdModel /\ Now.selModel = selModel /\ Now.mcModel = mcModel
      /\ Now.list = list /\ Now.fault = fault
  BY DEF Now
<1>2. Now \in States /\ Sound(Now)
  BY DEF PanelInv
<1> HIDE DEF Now
<1>3. /\ heap \in [Objects -> Files \cup {Free, Wmo}]
      /\ {canvas, wmo, root, charModel, cdModel, selModel, mcModel} \subseteq Objects \cup {Null}
      /\ child \in Objects \cup {Null, NoChild} /\ charAtt \in {"null", "child", "gone"}
      /\ list \subseteq {"root", "child", "gone"} /\ fault \in {"none", "null", "freed"}
  BY <1>1, <1>2 DEF States, Ptr
<1>4. fault = "none" => (canvas # Null => heap[canvas] \in Files) /\ (wmo # Null => heap[wmo] = Wmo)
  BY <1>1, <1>2 DEF Sound
<1> QED
  BY <1>3, <1>4 DEF TypeOK

LEMMA InvSafe == PanelInv => RenderSafe
<1> SUFFICES ASSUME PanelInv, ~Mixed, fault = "none", canvas # Null \/ wmo # Null
             PROVE  {canvas, wmo, root} \cup ({child} \ {NoChild}) \subseteq Objs
  BY DEF RenderSafe
<1> USE NullAssumption
<1>1. /\ Now.heap = heap /\ Now.canvas = canvas /\ Now.wmo = wmo /\ Now.root = root
      /\ Now.child = child /\ Now.fault = fault
  BY DEF Now
<1>2. Now \in States /\ Sound(Now) /\ Rooted(Now)
  BY DEF PanelInv
<1>3. Objs = Live(Now) \cup {Null}
  BY DEF Objs
<1> HIDE DEF Now
<1>4. root \in Objs /\ (child # NoChild => child \in Objs)
  BY <1>1, <1>2, <1>3 DEF Rooted, Sound
<1>5. canvas \in Objs /\ wmo \in Objs
  BY <1>1, <1>2, <1>3 DEF Sound, States, Ptr, Live
<1> QED
  BY <1>4, <1>5

(* The canvas owns only models and world map objects that exist, and the
   pointers to what is displayed have their types, whatever the user picks,
   imports and mounts and whichever files do not load. *)
THEOREM Typing == Spec => []TypeOK
  BY PanelSafe, InvType, PTL

(* The timer and the paint handler, which walk the attachment tree while a model
   or a world map object is displayed, meet no deleted object, in every scene but
   those where one is brought over a world map object and an image is picked. *)
THEOREM Drawn == Spec => []RenderSafe
  BY PanelSafe, InvSafe, PTL
-----------------------------------------------------------------------------
(* Tame scenes *)

(* What LoadModel can be given: nothing that it follows is deleted. *)
Loadable(s) == /\ s.fault = "none" /\ s.wmo = Null
               /\ s.canvas \in Live(s) \cup {Null} /\ s.root \in Live(s) \cup {Null}
               /\ s.child \in Live(s) \cup {Null, NoChild}

(* A model is displayed, or mounted by the character that the panels edit. *)
Displays(s) == /\ {s.canvas, s.child} \subseteq Live(s) /\ s.heap[s.canvas] \in Files /\ s.isModel
               /\ s.charModel = s.child /\ s.charAtt = "child" /\ s.mcModel = s.child
               /\ s.selModel = s.canvas /\ (s.cdOn => s.cdModel = s.child)
               /\ \/ s.root = Null /\ s.canvas = s.child
                  \/ s.root = s.canvas /\ s.canvas # s.child
               /\ "gone" \notin s.list

(* Before the first load. *)
Blank(s) == /\ s.canvas = Null /\ s.root = Null /\ s.child = NoChild /\ s.charModel = Null
            /\ s.selModel = Null /\ s.mcModel = Null /\ ~s.cdOn /\ s.list = {}

(* What the panels keep of it, which deletions leave alone. *)
Kept(s) == <<s.charModel, s.charAtt, s.cdModel, s.selModel, s.mcModel, s.list, s.cdOn,
             s.isModel, s.isWMO>>

TameInv(s) == /\ s \in States /\ s.fault = "none" /\ s.wmo = Null /\ ~s.isWMO
              /\ Blank(s) \/ Displays(s)

LEMMA TameLoadable == ASSUME NEW s, TameInv(s) PROVE Loadable(s)
  BY DEF TameInv, Blank, Displays, Loadable

(* Pointers that are null or live are followed without a trace. *)
LEMMA Unfaulted ==
  ASSUME NEW s, s.fault = "none", NEW p
  PROVE  /\ p \in Live(s) => Follow(s, p) = s
         /\ p \in Live(s) \cup {Null, NoChild} => FollowIfSet(s, p) = s
  BY DEF Follow, FollowIfSet

LEMMA Dropped ==
  ASSUME NEW s \in States, s.fault = "none", NEW p \in Ptr, p \in Live(s) \cup {Null},
         NEW t, t = Delete(s, p)
  PROVE  t.fault = "none" /\ Shrinks(s, t)
<1> USE NullAssumption
<1>1. Shrinks(s, t)
  BY Deleted
<1>2. CASE p = Null
  BY <1>1, <1>2 DEF Delete
<1>3. CASE p # Null
  <2>1. Follow(s, p) = s
    BY <1>3, Unfaulted
  <2> DEFINE h == [s.heap EXCEPT ![p] = Free]
             r == IF s.root = p /\ s.heap[p] # Wmo THEN Null ELSE s.root
             c == IF s.child = p /\ s.heap[p] # Wmo THEN Null ELSE s.child
  <2>2. t = [s EXCEPT !.heap[p] = Free, !.root = r, !.child = c]
    BY <1>3, <2>1 DEF Delete
  <2>3. t = [s EXCEPT !.heap = h, !.root = r, !.child = c]
    BY <2>2
  <2> HIDE DEF h, r, c
  <2>4. t.fault = s.fault
    BY <2>3 DEF States
  <2> QED
    BY <1>1, <2>4
<1> QED
  BY <1>1, <1>2, <1>3

LEMMA TameClears ==
  ASSUME NEW s \in States, Loadable(s), NEW t, t = clearAttachments(s)
  PROVE  /\ t \in States /\ Loadable(t) /\ t.child = NoChild /\ t.root = s.root
         /\ t.canvas = s.canvas /\ t.heap = s.heap /\ Shrinks(s, t) /\ Other(t) = Other(s)
<1> USE NullAssumption
<1>1. /\ Shrinks(s, t) /\ t.child = NoChild /\ t.heap = s.heap /\ t.canvas = s.canvas
      /\ t.wmo = s.wmo /\ t.root = s.root /\ Other(t) = Other(s)
  BY Cleared
<1>2. FollowIfSet(s, s.child) = s
  BY Unfaulted DEF Loadable
<1> DEFINE l == Gone(s.list)
           a == IF s.charAtt = "child" /\ s.child # NoChild THEN "gone" ELSE s.charAtt
<1>3. t = [s EXCEPT !.child = NoChild, !.list = l, !.charAtt = a]
  BY <1>2 DEF clearAttachments
<1> HIDE DEF l, a
<1>4. t.fault = s.fault
  BY <1>3 DEF States
<1> QED
  BY <1>1, <1>4 DEF Loadable, Live, Shrinks

LEMMA TameDeletes ==
  ASSUME NEW s \in States, Loadable(s), s.child # s.canvas \/ s.canvas = Null \/ s.heap[s.canvas] # Wmo,
         s.root # s.canvas \/ s.canvas = Null \/ s.heap[s.canvas] # Wmo,
         NEW t, t = deleteCanvas(s)
  PROVE  /\ t \in States /\ Loadable(t) /\ t.canvas = Null /\ Shrinks(s, t) /\ Other(t) = Other(s)
         /\ t.root = IF s.root = s.canvas THEN Null ELSE s.root
         /\ t.child = IF s.child = s.canvas THEN Null ELSE s.child
         /\ \A o \in Objects : t.heap[o] = IF o = s.canvas THEN Free ELSE s.heap[o]
<1> USE NullAssumption
<1> DEFINE u == Delete(s, s.canvas)
<1>1. t = [u EXCEPT !.canvas = Null]
  BY DEF deleteCanvas
<1>2. s.canvas \in Ptr /\ s.root \in Ptr /\ s.child \in Ptr \cup {NoChild}
  BY DEF States
<1>3. /\ Shrinks(s, u)
      /\ \A o \in Objects : u.heap[o] = IF o = s.canvas THEN Free ELSE s.heap[o]
      /\ u.wmo = s.wmo /\ Other(u) = Other(s)
      /\ s.root # s.canvas => u.root = s.root
      /\ s.child # s.canvas => u.child = s.child
      /\ u.root \in {s.root, Null} /\ u.child \in {s.child, Null}
      /\ s.canvas # Null /\ s.heap[s.canvas] # Wmo => u.root # s.canvas /\ u.child # s.canvas
  BY <1>2, Deleted
<1>4. u.fault = "none"
  BY <1>2, Dropped DEF Loadable
<1> HIDE DEF u
<1>5. u \in States
  BY <1>3 DEF Shrinks
<1>6. /\ t \in States /\ t.canvas = Null
      /\ t.heap = u.heap /\ t.wmo = u.wmo /\ t.root = u.root /\ t.child = u.child
      /\ Other(t) = Other(u) /\ t.fault = u.fault
  BY <1>1, <1>5 DEF States, Ptr, Other
<1>7. /\ t.charModel = u.charModel /\ t.cdModel = u.cdModel
      /\ t.selModel = u.selModel /\ t.mcModel = u.mcModel
  BY <1>1, <1>5 DEF States
<1>8. Shrinks(s, t)
  <2>1. Pointers(t) \subseteq Pointers(u) \cup {Null, NoChild}
    BY <1>6, <1>7 DEF Pointers
  <2>2. Shrinks(u, t)
    BY <1>5, <1>6, <2>1, Room
  <2> QED
    BY <1>3, <2>2, ShrinksTwice
<1>9. /\ t.root = IF s.root = s.canvas THEN Null ELSE s.root
      /\ t.child = IF s.child = s.canvas THEN Null ELSE s.child
  BY <1>2, <1>3, <1>6
<1>10. Loadable(t)
  BY <1>2, <1>3, <1>4, <1>6, <1>9 DEF Loadable, Live
<1> QED
  BY <1>3, <1>6, <1>8, <1>9, <1>10

LEMMA TameLoads ==
  ASSUME NEW s \in States, Loadable(s), NEW f \in Files, f \notin BrokenFiles, ~Shows(s, f),
         Unused(s) # {}, NEW t, t = LoadModel(s, f)
  PROVE  t \in States /\ t.fault = "none" /\ t.wmo = Null /\ t.isWMO = s.isWMO /\ Displays(t)
<1> USE NullAssumption
<1> DEFINE c == clearAttachments(s)
           d == canvasDetaches(s)
           w == deleteCanvas(d)
           new == CHOOSE o \in Unused(w) : TRUE
           h == [w.heap EXCEPT ![new] = f]
           x == [w EXCEPT !.heap = h, !.canvas = new, !.child = new]
           m == modelFlags(x, f)
<1>1. FollowIfSet(s, s.canvas) = s /\ f # Missing
  BY Unfaulted DEF Loadable
<1>2. /\ c \in States /\ Loadable(c) /\ c.child = NoChild /\ Shrinks(s, c) /\ Other(c) = Other(s)
      /\ c.root \in Live(c) \cup {Null}
  BY TameClears DEF Loadable
<1> HIDE DEF c
<1>3. /\ d \in States /\ Loadable(d) /\ Shrinks(s, d) /\ Other(d) = Other(s)
      /\ d.child = NoChild /\ d.root = Null /\ d.wmo = Null
  <2>1. d = SetRoot(c, Null)
    BY DEF canvasDetaches, c
  <2>2. d = [c EXCEPT !.root = Null]
    BY <1>2, <2>1, Unfaulted DEF SetRoot, Loadable
  <2>3. d \in States /\ d.root = Null
    BY <1>2, <2>2 DEF States, Ptr
  <2>4. /\ d.heap = c.heap /\ d.canvas = c.canvas /\ d.wmo = c.wmo /\ d.child = c.child
        /\ d.fault = c.fault /\ Other(d) = Other(c)
    BY <1>2, <2>2 DEF States, Other
  <2>5. Shrinks(c, d)
    <3>1. /\ d.charModel = c.charModel /\ d.cdModel = c.cdModel
          /\ d.selModel = c.selModel /\ d.mcModel = c.mcModel
      BY <1>2, <2>2 DEF States
    <3>2. Pointers(d) \subseteq Pointers(c) \cup {Null, NoChild}
      BY <2>3, <2>4, <3>1 DEF Pointers
    <3> QED
      BY <1>2, <2>3, <2>4, <3>2, Room
  <2> QED
    BY <1>2, <2>3, <2>4, <2>5, ShrinksTwice DEF Loadable, Live
<1> HIDE DEF d
<1>4. deleteWMO(d) = d
  <2>1. deleteWMO(d) = [d EXCEPT !.wmo = Null]
    BY <1>3 DEF deleteWMO, Delete
  <2> QED
    BY <1>3, <2>1 DEF States
<1>5. /\ w \in States /\ Loadable(w) /\ w.canvas = Null /\ Shrinks(s, w) /\ Other(w) = Other(s)
      /\ w.root = Null /\ w.wmo = Null
  <2>1. d.canvas \in Ptr
    BY <1>3 DEF States
  <2>2. d.child # d.canvas /\ (d.root # d.canvas \/ d.canvas = Null)
    BY <1>3, <2>1 DEF Ptr
  <2> QED
    BY <1>3, <2>2, TameDeletes, ShrinksTwice DEF Loadable
<1> HIDE DEF w
<1>6. new \in Unused(w)
  BY <1>5, Chosen DEF Shrinks
<1>7. new \in Objects /\ new \in Ptr /\ h \in [Objects -> Files \cup {Free, Wmo}] /\ h[new] = f
  BY <1>5, <1>6 DEF Unused, Ptr, States
<1>8. LoadModel(s, f) = updatePanels(modelFlags(canvasLoadModel(s, f), f)) /\ canvasLoadModel(s, f) = x
  <2>1. w = deleteCanvas(deleteWMO(canvasDetaches(s)))
    BY <1>4 DEF d, w
  <2>2. canvasLoadModel(s, f) = [[w EXCEPT !.heap[new] = f] EXCEPT !.canvas = new, !.child = new]
    BY <2>1 DEF canvasLoadModel
  <2> QED
    BY <1>1, <1>5, <2>2 DEF LoadModel, States
<1> HIDE DEF new, h
<1>9. /\ x \in States /\ x.heap = h /\ x.canvas = new /\ x.child = new
      /\ x.root = Null /\ x.wmo = Null /\ x.fault = "none" /\ x.isWMO = s.isWMO
  <2>1. x \in States /\ x.heap = h /\ x.canvas = new /\ x.child = new
    BY <1>5, <1>7 DEF States
  <2>2. x.root = w.root /\ x.wmo = w.wmo /\ x.fault = w.fault /\ Other(x) = Other(w)
    BY <1>5 DEF States, Other
  <2> QED
    BY <1>5, <2>1, <2>2 DEF Loadable, Other
<1> HIDE DEF x
<1>10. /\ m \in States /\ m.heap = h /\ m.canvas = new /\ m.child = new /\ m.isModel
       /\ m.root = Null /\ m.wmo = Null /\ m.fault = "none" /\ m.isWMO = s.isWMO
  <2> DEFINE b == f \in CharFiles
  <2>1. m = [x EXCEPT !.isModel = TRUE, !.isChar = b] /\ b \in BOOLEAN
    BY DEF modelFlags
  <2> HIDE DEF b, m
  <2>2. m \in States /\ m.isModel
    BY <1>9, <2>1 DEF States
  <2>3. /\ m.heap = x.heap /\ m.canvas = x.canvas /\ m.child = x.child /\ m.root = x.root
        /\ m.wmo = x.wmo /\ m.fault = x.fault /\ m.isWMO = x.isWMO
    BY <1>9, <2>1 DEF States
  <2> QED
    BY <1>9, <2>2, <2>3
<1> HIDE DEF m
<1> DEFINE cd == IF m.isChar THEN new ELSE m.cdModel
           p == [m EXCEPT !.charModel = new, !.charAtt = "child", !.cdOn = m.isChar,
                          !.cdModel = cd, !.mcModel = new, !.selModel = new]
<1>11. cd \in Ptr /\ m.isChar \in BOOLEAN /\ new \in Live(m)
  BY <1>7, <1>10 DEF States, Live
<1>12. t = RefreshList(p)
  BY <1>8, <1>10 DEF updatePanels, m, States
<1>13. /\ p \in States /\ p.charModel = new /\ p.charAtt = "child" /\ p.cdOn = m.isChar
       /\ p.cdModel = cd /\ p.mcModel = new /\ p.selModel = new
  <2> HIDE DEF cd
  <2> QED
    BY <1>7, <1>10, <1>11 DEF States
<1>14. /\ p.heap = m.heap /\ p.canvas = m.canvas /\ p.child = m.child /\ p.isModel = m.isModel
       /\ p.root = m.root /\ p.wmo = m.wmo /\ p.fault = m.fault /\ p.isWMO = m.isWMO
  <2> HIDE DEF cd
  <2> QED
    BY <1>10 DEF States
<1>15. p.cdOn => p.cdModel = new
  BY <1>13
<1> HIDE DEF p
<1>16. new \in Live(p)
  BY <1>10, <1>11, <1>14 DEF Live
<1>17. t = [p EXCEPT !.list = {"child"}]
  BY <1>7, <1>10, <1>12, <1>14, <1>16, Unfaulted DEF RefreshList
<1>18. t \in States /\ t.list = {"child"} /\ Tree(t) = Tree(p)
  BY <1>13, <1>17 DEF States, Tree
<1>19. /\ t.charModel = p.charModel /\ t.charAtt = p.charAtt /\ t.cdOn = p.cdOn /\ t.cdModel = p.cdModel
       /\ t.mcModel = p.mcModel /\ t.selModel = p.selModel /\ t.fault = p.fault
       /\ t.isModel = p.isModel /\ t.isWMO = p.isWMO
  BY <1>13, <1>17 DEF States
<1>20. /\ t.heap = p.heap /\ t.canvas = p.canvas /\ t.child = p.child /\ t.root = p.root /\ t.wmo = p.wmo
  BY <1>18 DEF Tree
<1>21. t.canvas = new /\ t.heap[new] = f /\ f \in Files /\ new \in Live(t)
  BY <1>7, <1>10, <1>14, <1>16, <1>20 DEF Live
<1> QED
  BY <1>10, <1>13, <1>14, <1>15, <1>18, <1>19, <1>20, <1>21 DEF Displays

LEMMA TameLists ==
  ASSUME NEW s \in States, s.fault = "none", s.root \in Live(s) \cup {Null},
         s.child \in Live(s) \cup {Null, NoChild}, NEW t, t = RefreshList(s)
  PROVE  /\ t \in States /\ "gone" \notin t.list /\ Tree(t) = Tree(s) /\ t.fault = "none"
         /\ \A l : Kept([t EXCEPT !.list = l]) = Kept([s EXCEPT !.list = l])
         /\ t.isWMO = s.isWMO
<1> DEFINE l == (IF s.root = Null THEN {} ELSE {"root"}) \cup
                (IF s.child \in {Null, NoChild} THEN {} ELSE {"child"})
<1>1. t = [s EXCEPT !.list = l]
  BY Unfaulted DEF RefreshList
<1>2. l \in SUBSET {"root", "child", "gone"} /\ "gone" \notin l
  OBVIOUS
<1> HIDE DEF l
<1> QED
  BY <1>1, <1>2 DEF States, Tree, Kept

LEMMA TameRefreshes ==
  ASSUME NEW s, TameInv(s), Displays(s), NEW t, t = RefreshList(s)
  PROVE  TameInv(t) /\ Displays(t)
<1> USE NullAssumption
<1>1. s \in States /\ s.fault = "none"
  BY DEF TameInv
<1>2. s.root \in Live(s) \cup {Null} /\ s.child \in Live(s) \cup {Null, NoChild}
  BY DEF Displays
<1>3. /\ t \in States /\ "gone" \notin t.list /\ Tree(t) = Tree(s) /\ t.fault = "none"
      /\ Kept([t EXCEPT !.list = {}]) = Kept([s EXCEPT !.list = {}]) /\ t.isWMO = s.isWMO
  BY <1>1, <1>2, TameLists
<1>4. /\ t.charModel = s.charModel /\ t.charAtt = s.charAtt /\ t.cdModel = s.cdModel
      /\ t.selModel = s.selModel /\ t.mcModel = s.mcModel /\ t.cdOn = s.cdOn /\ t.isModel = s.isModel
  BY <1>1, <1>3 DEF States, Kept
<1> QED
  BY <1>3, <1>4 DEF TameInv, Displays, Tree, Live

(* Handlers that first delete what is displayed. *)
LEMMA TameReloads ==
  ASSUME NEW s, TameInv(s), NEW f \in Files, f \notin BrokenFiles, Unused(s) # {},
         NEW c, c \in States, Loadable(c), c.canvas = Null, Unused(s) \subseteq Unused(c), ~c.isWMO,
         NEW t, t = LoadModel(c, f)
  PROVE  TameInv(t) /\ Displays(t)
<1>1. ~Shows(c, f) /\ Unused(c) # {}
  BY DEF Shows
<1> QED
  BY <1>1, TameLoads DEF TameInv

LEMMA TameEmpties ==
  ASSUME NEW s, TameInv(s), NEW t, t = deleteCanvas(clearAttachments(s))
  PROVE  t \in States /\ Loadable(t) /\ t.canvas = Null /\ Shrinks(s, t) /\ ~t.isWMO
<1> USE NullAssumption
<1> DEFINE c == clearAttachments(s)
<1>1. s \in States /\ ~s.isWMO /\ Loadable(s)
  BY TameLoadable DEF TameInv
<1>2. /\ c \in States /\ Loadable(c) /\ c.child = NoChild /\ c.root = s.root
      /\ c.canvas = s.canvas /\ c.heap = s.heap /\ Shrinks(s, c) /\ Other(c) = Other(s)
  BY <1>1, TameClears
<1> HIDE DEF c
<1>3. c.canvas \in Ptr /\ (c.canvas # Null => c.heap[c.canvas] # Wmo)
  BY <1>2 DEF States, TameInv, Displays, Blank
<1> QED
  BY <1>1, <1>2, <1>3, TameDeletes, ShrinksTwice DEF Other, c

LEMMA TameSelects ==
  ASSUME NEW s, TameInv(s), NEW f \in Files, f \notin BrokenFiles, Unused(s) # {},
         NEW t, t = SelectModel(s, f)
  PROVE  TameInv(t)
<1> USE NullAssumption
<1>1. CASE Shows(s, f)
  BY <1>1 DEF SelectModel
<1>2. CASE ~Shows(s, f)
  <2> DEFINE e == deleteCanvas(clearAttachments(s))
             a == IF s.isChar THEN "null" ELSE e.charAtt
             c == IF s.isModel THEN [e EXCEPT !.charAtt = a, !.isModel = TRUE, !.isChar = FALSE, !.isWMO = FALSE]
                  ELSE [s EXCEPT !.isModel = TRUE]
  <2>1. s \in States /\ ~s.isWMO /\ Loadable(s)
    BY TameLoadable DEF TameInv
  <2>2. e \in States /\ Loadable(e) /\ e.canvas = Null /\ Shrinks(s, e)
    BY TameEmpties
  <2> HIDE DEF e
  <2>3. a \in {"null", "child", "gone"}
    BY <2>2 DEF States
  <2> HIDE DEF a
  <2>4. CASE s.isModel
    <3>1. c = [e EXCEPT !.charAtt = a, !.isModel = TRUE, !.isChar = FALSE, !.isWMO = FALSE]
      BY <2>4
    <3>2. [ClearCanvas(s) EXCEPT !.isModel = TRUE] = c
      BY <2>1, <2>2, <2>4, <3>1 DEF ClearCanvas, e, a, States
    <3> HIDE DEF c
    <3>3. c \in States /\ ~c.isWMO
      BY <2>2, <2>3, <3>1 DEF States
    <3>4. /\ c.heap = e.heap /\ c.canvas = e.canvas /\ c.wmo = e.wmo /\ c.root = e.root
          /\ c.child = e.child /\ c.fault = e.fault
      BY <2>2, <3>1 DEF States
    <3>5. /\ c.charModel = e.charModel /\ c.cdModel = e.cdModel
          /\ c.selModel = e.selModel /\ c.mcModel = e.mcModel
      BY <2>2, <3>1 DEF States
    <3>6. Loadable(c) /\ Unused(c) = Unused(e)
      BY <2>2, <3>4, <3>5 DEF Loadable, Live, Unused, Pointers
    <3> QED
      BY <1>2, <2>2, <3>2, <3>3, <3>4, <3>6, TameReloads DEF SelectModel, Shrinks
  <2>5. CASE ~s.isModel
    <3>1. c = [s EXCEPT !.isModel = TRUE]
      BY <2>5
    <3>2. [ClearCanvas(s) EXCEPT !.isModel = TRUE] = c
      BY <2>1, <2>5, <3>1 DEF ClearCanvas
    <3> HIDE DEF c
    <3>3. c \in States /\ ~c.isWMO
      BY <2>1, <3>1 DEF States
    <3>4. /\ c.heap = s.heap /\ c.canvas = s.canvas /\ c.wmo = s.wmo /\ c.root = s.root
          /\ c.child = s.child /\ c.fault = s.fault
      BY <2>1, <3>1 DEF States
    <3>5. /\ c.charModel = s.charModel /\ c.cdModel = s.cdModel
          /\ c.selModel = s.selModel /\ c.mcModel = s.mcModel
      BY <2>1, <3>1 DEF States
    <3>6. Loadable(c) /\ Unused(c) = Unused(s)
      BY <2>1, <3>4, <3>5 DEF Loadable, Live, Unused, Pointers
    <3>7. c.canvas = Null
      BY <2>5, <3>4 DEF TameInv, Displays, Blank
    <3> QED
      BY <1>2, <3>2, <3>3, <3>6, <3>7, TameReloads DEF SelectModel
  <2> QED
    BY <2>4, <2>5
<1> QED
  BY <1>1, <1>2

LEMMA TameEntries ==
  ASSUME NEW s, TameInv(s), NEW f \in Files, f \notin BrokenFiles, Unused(s) # {},
         NEW t, t = LoadEntry(s, f)
  PROVE  TameInv(t)
<1> DEFINE e == deleteCanvas(clearAttachments(s))
           c == [e EXCEPT !.isModel = TRUE, !.isChar = FALSE, !.isWMO = FALSE]
<1>1. t = LoadModel(c, f)
  BY DEF LoadEntry
<1>2. e \in States /\ Loadable(e) /\ e.canvas = Null /\ Shrinks(s, e)
  BY TameEmpties
<1> HIDE DEF e
<1>3. c \in States /\ ~c.isWMO
  BY <1>2 DEF States
<1>4. /\ c.heap = e.heap /\ c.canvas = e.canvas /\ c.wmo = e.wmo /\ c.root = e.root
      /\ c.child = e.child /\ c.fault = e.fault
  BY <1>2 DEF States
<1>5. /\ c.charModel = e.charModel /\ c.cdModel = e.cdModel
      /\ c.selModel = e.selModel /\ c.mcModel = e.mcModel
  BY <1>2 DEF States
<1> HIDE DEF c
<1>6. Loadable(c) /\ Unused(c) = Unused(e)
  BY <1>2, <1>4, <1>5 DEF Loadable, Live, Unused, Pointers
<1> QED
  BY <1>1, <1>2, <1>3, <1>4, <1>6, TameReloads DEF Shrinks

(* A file that is picked where another, or the same one, is displayed. *)
LEMMA TameLoadsOver ==
  ASSUME NEW s, TameInv(s), NEW f \in Files, f \notin BrokenFiles, Unused(s) # {},
         NEW t, t = LoadModel(s, f)
  PROVE  TameInv(t) /\ Displays(t)
<1>1. CASE Shows(s, f)
  BY <1>1 DEF LoadModel, Shows, TameInv, Blank
<1>2. CASE ~Shows(s, f)
  BY <1>2, TameLoadable, TameLoads DEF TameInv
<1> QED
  BY <1>1, <1>2

LEMMA TameChars ==
  ASSUME NEW s, TameInv(s), NEW f \in Files, f \notin BrokenFiles, Unused(s) # {},
         NEW t, t = LoadChar(s, f)
  PROVE  TameInv(t)
<1> DEFINE u == LoadModel(s, f)
<1>1. s.charModel \in Live(s) \cup {Null}
  BY DEF TameInv, Blank, Displays
<1>2. FollowIfSet(s, s.charModel) = s /\ ~s.isWMO
  BY <1>1, Unfaulted DEF TameInv
<1>3. t = RefreshList(Follow(u, u.canvas))
  BY <1>2 DEF LoadChar
<1>4. TameInv(u) /\ Displays(u)
  BY TameLoadsOver
<1> HIDE DEF u
<1>5. Follow(u, u.canvas) = u
  BY <1>4, Unfaulted DEF TameInv, Displays
<1> QED
  BY <1>3, <1>4, <1>5, TameRefreshes

LEMMA TameImports ==
  ASSUME NEW s, TameInv(s), NEW f \in Files, f \notin BrokenFiles, Unused(s) # {},
         NEW t, t = ImportArmoury(s, f)
  PROVE  TameInv(t)
<1> DEFINE u == LoadModel(s, f)
<1>1. t = IF u.canvas = Null THEN u ELSE RefreshList(Follow(u, u.charModel))
  BY DEF ImportArmoury
<1>2. TameInv(u) /\ Displays(u)
  BY TameLoadsOver
<1> HIDE DEF u
<1>3. Follow(u, u.charModel) = u
  BY <1>2, Unfaulted DEF TameInv, Displays
<1> QED
  BY <1>1, <1>2, <1>3, TameRefreshes

(* Only a mounted character leaves its mount, which is deleted. *)
LEMMA TameLeaves ==
  ASSUME NEW s, TameInv(s), Displays(s), NEW t, t = leaveMount(s)
  PROVE  /\ t \in States /\ t.fault = "none" /\ t.wmo = Null /\ ~t.isWMO /\ Unused(s) \subseteq Unused(t)
         /\ t.child = s.child /\ t.child \in Live(t) /\ Kept(t) = Kept(s)
<1> USE NullAssumption
<1>1. s \in States /\ ~s.isWMO /\ Loadable(s)
  BY TameLoadable DEF TameInv
<1>2. CASE s.root = Null
  BY <1>1, <1>2 DEF leaveMount, TameInv, Displays
<1>3. CASE s.root # Null
  <2> DEFINE d == [s EXCEPT !.root = Null]
             h == [s.heap EXCEPT ![s.canvas] = Free]
  <2>1. s.canvas \in Objects /\ s.child \in Objects /\ s.canvas # s.child /\ {s.canvas, s.child} \subseteq Live(s)
    BY <1>3 DEF Displays, Live
  <2>2. t = deleteCanvas(d)
    BY <1>1, <1>3, Unfaulted DEF leaveMount, SetRoot, Loadable
  <2>3. /\ d \in States /\ d.root = Null /\ d.heap = s.heap /\ d.canvas = s.canvas /\ d.child = s.child
        /\ d.wmo = s.wmo /\ d.fault = s.fault /\ Kept(d) = Kept(s) /\ d.isWMO = s.isWMO
    <3>1. d \in States /\ d.root = Null
      BY <1>1 DEF States, Ptr
    <3> QED
      BY <1>1, <3>1 DEF States, Kept
  <2> HIDE DEF d
  <2>4. Follow(d, d.canvas) = d
    BY <1>1, <2>1, <2>3, Unfaulted DEF Loadable, Live
  <2>5. t = [d EXCEPT !.heap = h, !.canvas = Null]
    <3>1. d.canvas # Null /\ d.root # d.canvas /\ d.child # d.canvas
      BY <2>1, <2>3
    <3>2. t = [[d EXCEPT !.heap[d.canvas] = Free, !.root = d.root, !.child = d.child] EXCEPT !.canvas = Null]
      BY <2>2, <2>4, <3>1 DEF deleteCanvas, Delete
    <3> QED
      BY <2>3, <3>2 DEF States
  <2>6. /\ h \in [Objects -> Files \cup {Free, Wmo}]
        /\ \A o \in Objects : h[o] = IF o = s.canvas THEN Free ELSE s.heap[o]
    BY <1>1, <2>1 DEF States
  <2> HIDE DEF h
  <2>7. t \in States /\ t.heap = h /\ t.canvas = Null
    <3>1. Null \in Ptr
      BY DEF Ptr
    <3>2. t.heap = h /\ t.canvas = Null
      BY <2>3, <2>5 DEF States
    <3>3. t \in States
      BY <2>3, <2>5, <2>6, <3>1 DEF States
    <3> QED
      BY <3>2, <3>3
  <2>8. /\ t.root = d.root /\ t.child = d.child /\ t.wmo = d.wmo /\ t.fault = d.fault
        /\ t.isWMO = d.isWMO
    BY <2>3, <2>5 DEF States
  <2>9. Kept(t) = Kept(d)
    BY <2>3, <2>5 DEF States, Kept
  <2>10. Unused(s) \subseteq Unused(t)
    <3>1. Pointers(t) \subseteq Pointers(s) \cup {Null}
      BY <2>3, <2>7, <2>8, <2>9 DEF Pointers, Kept
    <3>2. \A o \in Objects : t.heap[o] \in {s.heap[o], Free}
      BY <2>6, <2>7
    <3> QED
      BY <3>1, <3>2 DEF Unused
  <2> QED
    BY <1>1, <2>1, <2>3, <2>6, <2>7, <2>8, <2>9, <2>10 DEF Loadable, Live
<1> QED
  BY <1>2, <1>3

LEMMA TameMounts ==
  ASSUME NEW s, TameInv(s), NEW f \in Files, Unused(s) # {}, s.charModel # Null,
         NEW t, t = MountOn(s, f)
  PROVE  TameInv(t)
<1> USE NullAssumption
<1>1. Displays(s)
  BY DEF TameInv, Blank
<1> DEFINE l == leaveMount(s)
           w == Follow(l, s.charModel)
           new == CHOOSE o \in Unused(w) : TRUE
           h == [l.heap EXCEPT ![new] = f]
           u == [l EXCEPT !.heap = h, !.root = new, !.selModel = new, !.canvas = new]
<1>2. /\ l \in States /\ l.fault = "none" /\ l.wmo = Null /\ ~l.isWMO /\ Unused(s) \subseteq Unused(l)
      /\ l.child = s.child /\ l.child \in Live(l) /\ Kept(l) = Kept(s)
  BY <1>1, TameLeaves
<1> HIDE DEF l
<1>3. /\ l.charModel = s.charModel /\ l.charAtt = "child" /\ l.charModel = l.child /\ l.mcModel = l.child
      /\ l.cdOn => l.cdModel = l.child
      /\ l.isModel
  BY <1>1, <1>2 DEF Kept, Displays
<1>4. w = l
  BY <1>2, <1>3, Unfaulted
<1>5. t = RefreshList(IF u.charAtt = "gone" THEN [u EXCEPT !.fault = "freed"]
                      ELSE IF u.charAtt = "child" THEN Follow(u, u.child) ELSE u)
  <2> DEFINE g == mountAndKeep([w EXCEPT !.heap[new] = f, !.root = new, !.selModel = new], new)
  <2>1. t = RefreshList(IF g.charAtt = "gone" THEN [g EXCEPT !.fault = "freed"]
                        ELSE IF g.charAtt = "child" THEN Follow(g, g.child) ELSE g)
    BY DEF MountOn, l
  <2> HIDE DEF new, w
  <2>2. g = u
    BY <1>2, <1>4 DEF mountAndKeep, States
  <2> HIDE DEF g, u
  <2> QED
    BY <2>1, <2>2
<1>6. new \in Unused(l)
  BY <1>2, <1>4, Chosen
<1> HIDE DEF w
<1>7. /\ new \in Objects /\ new \in Ptr /\ new # l.child
      /\ h \in [Objects -> Files \cup {Free, Wmo}]
      /\ \A o \in Objects : h[o] = IF o = new THEN f ELSE l.heap[o]
  BY <1>2, <1>6 DEF Unused, Ptr, States, Live
<1> HIDE DEF new, h
<1>8. u \in States /\ u.heap = h /\ u.root = new /\ u.selModel = new /\ u.canvas = new
  BY <1>2, <1>7 DEF States
<1>9. /\ u.child = l.child /\ u.wmo = l.wmo /\ u.fault = l.fault /\ u.isWMO = l.isWMO
      /\ u.charModel = l.charModel /\ u.charAtt = l.charAtt /\ u.mcModel = l.mcModel
      /\ u.cdOn = l.cdOn /\ u.cdModel = l.cdModel /\ u.isModel = l.isModel
  BY <1>2 DEF States
<1>10. u.child \in Live(u)
  BY <1>2, <1>7, <1>8, <1>9 DEF Live
<1>11. Follow(u, u.child) = u
  <2> HIDE DEF u
  <2> QED
    BY <1>2, <1>9, <1>10, Unfaulted
<1>12. t = RefreshList(u)
  <2> HIDE DEF u
  <2> QED
    BY <1>3, <1>5, <1>9, <1>11
<1> HIDE DEF u
<1>13. new \in Live(u)
  BY <1>7, <1>8 DEF Live
<1>14. /\ t \in States /\ "gone" \notin t.list /\ Tree(t) = Tree(u) /\ t.fault = "none"
       /\ Kept([t EXCEPT !.list = {}]) = Kept([u EXCEPT !.list = {}]) /\ t.isWMO = u.isWMO
  BY <1>2, <1>8, <1>9, <1>10, <1>12, <1>13, TameLists
<1>15. /\ t.charModel = u.charModel /\ t.charAtt = u.charAtt /\ t.cdModel = u.cdModel
       /\ t.selModel = u.selModel /\ t.mcModel = u.mcModel /\ t.cdOn = u.cdOn /\ t.isModel = u.isModel
  BY <1>8, <1>14 DEF States, Kept
<1>16. /\ t.heap = u.heap /\ t.canvas = u.canvas /\ t.wmo = u.wmo /\ t.root = u.root /\ t.child = u.child
  BY <1>14 DEF Tree
<1>17. Displays(t)
  BY <1>7, <1>3, <1>8, <1>9, <1>10, <1>13, <1>14, <1>15, <1>16 DEF Displays, Live
<1> QED
  BY <1>2, <1>9, <1>14, <1>16, <1>17 DEF TameInv

TamePanels == Tame => TameInv(Now)

LEMMA TameInit == Init => TamePanels
<1> SUFFICES ASSUME Init PROVE TameInv(Now)
  BY DEF TamePanels
<1>1. Now \in States
  BY DEF Init, Now, States, Ptr
<1> QED
  BY <1>1 DEF Init, Now, TameInv, Blank

LEMMA TameEnds ==
  ASSUME NEW t, Become(t), TameInv(t) PROVE TamePanels'
<1>1. Now' = t
  BY BecomeIs DEF TameInv
<1>2. TameInv(Now')
  BY <1>1
<1>3. TameInv(Now)' = TameInv(Now')
  OBVIOUS
<1> QED
  BY <1>2, <1>3 DEF TamePanels

LEMMA TameStep == TamePanels /\ [Next]_pvars => TamePanels'
<1> SUFFICES ASSUME TamePanels, [Next]_pvars, Tame' PROVE TamePanels'
  BY DEF TamePanels
<1>1. scene' = scene
  BY DEF Next, pvars, PickModel, PickEntry, PickChar, Import, PickImage, PickWMO, PickMount, PickNone, Become
<1>2. Tame /\ TameInv(Now)
  BY <1>1 DEF Tame, TamePanels, BrokenFiles, Uses
<1>3. BrokenFiles = {} /\ {"image", "wmo", "dismount", "missing"} \cap Uses = {}
  BY <1>2 DEF Tame
<1>4. Now.charModel = charModel
  BY DEF Now
<1>5. ASSUME NEW f \in Files, PickModel(f) PROVE TamePanels'
  BY <1>2, <1>3, <1>5, TameSelects, TameEnds DEF PickModel, Ready
<1>6. ASSUME NEW f \in Files, PickChar(f) PROVE TamePanels'
  BY <1>2, <1>3, <1>6, TameChars, TameEnds DEF PickChar, Ready
<1>7. ASSUME NEW f \in Files, PickEntry(f) PROVE TamePanels'
  BY <1>2, <1>3, <1>7, TameEntries, TameEnds DEF PickEntry, Ready
<1>8. ASSUME NEW f \in Files, Import(f) PROVE TamePanels'
  BY <1>2, <1>3, <1>8, TameImports, TameEnds DEF Import, Ready
<1>9. ASSUME NEW f \in Files, PickMount(f) PROVE TamePanels'
  BY <1>2, <1>4, <1>9, TameMounts, TameEnds DEF PickMount, Ready
<1>10. ASSUME PickImage \/ PickWMO \/ PickNone PROVE TamePanels'
  BY <1>3, <1>10 DEF PickImage, PickWMO, PickNone
<1>11. CASE UNCHANGED pvars
  <2>1. Now' = Now
    BY <1>11 DEF pvars, owned, panels, flags, Now
  <2>2. TameInv(Now') /\ TameInv(Now)' = TameInv(Now')
    BY <1>2, <2>1
  <2> QED
    BY <2>2 DEF TamePanels
<1> QED
  BY <1>3, <1>5, <1>6, <1>7, <1>8, <1>9, <1>10, <1>11 DEF Next, Known

LEMMA TameSafe == Spec => []TamePanels
  BY TameInit, TameStep, PTL DEF Spec

LEMMA TameShown == TamePanels => NoFault /\ PanelsAlive /\ EditsShown
<1> SUFFICES ASSUME Tame, TameInv(Now)
             PROVE  fault = "none" /\ PanelsAlive /\ EditsShown
  BY DEF TamePanels, NoFault, PanelsAlive, EditsShown
<1>1. /\ Now.heap = heap /\ Now.canvas = canvas /\ Now.child = child
      /\ Now.charModel = charModel /\ Now.cdModel = cdModel /\ Now.selModel = selModel
      /\ Now.mcModel = mcModel /\ Now.list = list /\ Now.cdOn = cdOn /\ Now.fault = fault
      /\ Now.root = root
  BY DEF Now
<1>2. Objs = Live(Now) \cup {Null}
  BY DEF Objs
<1> HIDE DEF Now
<1> QED
  BY <1>1, <1>2 DEF TameInv, Blank, Displays, PanelsAlive, EditsShown

(* Whatever models are picked, by file or by database entry, imported and
   mounted, in any order, no handler of the canvas or of a panel follows a null
   or a deleted pointer, as long as every file loads and nothing else is done. *)
THEOREM Unharmed == Spec => []NoFault
  BY TameSafe, TameShown, PTL

(* In such a scene the character panel, the animation panel and the model panel
   never keep a deleted model from one handler to the next, nor the
   customization frame while its controls are enabled. *)
THEOREM Alive == Spec => []PanelsAlive
  BY TameSafe, TameShown, PTL

(* In such a scene the character panel edits the displayed character or, when it
   is mounted, the rider below the mount. *)
THEOREM Shown == Spec => []EditsShown
  BY TameSafe, TameShown, PTL
=============================================================================
