--------------------------- MODULE EquipmentProofs ---------------------------
(***************************************************************************)
(* Proofs about Equipment.  A handler's operations are taken apart into    *)
(* the few that make, free, name or forget an object; each keeps an        *)
(* invariant of the objects (Sound), and in parallel one of what is worn   *)
(* (Clad).  The loops go by the lemmas of LoopLemmas.                      *)
(***************************************************************************)
EXTENDS Equipment, LoopLemmas, FiniteSetTheorems

(***************************************************************************)
(* The tables.                                                             *)
(***************************************************************************)
RowLooks(i) == {Rows[i][j][2] : j \in DOMAIN Rows[i]}

(* The files of looks and of the customization are numbers and kept apart. *)
LEMMA FileTypes ==
  /\ \A l \in Looks : \A j \in DOMAIN ModelsOf[l] : ModelsOf[l][j] \in Files
  /\ \A l \in Looks : MergedOf[l] # NoFile => MergedOf[l] \in Files \ CustomFiles
  /\ CustomFiles \subseteq Files /\ Files \subseteq Nat /\ Null \notin Objects
<1>1. \A l \in Looks : \A j \in DOMAIN ModelsOf[l] : ModelsOf[l][j] \in Range(ModelsOf[l])
  BY DEF Range
<1>2. \A l \in Looks : Range(ModelsOf[l]) \subseteq Nat
  BY LooksAssumption DEF Range
<1>3. CustomFiles \subseteq Nat
  BY FilesAssumption DEF CustomFiles, Range
<1>4. \A l \in Looks : MergedOf[l] # NoFile => MergedOf[l] \in Nat \ CustomFiles
  BY LooksAssumption
<1>5. Files \subseteq Nat
  BY <1>2, <1>3, <1>4 DEF Files
<1>6. Null \notin Objects
  <2>1. Objects \subseteq Nat \X Nat
    BY <1>5 DEF Objects
  <2> QED
    BY <2>1, FilesAssumption
<1> QED
  BY <1>1, <1>4, <1>5, <1>6 DEF Files

(* The rows of an item are a list of looks with modifiers. *)
LEMMA RowList ==
  ASSUME NEW i \in Items
  PROVE  /\ Len(Rows[i]) \in Nat \ {0} /\ DOMAIN Rows[i] = 1..Len(Rows[i])
         /\ \A j \in 1..Len(Rows[i]) : Rows[i][j][2] \in Looks /\ Rows[i][j][1] \in Modifiers
<1>1. Rows[i] \in Seq(Nat \X Looks) /\ Rows[i] # <<>>
  BY ItemsAssumption
<1>2. \A j \in 1..Len(Rows[i]) : Rows[i][j] \in Nat \X Looks /\ Rows[i][j] \in Range(Rows[i])
  BY <1>1 DEF Range
<1>3. \A j \in 1..Len(Rows[i]) : Rows[i][j][1] \in Modifiers
  BY <1>2 DEF Modifiers
<1> QED
  BY <1>1, <1>2, <1>3

(* A look joins a list unless it is there. *)
LEMMA Added ==
  ASSUME NEW q \in Seq(Looks), NEW l \in Looks
  PROVE  LET t == IF l \in Range(q) THEN q ELSE Append(q, l)
         IN  t \in Seq(Looks) /\ Range(t) = Range(q) \cup {l}
<1>1. CASE l \in Range(q)
  BY <1>1
<1>2. CASE l \notin Range(q)
  <2>1. Append(q, l) \in Seq(Looks)
    OBVIOUS
  <2>2. DOMAIN Append(q, l) = 1..(Len(q) + 1) /\ Append(q, l)[Len(q) + 1] = l
        /\ \A j \in 1..Len(q) : Append(q, l)[j] = q[j]
    OBVIOUS
  <2>3. Range(Append(q, l)) = Range(q) \cup {l}
    BY <2>2 DEF Range
  <2> QED
    BY <1>2, <2>1, <2>3
<1> QED
  BY <1>1, <1>2

(* The passes of setId over the rows. *)
LevelPass(k) == [i \in 1..Len(Rows[k]) |-> [t \in Seq(Looks) |-> AddLevel(t, Rows[k][i])]]

(* The levels are what the passes over the rows end with. *)
LEMMA LevelLoop ==
  ASSUME NEW k \in Items
  PROVE  Ran(Loop(AddLevel, <<>>, Rows[k]), Len(Rows[k]), Seq(Looks), <<>>, LevelPass(k))
<1> DEFINE n == Len(Rows[k])
           D(f) == [i \in 0..Len(Rows[k]) |->
                       IF i = 0 THEN <<>>
                       ELSE CHOOSE t \in {AddLevel(u, Rows[k][i]) : u \in {f[i - 1]}} : TRUE]
           g == CHOOSE f : f = D(f)
<1>0. <<>> \in Seq(Looks)
  OBVIOUS
<1>1. n \in Nat
  BY RowList
<1>2. LevelPass(k) \in [1..n -> [Seq(Looks) -> Seq(Looks)]]
  <2>1. \A i \in 1..n : \A t \in Seq(Looks) : AddLevel(t, Rows[k][i]) \in Seq(Looks)
    BY RowList, Added DEF AddLevel
  <2> QED
    BY <2>1 DEF LevelPass
<1>3. \A i \in 1..n : \A t \in Seq(Looks) : LevelPass(k)[i][t] = AddLevel(t, Rows[k][i])
  BY DEF LevelPass
<1>4. ASSUME NEW f, NEW i \in 1..n PROVE D(f)[i] = AddLevel(f[i - 1], Rows[k][i])
  OBVIOUS
<1>5. ASSUME NEW f PROVE D(f)[0] = <<>> /\ D(f) = [i \in 0..n |-> D(f)[i]]
  BY <1>1
<1>6. Loop(AddLevel, <<>>, Rows[k]) = g[n]
  BY DEF Loop
<1>7. PICK r : Run(r, n, Seq(Looks), <<>>, LevelPass(k))
  <2> HIDE DEF n, D
  <2> QED
    BY ONLY <1>0, <1>1, <1>2, Recursion
<1>8. r = D(r)
  <2>1. ASSUME NEW i \in 0..n PROVE r[i] = D(r)[i]
    <3>1. CASE i = 0
      BY <1>5, <1>7, <3>1 DEF Run
    <3>2. CASE i # 0
      <4>1. i \in 1..n /\ i - 1 \in 0..n
        BY <1>1, <3>2
      <4>2. r[i - 1] \in Seq(Looks) /\ r[i] = LevelPass(k)[i][r[i - 1]]
        BY <1>7, <4>1 DEF Run
      <4>3. r[i] = AddLevel(r[i - 1], Rows[k][i])
        BY <1>3, <4>1, <4>2
      <4> QED
        BY <1>4, <4>1, <4>3
    <3> QED
      BY <3>1, <3>2
  <2>2. D(r) = [i \in 0..n |-> D(r)[i]]
    BY <1>5
  <2> HIDE DEF D, n
  <2>3. r = [i \in 0..n |-> r[i]]
    BY <1>7 DEF Run
  <2> QED
    BY <2>1, <2>2, <2>3
<1>9. g = D(g)
  <2> HIDE DEF D
  <2> QED
    BY <1>8
<1>10. /\ g = [i \in 0..n |-> g[i]] /\ g[0] = <<>>
       /\ \A i \in 1..n : g[i] = AddLevel(g[i - 1], Rows[k][i])
  <2>1. D(g)[0] = <<>> /\ D(g) = [i \in 0..n |-> D(g)[i]]
    BY <1>5
  <2> HIDE DEF D, g
  <2> QED
    BY <1>4, <1>9, <2>1
<1> HIDE DEF g, D, n
<1>11. Run(g, n, Seq(Looks), <<>>, LevelPass(k))
  <2>1. \A i \in 1..n : g[i - 1] \in Seq(Looks) => g[i] = LevelPass(k)[i][g[i - 1]]
    BY <1>3, <1>10
  <2> QED
    BY ONLY <1>0, <1>1, <1>2, <1>10, <2>1, IsRun
<1> QED
  BY <1>6, <1>11 DEF Ran, n

(* levelDisplayMap_ has every look of the rows. *)
LEMMA Levels ==
  ASSUME NEW i \in Items
  PROVE  /\ LevelsOf[i] \in Seq(Looks) /\ LevelsOf[i] # <<>>
         /\ Range(LevelsOf[i]) = RowLooks(i)
<1> DEFINE n == Len(Rows[i])
           P == [m \in 0..n |-> {q \in Seq(Looks) : Range(q) = {Rows[i][j][2] : j \in 1..m}}]
           x == Loop(AddLevel, <<>>, Rows[i])
<1>1. n \in Nat \ {0} /\ DOMAIN Rows[i] = 1..n
      /\ \A j \in 1..n : Rows[i][j][2] \in Looks
  BY RowList
<1>2. <<>> \in P[0]
  <2>1. Range(<<>>) = {}
    BY DEF Range
  <2> QED
    BY <1>1, <2>1
<1>3. ASSUME NEW m \in 1..n, NEW t \in Seq(Looks), t \in P[m - 1]
      PROVE  LevelPass(i)[m][t] \in P[m]
  <2>1. m - 1 \in 0..n /\ m \in 0..n
    BY <1>1
  <2>2. Range(t) = {Rows[i][j][2] : j \in 1..(m - 1)}
    BY <1>3, <2>1
  <2>3. LevelPass(i)[m][t] = AddLevel(t, Rows[i][m])
    BY DEF LevelPass
  <2>4. AddLevel(t, Rows[i][m]) \in Seq(Looks)
        /\ Range(AddLevel(t, Rows[i][m])) = Range(t) \cup {Rows[i][m][2]}
    BY <1>1, Added DEF AddLevel
  <2>5. {Rows[i][j][2] : j \in 1..m} = {Rows[i][j][2] : j \in 1..(m - 1)} \cup {Rows[i][m][2]}
    <3>1. 1..m = (1..(m - 1)) \cup {m}
      BY <1>1
    <3> QED
      BY <3>1
  <2> QED
    BY <2>1, <2>2, <2>3, <2>4, <2>5
<1>4. Ran(x, n, Seq(Looks), <<>>, LevelPass(i))
  BY LevelLoop
<1>5. x \in Seq(Looks) /\ x \in P[n]
  <2>1. \A m \in 1..n : \A t \in Seq(Looks) : t \in P[m - 1] => LevelPass(i)[m][t] \in P[m]
    BY <1>3
  <2>2. n \in Nat
    BY <1>1
  <2> HIDE DEF P, n, x
  <2> QED
    BY <1>2, <1>4, <2>1, <2>2, Along
<1>6. LevelsOf[i] = x
  BY DEF LevelsOf
<1>7. Range(x) = RowLooks(i)
  BY <1>1, <1>5 DEF RowLooks
<1>8. RowLooks(i) # {}
  <2>1. 1 \in DOMAIN Rows[i]
    BY <1>1
  <2> QED
    BY <2>1 DEF RowLooks
<1>9. x # <<>>
  BY <1>7, <1>8 DEF Range
<1> QED
  BY <1>5, <1>6, <1>7, <1>9

(* A modifier of an item stands for one of its looks, and each look has one. *)
LEMMA Modified ==
  ASSUME NEW i \in Items
  PROVE  \A m \in Modifiers : ModsOf[i][m] \in Range(LevelsOf[i]) \cup {NoLook}
<1> TAKE m \in Modifiers
<1> DEFINE with == {j \in DOMAIN Rows[i] : Rows[i][j][1] = m}
           last == CHOOSE j \in with : \A h \in with : h <= j
<1>1. ModsOf[i][m] = IF with = {} THEN NoLook ELSE Rows[i][last][2]
  BY DEF ModsOf
<1>2. CASE with = {}
  BY <1>1, <1>2
<1>3. CASE with # {}
  <2>1. \E j \in with : \A h \in with : h <= j
    <3> DEFINE n == Len(Rows[i])
               mirror == {n - j : j \in with}
    <3>1. n \in Nat /\ with \subseteq 1..n
      BY RowList
    <3>2. mirror \in SUBSET Nat /\ mirror # {}
      <4>1. \A j \in with : j \in Int /\ n - j \in Nat
        BY <3>1
      <4> HIDE DEF with, n
      <4> QED
        BY <1>3, <4>1
    <3>3. PICK a \in mirror : \A b \in mirror : a <= b
      <4> HIDE DEF mirror
      <4> QED
        BY <3>2, Least
    <3>4. PICK j \in with : a = n - j
      OBVIOUS
    <3>5. \A h \in with : n - h \in mirror
      OBVIOUS
    <3>6. \A h \in with : h <= j
      <4>1. n \in Nat /\ j \in Nat /\ \A h \in with : h \in Nat
        BY <3>1
      <4> HIDE DEF mirror, with, n
      <4>2. ASSUME NEW h \in with PROVE h <= j
        <5>1. n - j <= n - h
          BY <3>3, <3>4, <3>5
        <5> QED
          BY <4>1, <5>1
      <4> QED
        BY <4>2
    <3> QED
      BY <3>6
  <2>2. last \in with
    BY <2>1
  <2>3. Rows[i][last][2] \in RowLooks(i)
    BY <2>2 DEF RowLooks
  <2> QED
    BY <1>1, <1>3, <2>3, Levels
<1> QED
  BY <1>2, <1>3

(***************************************************************************)
(* The children of the attachment.                                         *)
(***************************************************************************)
Atts == [slot : Slots, model : Objects \cup {Null}]

(* An attachment of a slot is one of the first of those of the slot, if another
   one names the same model, and there are at most three. *)
FirstTwice(att) ==
  \A i, j \in DOMAIN att :
     i < j /\ att[i].slot = att[j].slot /\ att[i].model = att[j].model /\ att[i].model # Null =>
        \A h \in 1..(i - 1) : att[h].slot # att[i].slot
Few(att) == \A a, b, c, d \in DOMAIN att : a < b /\ b < c /\ c < d =>
               ~(att[a].slot = att[b].slot /\ att[b].slot = att[c].slot /\ att[c].slot = att[d].slot)
Tidy(att) == att \in Seq(Atts) /\ FirstTwice(att) /\ Few(att)

(* Of the first n attachments delSlot leaves those at the places at, in their
   order: all of other slots, and of slot k some that follow an erased one. *)
Survive(at, att, k, n) ==
  /\ at \in Seq(1..n)
  /\ \A p, q \in DOMAIN at : p < q => at[p] < at[q]
  /\ \A i \in 1..n : att[i].slot # k => i \in Range(at)
  /\ \A i \in Range(at) : att[i].slot = k => i > 1 /\ att[i - 1].slot = k /\ i - 1 \notin Range(at)

(* A sequence and one more element. *)
LEMMA Appended ==
  ASSUME NEW S, NEW q \in Seq(S), NEW x \in S
  PROVE  /\ Append(q, x) \in Seq(S) /\ Len(q) \in Nat
         /\ DOMAIN q = 1..Len(q) /\ DOMAIN Append(q, x) = 1..(Len(q) + 1)
         /\ Append(q, x)[Len(q) + 1] = x /\ \A j \in 1..Len(q) : Append(q, x)[j] = q[j]
         /\ Range(Append(q, x)) = Range(q) \cup {x}
<1>1. /\ Append(q, x) \in Seq(S) /\ Len(q) \in Nat
      /\ DOMAIN q = 1..Len(q) /\ DOMAIN Append(q, x) = 1..(Len(q) + 1)
      /\ Append(q, x)[Len(q) + 1] = x /\ \A j \in 1..Len(q) : Append(q, x)[j] = q[j]
  OBVIOUS
<1>2. Range(Append(q, x)) = Range(q) \cup {x}
  BY <1>1 DEF Range
<1> QED
  BY <1>1, <1>2

(* Places among the first m are among the first n. *)
LEMMA Wider == ASSUME NEW n \in Nat, NEW m \in Nat, m <= n, NEW q \in Seq(1..m) PROVE q \in Seq(1..n)
<1>1. 1..m \subseteq 1..n
  OBVIOUS

<1>2. \A i \in 1..Len(q) : q[i] \in 1..n
  BY <1>1
<1> QED
  BY <1>2

(* One more attachment is looked at. *)
LEMMA Looked ==
  ASSUME NEW att, NEW k, NEW n \in Nat \ {0}, NEW at, Survive(at, att, k, n - 1)
  PROVE  Survive(LookAt(at, n, att, k), att, k, n)
<1>1. /\ at \in Seq(1..(n - 1)) /\ Len(at) \in Nat /\ DOMAIN at = 1..Len(at)
      /\ \A p \in DOMAIN at : at[p] \in 1..(n - 1) /\ at[p] \in Range(at)
      /\ \A i \in Range(at) : i \in 1..(n - 1)
  BY DEF Survive, Range
<1>2. at \in Seq(1..n)
  BY <1>1, Wider
<1>3. CASE att[n].slot = k /\ (n = 1 \/ n - 1 \in Range(at))
  <2>1. LookAt(at, n, att, k) = at
    BY <1>3 DEF LookAt
  <2>2. \A i \in 1..n : att[i].slot # k => i \in 1..(n - 1)
    BY <1>3
  <2>3. \A i \in 1..n : att[i].slot # k => i \in Range(at)
    BY <2>2 DEF Survive
  <2> QED
    BY <1>2, <2>1, <2>3 DEF Survive
<1>4. CASE ~(att[n].slot = k /\ (n = 1 \/ n - 1 \in Range(at)))
  <2> DEFINE u == Append(at, n)
  <2>1. LookAt(at, n, att, k) = u
    BY <1>4 DEF LookAt
  <2>2. /\ u \in Seq(1..n) /\ DOMAIN u = 1..(Len(at) + 1) /\ u[Len(at) + 1] = n
        /\ \A j \in 1..Len(at) : u[j] = at[j]
        /\ Range(u) = Range(at) \cup {n}
    BY <1>2, Appended
  <2> HIDE DEF u
  <2>3. \A p, q \in DOMAIN u : p < q => u[p] < u[q]
    <3> SUFFICES ASSUME NEW p \in DOMAIN u, NEW q \in DOMAIN u, p < q PROVE u[p] < u[q]
      OBVIOUS
    <3>1. p \in 1..Len(at) /\ (q \in 1..Len(at) \/ q = Len(at) + 1)
      BY <1>1, <2>2
    <3> QED
      BY <1>1, <2>2, <3>1 DEF Survive
  <2>4. \A i \in 1..n : att[i].slot # k => i \in Range(u)
    <3>1. \A i \in 1..n : i = n \/ i \in 1..(n - 1)
      OBVIOUS
    <3> QED
      BY <2>2, <3>1 DEF Survive
  <2>5. ASSUME NEW i \in Range(u), att[i].slot = k
        PROVE  i > 1 /\ att[i - 1].slot = k /\ i - 1 \notin Range(u)
    <3>1. CASE i = n
      <4>1. n # 1 /\ n - 1 \notin Range(at) /\ n - 1 \in 1..(n - 1)
        BY <1>4, <2>5, <3>1
      <4>2. att[n - 1].slot = k
        BY <4>1 DEF Survive
      <4> QED
        BY <2>2, <3>1, <4>1, <4>2
    <3>2. CASE i \in Range(at)
      <4>1. i > 1 /\ att[i - 1].slot = k /\ i - 1 \notin Range(at) /\ i \in 1..(n - 1)
        BY <1>1, <2>5, <3>2 DEF Survive
      <4> QED
        BY <2>2, <4>1
    <3> QED
      BY <2>2, <3>1, <3>2
  <2> QED
    BY <2>1, <2>2, <2>3, <2>4, <2>5 DEF Survive
<1> QED
  BY <1>3, <1>4

(* The loop of delSlot goes over the places. *)
Places(att) == [i \in DOMAIN att |-> i]

(* Each place is its own number. *)
LEMMA PlaceList ==
  ASSUME NEW att \in Seq(Atts)
  PROVE  /\ Len(Places(att)) \in Nat /\ Len(Places(att)) = Len(att) /\ DOMAIN att = 1..Len(att)
         /\ \A i \in 1..Len(Places(att)) : Places(att)[i] \in Nat /\ Places(att)[i] = i
<1>1. Len(att) \in Nat /\ DOMAIN att = 1..Len(att)
  OBVIOUS
<1>2. Places(att) \in Seq(Nat)
  BY <1>1 DEF Places
<1>3. DOMAIN Places(att) = 1..Len(att)
  BY <1>1 DEF Places
<1>4. Len(Places(att)) = Len(att)
  BY <1>1, <1>2, <1>3
<1> QED
  BY <1>1, <1>4 DEF Places

SlotPass(att, k) == [i \in 1..Len(Places(att)) |-> [t \in Seq(Nat) |-> LookAt(t, Places(att)[i], att, k)]]

(* What stays is what the passes over the places end with. *)
LEMMA SlotLoop ==
  ASSUME NEW att \in Seq(Atts), NEW k
  PROVE  Ran(Loop(LAMBDA a, i : LookAt(a, i, att, k), <<>>, Places(att)), Len(Places(att)), Seq(Nat), <<>>, SlotPass(att, k))
<1> DEFINE n == Len(Places(att))
           D(f) == [i \in 0..Len(Places(att)) |->
                       IF i = 0 THEN <<>>
                       ELSE CHOOSE t \in {LookAt(u, Places(att)[i], att, k) : u \in {f[i - 1]}} : TRUE]
           g == CHOOSE f : f = D(f)
<1>0. <<>> \in Seq(Nat)
  OBVIOUS
<1>1. n \in Nat
  BY PlaceList
<1>2. SlotPass(att, k) \in [1..n -> [Seq(Nat) -> Seq(Nat)]]
  <2>1. \A i \in 1..n : \A t \in Seq(Nat) : LookAt(t, Places(att)[i], att, k) \in Seq(Nat)
    BY PlaceList DEF LookAt
  <2> QED
    BY <2>1 DEF SlotPass
<1>3. \A i \in 1..n : \A t \in Seq(Nat) : SlotPass(att, k)[i][t] = LookAt(t, Places(att)[i], att, k)
  BY DEF SlotPass
<1>4. ASSUME NEW f, NEW i \in 1..n PROVE D(f)[i] = LookAt(f[i - 1], Places(att)[i], att, k)
  OBVIOUS
<1>5. ASSUME NEW f PROVE D(f)[0] = <<>> /\ D(f) = [i \in 0..n |-> D(f)[i]]
  BY <1>1
<1>6. Loop(LAMBDA a, i : LookAt(a, i, att, k), <<>>, Places(att)) = g[n]
  BY DEF Loop
<1>7. PICK r : Run(r, n, Seq(Nat), <<>>, SlotPass(att, k))
  <2> HIDE DEF n, D
  <2> QED
    BY ONLY <1>0, <1>1, <1>2, Recursion
<1>8. r = D(r)
  <2>1. ASSUME NEW i \in 0..n PROVE r[i] = D(r)[i]
    <3>1. CASE i = 0
      BY <1>5, <1>7, <3>1 DEF Run
    <3>2. CASE i # 0
      <4>1. i \in 1..n /\ i - 1 \in 0..n
        BY <1>1, <3>2
      <4>2. r[i - 1] \in Seq(Nat) /\ r[i] = SlotPass(att, k)[i][r[i - 1]]
        BY <1>7, <4>1 DEF Run
      <4>3. r[i] = LookAt(r[i - 1], Places(att)[i], att, k)
        BY <1>3, <4>1, <4>2
      <4> QED
        BY <1>4, <4>1, <4>3
    <3> QED
      BY <3>1, <3>2
  <2>2. D(r) = [i \in 0..n |-> D(r)[i]]
    BY <1>5
  <2> HIDE DEF D, n
  <2>3. r = [i \in 0..n |-> r[i]]
    BY <1>7 DEF Run
  <2> QED
    BY <2>1, <2>2, <2>3
<1>9. g = D(g)
  <2> HIDE DEF D
  <2> QED
    BY <1>8
<1>10. /\ g = [i \in 0..n |-> g[i]] /\ g[0] = <<>>
       /\ \A i \in 1..n : g[i] = LookAt(g[i - 1], Places(att)[i], att, k)
  <2>1. D(g)[0] = <<>> /\ D(g) = [i \in 0..n |-> D(g)[i]]
    BY <1>5
  <2> HIDE DEF D, g
  <2> QED
    BY <1>4, <1>9, <2>1
<1> HIDE DEF g, D, n
<1>11. Run(g, n, Seq(Nat), <<>>, SlotPass(att, k))
  <2>1. \A i \in 1..n : g[i - 1] \in Seq(Nat) => g[i] = SlotPass(att, k)[i][g[i - 1]]
    BY <1>3, <1>10
  <2> QED
    BY ONLY <1>0, <1>1, <1>2, <1>10, <2>1, IsRun
<1> QED
  BY <1>6, <1>11 DEF Ran, n

(* delSlot leaves a list of the old attachments. *)
LEMMA Survivors ==
  ASSUME NEW att \in Seq(Atts), NEW k
  PROVE  \E at : Survive(at, att, k, Len(att)) /\ delSlot(att, k) = [p \in DOMAIN at |-> att[at[p]]]
<1> DEFINE n == Len(Places(att))
           P == [m \in 0..n |-> {at \in Seq(Nat) : Survive(at, att, k, m)}]
           x == Loop(LAMBDA a, i : LookAt(a, i, att, k), <<>>, Places(att))
<1>1. n \in Nat /\ n = Len(att) /\ \A i \in 1..n : Places(att)[i] = i
  BY PlaceList
<1>2. <<>> \in P[0]
  <2>1. Survive(<<>>, att, k, 0)
    BY DEF Survive, Range
  <2> QED
    BY <1>1, <2>1
<1>3. ASSUME NEW m \in 1..n, NEW t \in Seq(Nat), t \in P[m - 1]
      PROVE  SlotPass(att, k)[m][t] \in P[m]
  <2>1. m - 1 \in 0..n /\ m \in 0..n /\ m \in Nat \ {0}
    BY <1>1
  <2>2. Survive(t, att, k, m - 1)
    BY <1>3, <2>1
  <2>3. SlotPass(att, k)[m][t] = LookAt(t, m, att, k)
    BY <1>1 DEF SlotPass
  <2>4. Survive(LookAt(t, m, att, k), att, k, m)
    BY <2>1, <2>2, Looked
  <2>5. LookAt(t, m, att, k) \in Seq(Nat)
    BY <2>1 DEF LookAt
  <2> QED
    BY <2>1, <2>3, <2>4, <2>5
<1>4. Ran(x, n, Seq(Nat), <<>>, SlotPass(att, k))
  BY SlotLoop
<1>5. x \in P[n]
  <2>1. \A m \in 1..n : \A t \in Seq(Nat) : t \in P[m - 1] => SlotPass(att, k)[m][t] \in P[m]
    BY <1>3
  <2> HIDE DEF P, n, x
  <2> QED
    BY ONLY <1>1, <1>2, <1>4, <2>1, Along
<1>6. Survive(x, att, k, Len(att))
  <2>1. n \in 0..n
    BY <1>1
  <2> QED
    BY <1>1, <1>5, <2>1
<1>7. delSlot(att, k) = [p \in DOMAIN x |-> att[x[p]]]
  BY DEF delSlot, Places
<1> QED
  BY <1>6, <1>7

(* What is left is in the old order, and of slot k at most one attachment, which
   was not the first. *)
LEMMA SlotGone ==
  ASSUME NEW att, Tidy(att), NEW k
  PROVE  LET u == delSlot(att, k)
         IN  /\ Tidy(u) /\ Range(u) \subseteq Range(att)
             /\ \A a \in Range(att) : a.slot # k => a \in Range(u)
             /\ \A p, q \in DOMAIN u : u[p].slot = k /\ u[q].slot = k => p = q
             /\ \A p \in DOMAIN u : u[p].slot = k =>
                   \E h, i \in DOMAIN att : h < i /\ att[h].slot = k /\ u[p] = att[i]
<1> DEFINE u == delSlot(att, k)
<1>1. att \in Seq(Atts) /\ Len(att) \in Nat /\ DOMAIN att = 1..Len(att)
  BY DEF Tidy
<1>2. PICK at : Survive(at, att, k, Len(att)) /\ u = [p \in DOMAIN at |-> att[at[p]]]
  BY <1>1, Survivors
<1> HIDE DEF u
<1>3. /\ at \in Seq(1..Len(att)) /\ Len(at) \in Nat /\ DOMAIN at = 1..Len(at) /\ DOMAIN u = DOMAIN at
      /\ \A p \in DOMAIN at : at[p] \in DOMAIN att /\ at[p] \in Range(at) /\ u[p] = att[at[p]]
  BY <1>1, <1>2 DEF Survive, Range
<1>4. \A p, q \in DOMAIN u : p < q => at[p] < at[q]
  BY <1>2, <1>3 DEF Survive
<1>5. u \in Seq(Atts)
  <2>1. \A p \in 1..Len(at) : u[p] \in Atts
    BY <1>1, <1>3
  <2> QED
    BY <1>2, <1>3, <2>1
<1>6. Range(u) \subseteq Range(att)
  BY <1>3 DEF Range
<1>7. \A a \in Range(att) : a.slot # k => a \in Range(u)
  <2> SUFFICES ASSUME NEW i \in DOMAIN att, att[i].slot # k PROVE att[i] \in Range(u)
    BY DEF Range
  <2>1. i \in Range(at)
    BY <1>1, <1>2 DEF Survive
  <2>2. PICK p \in DOMAIN at : i = at[p]
    BY <2>1 DEF Range
  <2> QED
    BY <1>3, <2>2 DEF Range
<1>8. Few(u)
  <2> SUFFICES ASSUME NEW a \in DOMAIN u, NEW b \in DOMAIN u, NEW c \in DOMAIN u, NEW d \in DOMAIN u,
                      a < b, b < c, c < d,
                      u[a].slot = u[b].slot, u[b].slot = u[c].slot, u[c].slot = u[d].slot
               PROVE  FALSE
    BY DEF Few
  <2>1. at[a] < at[b] /\ at[b] < at[c] /\ at[c] < at[d]
    BY <1>4
  <2>2. /\ u[a] = att[at[a]] /\ u[b] = att[at[b]] /\ u[c] = att[at[c]] /\ u[d] = att[at[d]]
        /\ {at[a], at[b], at[c], at[d]} \subseteq DOMAIN att
    BY <1>3
  <2>3. Few(att)
    BY DEF Tidy
  <2> HIDE DEF u
  <2> QED
    BY <2>1, <2>2, <2>3 DEF Few
<1>9. FirstTwice(u)
  <2> SUFFICES ASSUME NEW i \in DOMAIN u, NEW j \in DOMAIN u, i < j, u[i].slot = u[j].slot,
                      u[i].model = u[j].model, u[i].model # Null, NEW h \in 1..(i - 1)
               PROVE  u[h].slot # u[i].slot
    BY DEF FirstTwice
  <2>1. h \in DOMAIN u /\ h < i
    BY <1>3
  <2>2. at[h] < at[i] /\ at[i] < at[j] /\ at[h] \in DOMAIN att /\ at[i] \in DOMAIN att /\ at[j] \in DOMAIN att
    BY <1>3, <1>4, <2>1
  <2>3. at[h] \in 1..(at[i] - 1)
    BY <1>1, <2>2
  <2> QED
    BY <1>3, <2>1, <2>2, <2>3 DEF Tidy, FirstTwice
<1>10. ASSUME NEW p \in DOMAIN u, u[p].slot = k
       PROVE  /\ at[p] - 1 \in DOMAIN att /\ at[p] \in DOMAIN att /\ at[p] \in Nat
              /\ att[at[p] - 1].slot = k /\ at[p] - 1 \notin Range(at)
  <2>1. at[p] > 1 /\ att[at[p] - 1].slot = k /\ at[p] - 1 \notin Range(at)
    BY <1>2, <1>3, <1>10 DEF Survive
  <2> QED
    BY <1>1, <1>3, <2>1
<1>11. ASSUME NEW p \in DOMAIN u, NEW q \in DOMAIN u, p < q, u[p].slot = k, u[q].slot = k PROVE FALSE
  <2>1. at[p] < at[q] /\ at[p] # at[q] - 1
    BY <1>3, <1>4, <1>10, <1>11
  <2>2. at[p] - 1 < at[p] /\ at[p] < at[q] - 1 /\ at[q] - 1 < at[q]
    BY <1>10, <1>11, <2>1
  <2>3. att[at[p]].slot = k /\ att[at[q]].slot = k
    BY <1>3, <1>11
  <2> QED
    BY <1>10, <1>11, <2>2, <2>3 DEF Tidy, Few
<1>12. \A p, q \in DOMAIN u : u[p].slot = k /\ u[q].slot = k => p = q
  BY <1>3, <1>11
<1>13. \A p \in DOMAIN u : u[p].slot = k =>
                   \E h, i \in DOMAIN att : h < i /\ att[h].slot = k /\ u[p] = att[i]
  <2> SUFFICES ASSUME NEW p \in DOMAIN u, u[p].slot = k
               PROVE  \E h, i \in DOMAIN att : h < i /\ att[h].slot = k /\ u[p] = att[i]
    OBVIOUS
  <2>1. at[p] - 1 < at[p]
    BY <1>10
  <2> QED
    BY <1>3, <1>10, <2>1
<1> QED
  BY <1>5, <1>6, <1>7, <1>8, <1>9, <1>12, <1>13 DEF Tidy, u

(***************************************************************************)
(* The objects.                                                            *)
(***************************************************************************)
WoWItems == [id : Items \cup {NoItem, NpcItem}, look : Looks \cup {NoLook}, level : Nat,
             levels : Seq(Looks), mods : [Modifiers -> Looks \cup {NoLook}],
             models : Seq(Objects), merged : Objects \cup {Null}]
(* All states, and what the slots, the merged models and the customization have. *)
States == [heap : SUBSET Objects, item : [Slots -> WoWItems], tree : Seq(Atts),
           merged : SUBSET Objects, cache : SUBSET Objects, custom : SUBSET CustomFiles]

Models(s, k) == Range(s.item[k].models)
Merges(s, k) == {s.item[k].merged} \ {Null}
Customs(s) == {o \in s.merged : o[1] \in CustomFiles}

(* What the slots, the set of merged models and the cache name is alive. *)
Alive(s) == /\ \A k \in Slots : Models(s, k) \subseteq s.heap /\ Merges(s, k) \subseteq s.heap
            /\ s.merged \subseteq s.heap /\ s.cache \subseteq s.heap

(* What is alive has an owner, ... *)
Owned(s) == \A o \in s.heap : \/ \E k \in Slots : o \in Models(s, k) \/ o \in Merges(s, k)
                              \/ o \in s.merged \/ o \in s.cache

(* ... and only one. *)
Apart(s) ==
  /\ \A k, l \in Slots : \A o : /\ k # l => /\ ~(o \in Models(s, k) /\ o \in Models(s, l))
                                            /\ ~(o \in Merges(s, k) /\ o \in Merges(s, l))
                                /\ ~(o \in Models(s, k) /\ o \in Merges(s, l))
  /\ \A k \in Slots : \A o \in Models(s, k) : o \notin s.merged /\ o \notin s.cache
  /\ \A k \in Slots : \A o \in Merges(s, k) : o \notin s.cache /\ o[1] \notin CustomFiles
  /\ \A o \in s.merged : /\ o \notin s.cache
                         /\ o[1] \notin CustomFiles => \E k \in Slots : o \in Merges(s, k)

(* The customization's models: one of each file is merged and one is cached. *)
Stocked(s) ==
  /\ \A o \in s.cache : o[1] \in CustomFiles /\ o[1] \notin BrokenFiles
  /\ \A o, p \in s.cache : o[1] = p[1] => o = p
  /\ \A o, p \in Customs(s) : o[1] = p[1] => o = p
  /\ Cardinality(s.cache) <= MaxCached

(* Attached are models of the items. *)
Distinct(s) == \A k \in Slots : \A i, j \in DOMAIN s.item[k].models :
                  s.item[k].models[i] = s.item[k].models[j] => i = j
Hung(s) == \A i \in DOMAIN s.tree : s.tree[i].model # Null => s.tree[i].model \in Models(s, s.tree[i].slot)

Sound(s) == /\ s \in States /\ IsFiniteSet(s.heap)
            /\ Alive(s) /\ Owned(s) /\ Apart(s) /\ Stocked(s)
            /\ Distinct(s) /\ Hung(s) /\ Tidy(s.tree)

(* The types of the parts of a state. *)
LEMMA Types ==
  ASSUME NEW s \in States
  PROVE  /\ s.heap \subseteq Objects /\ s.tree \in Seq(Atts) /\ s.merged \subseteq Objects
         /\ s.cache \subseteq Objects /\ s.custom \subseteq CustomFiles /\ s.item \in [Slots -> WoWItems]
         /\ DOMAIN s.tree = 1..Len(s.tree) /\ Len(s.tree) \in Nat
         /\ \A i \in DOMAIN s.tree : s.tree[i] \in Atts /\ s.tree[i].slot \in Slots /\ s.tree[i].model \in Objects \cup {Null}
         /\ \A k \in Slots : Models(s, k) \subseteq Objects /\ Merges(s, k) \subseteq Objects
<1>1. /\ s.heap \subseteq Objects /\ s.tree \in Seq(Atts) /\ s.merged \subseteq Objects
      /\ s.cache \subseteq Objects /\ s.custom \subseteq CustomFiles /\ s.item \in [Slots -> WoWItems]
  BY DEF States
<1>2. DOMAIN s.tree = 1..Len(s.tree) /\ Len(s.tree) \in Nat /\ \A i \in DOMAIN s.tree : s.tree[i] \in Atts
  BY <1>1
<1>3. \A a \in Atts : a.slot \in Slots /\ a.model \in Objects \cup {Null}
  BY DEF Atts
<1>4. ASSUME NEW k \in Slots PROVE Models(s, k) \subseteq Objects /\ Merges(s, k) \subseteq Objects
  <2>1. s.item[k].models \in Seq(Objects) /\ s.item[k].merged \in Objects \cup {Null}
    BY <1>1 DEF WoWItems
  <2> QED
    BY <2>1 DEF Models, Merges, Range
<1> QED
  BY <1>1, <1>2, <1>3, <1>4

(* Nothing names a deleted model. *)
LEMMA NamedAlive == ASSUME NEW s, Sound(s) PROVE Named(s) \subseteq s.heap
<1>1. /\ \A k \in Slots : Models(s, k) \subseteq s.heap /\ Merges(s, k) \subseteq s.heap
      /\ s.merged \subseteq s.heap /\ s.cache \subseteq s.heap
      /\ \A i \in DOMAIN s.tree : s.tree[i].slot \in Slots
  BY Types DEF Sound, Alive
<1>2. ItemModels(s) \subseteq s.heap
  BY <1>1 DEF ItemModels, Models
<1>3. ItemMerged(s) \subseteq s.heap
  BY <1>1 DEF ItemMerged, Merges
<1>4. Drawn(s) \subseteq s.heap
  BY <1>1 DEF Drawn, Sound, Hung
<1> QED
  BY <1>1, <1>2, <1>3, <1>4 DEF Named

(* There is always a number that no object of the file has. *)
LEMMA Fresh1 ==
  ASSUME NEW s, Sound(s), NEW f \in Files
  PROVE  LET o == NewObject(s, f) IN o \in Objects /\ o[1] = f /\ o \notin s.heap
<1> DEFINE mine == {p \in s.heap \cup Named(s) : p[1] = f}
           used == {o[2] : o \in mine}
           c == Cardinality(used)
           n == CHOOSE n \in 1 .. c + 1 : n \notin used
<1>1. NewObject(s, f) = <<f, n>>
  BY DEF NewObject
<1>2. mine = {p \in s.heap : p[1] = f}
  BY NamedAlive
<1>3. IsFiniteSet(mine)
  <2>1. IsFiniteSet(s.heap) /\ mine \in SUBSET s.heap
    BY <1>2 DEF Sound
  <2> QED
    BY <2>1, FS_Subset
<1>4. IsFiniteSet(used)
  <2> DEFINE g == [o \in mine |-> o[2]]
  <2>1. g \in Surjection(mine, used)
    BY DEF Surjection
  <2> HIDE DEF g, mine, used
  <2> QED
    BY <1>3, <2>1, FS_Surjection
<1>5. c \in Nat
  BY <1>4, FS_CardinalityType
<1>6. \E m \in 1 .. c + 1 : m \notin used
  <2> SUFFICES ASSUME 1 .. c + 1 \subseteq used PROVE FALSE
    OBVIOUS
  <2> HIDE DEF used
  <2>1. c + 1 \in Int /\ Cardinality(1..(c + 1)) <= Cardinality(used)
    BY <1>4, <1>5, FS_Subset
  <2>2. Cardinality(1..(c + 1)) = c + 1
    <3>1. Cardinality(1..(c + 1)) = IF 1 > c + 1 THEN 0 ELSE (c + 1) - 1 + 1
      BY <1>5, FS_Interval
    <3> HIDE DEF c
    <3> QED
      BY <1>5, <3>1
  <2> QED
    BY <1>5, <2>1, <2>2 DEF c
<1> HIDE DEF c
<1>7. n \in 1 .. c + 1 /\ n \notin used
  BY <1>6
<1>8. n \in Nat \ {0}
  BY <1>5, <1>7
<1> HIDE DEF n
<1>9. <<f, n>> \notin s.heap
  <2>1. <<f, n>>[2] = n /\ <<f, n>>[1] = f
    OBVIOUS
  <2> QED
    BY <1>2, <1>7, <2>1
<1> QED
  BY <1>1, <1>8, <1>9 DEF Objects

(* ~WoWModel: the last attachment that names a deleted model lets go of it. *)
LEMMA Deleted ==
  ASSUME NEW s \in States, NEW dead \in SUBSET Objects
  PROVE  LET t == Delete(s, dead)
         IN  /\ t \in States /\ t.heap = s.heap \ dead /\ t.item = s.item /\ t.merged = s.merged
             /\ t.cache = s.cache /\ t.custom = s.custom /\ DOMAIN t.tree = DOMAIN s.tree
             /\ \A i \in DOMAIN s.tree :
                   /\ t.tree[i].slot = s.tree[i].slot /\ t.tree[i].model \in {s.tree[i].model, Null}
                   /\ s.tree[i].model \notin dead => t.tree[i] = s.tree[i]
                   /\ t.tree[i].model \in dead =>
                         \E j \in DOMAIN s.tree : i < j /\ s.tree[j].model = s.tree[i].model
<1> DEFINE att == s.tree
           left(i) == att[i].model \in dead /\ \A j \in DOMAIN att : att[j].model = att[i].model => j <= i
           kids == [i \in DOMAIN att |-> [slot |-> att[i].slot,
                                          model |-> IF left(i) THEN Null ELSE att[i].model]]
           t == Delete(s, dead)
<1>1. t = [s EXCEPT !.heap = @ \ dead, !.tree = kids]
  BY DEF Delete
<1>2. /\ DOMAIN att = 1..Len(att) /\ Len(att) \in Nat
      /\ \A i \in DOMAIN att : att[i] \in Atts /\ att[i].slot \in Slots /\ att[i].model \in Objects \cup {Null}
  BY Types
<1>3. \A a \in Atts : a = [slot |-> a.slot, model |-> a.model]
  BY DEF Atts
<1>4. kids \in Seq(Atts)
  <2>1. \A i \in DOMAIN att : kids[i] \in Atts
    BY <1>2 DEF Atts
  <2>2. DOMAIN kids = 1..Len(att)
    BY <1>2
  <2>3. kids \in [1..Len(att) -> Atts]
    BY <2>1, <2>2
  <2> HIDE DEF kids
  <2> QED
    BY <1>2, <2>3
<1>5. \A i \in DOMAIN att :
         /\ kids[i].slot = att[i].slot /\ kids[i].model \in {att[i].model, Null}
         /\ att[i].model \notin dead => kids[i] = att[i]
  BY <1>2, <1>3
<1>6. ASSUME NEW i \in DOMAIN att, kids[i].model \in dead
      PROVE  \E j \in DOMAIN att : i < j /\ att[j].model = att[i].model
  <2>1. ~left(i) /\ att[i].model \in dead
    <3>1. Null \notin dead
      BY FileTypes
    <3> QED
      BY <1>6, <3>1
  <2>2. PICK j \in DOMAIN att : att[j].model = att[i].model /\ ~(j <= i)
    BY <2>1
  <2>3. i < j
    BY <1>2, <2>2
  <2> QED
    BY <2>2, <2>3
<1> HIDE DEF kids
<1>7. /\ t \in States /\ t.heap = s.heap \ dead /\ t.item = s.item /\ t.merged = s.merged
      /\ t.cache = s.cache /\ t.custom = s.custom /\ t.tree = kids
  BY <1>1, <1>4 DEF States
<1>8. DOMAIN kids = DOMAIN att
  BY DEF kids
<1> QED
  BY <1>5, <1>6, <1>7, <1>8

(* A model that is not drawn leaves no trace in the tree. *)
LEMMA DeletedUndrawn ==
  ASSUME NEW s \in States, NEW dead \in SUBSET Objects, \A i \in DOMAIN s.tree : s.tree[i].model \notin dead
  PROVE  Delete(s, dead).tree = s.tree
<1> DEFINE t == Delete(s, dead)
<1>1. t \in States /\ DOMAIN t.tree = DOMAIN s.tree /\ \A i \in DOMAIN s.tree : t.tree[i] = s.tree[i]
  BY Deleted
<1> HIDE DEF t
<1>2. t.tree \in Seq(Atts) /\ s.tree \in Seq(Atts)
  BY <1>1, Types
<1> QED
  BY <1>1, <1>2 DEF t

(* The attachments of a slot whose models are deleted and whose slot is deleted. *)
LEMMA TreeUnloaded ==
  ASSUME NEW s, Sound(s), NEW k \in Slots
  PROVE  LET u == delSlot(Delete(s, Models(s, k)).tree, k)
         IN  /\ Tidy(u)
             /\ \A a \in Range(u) : IF a.slot = k THEN a.model = Null ELSE a \in Range(s.tree)
             /\ \A a \in Range(s.tree) : a.slot # k => a \in Range(u)
<1> DEFINE dead == Models(s, k)
           t == Delete(s, dead)
           u == delSlot(t.tree, k)
<1>1. /\ s \in States /\ dead \in SUBSET Objects /\ Hung(s) /\ Tidy(s.tree) /\ Apart(s)
      /\ \A i \in DOMAIN s.tree : s.tree[i].slot \in Slots
  BY Types DEF Sound
<1>2. /\ t \in States /\ DOMAIN t.tree = DOMAIN s.tree
      /\ \A i \in DOMAIN s.tree :
                   /\ t.tree[i].slot = s.tree[i].slot /\ t.tree[i].model \in {s.tree[i].model, Null}
                   /\ s.tree[i].model \notin dead => t.tree[i] = s.tree[i]
                   /\ t.tree[i].model \in dead =>
                         \E j \in DOMAIN s.tree : i < j /\ s.tree[j].model = s.tree[i].model
  BY <1>1, Deleted
<1> HIDE DEF t
<1>3. t.tree \in Seq(Atts) /\ DOMAIN t.tree = 1..Len(t.tree) /\ Len(t.tree) \in Nat
  BY <1>2, Types
<1>4. \A i \in DOMAIN s.tree : s.tree[i].slot # k => t.tree[i] = s.tree[i]
  <2> SUFFICES ASSUME NEW i \in DOMAIN s.tree, s.tree[i].slot # k PROVE s.tree[i].model \notin dead
    BY <1>2
  <2>1. Null \notin dead
    BY <1>1, FileTypes
  <2> QED
    BY <1>1, <2>1 DEF Hung, Apart
<1>5. Tidy(t.tree)
  <2>1. Few(t.tree)
    BY <1>1, <1>2 DEF Tidy, Few
  <2>2. FirstTwice(t.tree)
    <3> SUFFICES ASSUME NEW i \in DOMAIN t.tree, NEW j \in DOMAIN t.tree, i < j, t.tree[i].slot = t.tree[j].slot,
                        t.tree[i].model = t.tree[j].model, t.tree[i].model # Null, NEW h \in 1..(i - 1)
                 PROVE  t.tree[h].slot # t.tree[i].slot
      BY DEF FirstTwice
    <3>1. s.tree[i].slot = s.tree[j].slot /\ s.tree[i].model = s.tree[j].model /\ s.tree[i].model # Null
      BY <1>2
    <3>2. h \in DOMAIN s.tree /\ s.tree[h].slot # s.tree[i].slot
      BY <1>1, <1>2, <1>3, <3>1 DEF Tidy, FirstTwice
    <3> QED
      BY <1>2, <3>2
  <2> QED
    BY <1>3, <2>1, <2>2 DEF Tidy
<1>6. /\ Tidy(u) /\ Range(u) \subseteq Range(t.tree)
      /\ \A a \in Range(t.tree) : a.slot # k => a \in Range(u)
      /\ \A p \in DOMAIN u : u[p].slot = k =>
                   \E h, i \in DOMAIN t.tree : h < i /\ t.tree[h].slot = k /\ u[p] = t.tree[i]
  BY <1>5, SlotGone
<1> HIDE DEF u
<1>7. ASSUME NEW p \in DOMAIN u, u[p].slot = k PROVE u[p].model = Null
  <2>1. PICK h \in DOMAIN t.tree, i \in DOMAIN t.tree : h < i /\ t.tree[h].slot = k /\ u[p] = t.tree[i]
    BY <1>6, <1>7
  <2> SUFFICES ASSUME t.tree[i].model # Null PROVE FALSE
    BY <2>1
  <2>2. s.tree[i].model = t.tree[i].model /\ s.tree[i].slot = k /\ s.tree[h].slot = k
    BY <1>2, <1>7, <2>1
  <2>3. t.tree[i].model \in dead
    BY <1>1, <1>2, <2>2 DEF Hung
  <2>4. PICK j \in DOMAIN s.tree : i < j /\ s.tree[j].model = s.tree[i].model
    BY <1>2, <2>3
  <2>5. s.tree[j].slot = k
    <3>1. s.tree[j].model \in Models(s, s.tree[j].slot) /\ s.tree[j].slot \in Slots
      BY <1>1, <2>2, <2>4 DEF Hung
    <3> QED
      BY <1>1, <2>2, <2>3, <2>4, <3>1 DEF Apart
  <2>6. h \in 1..(i - 1)
    BY <1>3, <2>1
  <2> QED
    BY <1>1, <1>2, <2>2, <2>4, <2>5, <2>6 DEF Tidy, FirstTwice
<1>8. \A a \in Range(u) : IF a.slot = k THEN a.model = Null ELSE a \in Range(s.tree)
  <2> SUFFICES ASSUME NEW p \in DOMAIN u
               PROVE  IF u[p].slot = k THEN u[p].model = Null ELSE u[p] \in Range(s.tree)
    BY DEF Range
  <2>1. PICK i \in DOMAIN t.tree : u[p] = t.tree[i]
    BY <1>6 DEF Range
  <2> QED
    BY <1>2, <1>4, <1>7, <2>1 DEF Range
<1>9. \A a \in Range(s.tree) : a.slot # k => a \in Range(t.tree)
  BY <1>2, <1>4 DEF Range
<1> QED
  BY <1>6, <1>8, <1>9 DEF u, t

(***************************************************************************)
(* WoWItem::unload and load.                                               *)
(***************************************************************************)
Bare(w) == [w EXCEPT !.models = <<>>, !.merged = Null]
(* The slot k of s is given w. *)
Puts(s, t, k, w) == t.item = [s.item EXCEPT ![k] = w]

(* WoWItem::unload, part by part. *)
LEMMA UnloadMakes ==
  ASSUME NEW s, Sound(s), NEW k \in Slots
  PROVE  LET t == unload(s, k)
         IN  /\ t \in States /\ t.heap = s.heap \ (Models(s, k) \cup Merges(s, k))
             /\ Puts(s, t, k, Bare(s.item[k])) /\ t.merged = s.merged \ Merges(s, k)
             /\ t.cache = s.cache /\ t.custom = s.custom
             /\ t.tree = delSlot(Delete(s, Models(s, k)).tree, k)
<1> DEFINE m == s.item[k].merged
           d == Delete(s, Models(s, k))
           u == delSlot(d.tree, k)
           e == [d EXCEPT !.item[k].models = <<>>, !.item[k].merged = Null, !.tree = u]
           t == unload(s, k)
<1>1. s \in States /\ Models(s, k) \in SUBSET Objects /\ m \in Objects \cup {Null} /\ s.item \in [Slots -> WoWItems]
      /\ s.item[k] \in WoWItems
  BY Types DEF Sound, States, WoWItems
<1>2. /\ d \in States /\ d.heap = s.heap \ Models(s, k) /\ d.item = s.item /\ d.merged = s.merged
      /\ d.cache = s.cache /\ d.custom = s.custom
  BY <1>1, Deleted
<1>3. t = IF m = Null THEN e ELSE dropMerged(e, m)
  BY DEF unload, Models
<1>4. /\ Tidy(u) /\ \A a \in Range(u) : IF a.slot = k THEN a.model = Null ELSE a \in Range(s.tree)
  BY TreeUnloaded
<1> HIDE DEF d, u, t
<1>5. [s.item EXCEPT ![k] = Bare(s.item[k])] \in [Slots -> WoWItems]
  <2>1. <<>> \in Seq(Objects)
    OBVIOUS
  <2>2. Bare(s.item[k]) \in WoWItems
    BY <1>1, <2>1 DEF Bare, WoWItems
  <2> QED
    BY <1>1, <2>2
<1>6. /\ e \in States /\ e.heap = d.heap /\ e.item = [s.item EXCEPT ![k] = Bare(s.item[k])] /\ e.merged = s.merged
      /\ e.cache = s.cache /\ e.custom = s.custom /\ e.tree = u
  <2>1. u \in Seq(Atts)
    BY <1>4 DEF Tidy
  <2>2. e = [d EXCEPT !.item = [s.item EXCEPT ![k] = Bare(s.item[k])], !.tree = u]
    BY <1>2, <1>1 DEF States, Bare
  <2> HIDE DEF e
  <2> QED
    BY <1>2, <1>5, <2>1, <2>2 DEF States
<1> HIDE DEF e
<1>7. CASE m = Null
  BY <1>2, <1>3, <1>6, <1>7 DEF Puts, Merges, t, u, d
<1>8. CASE m # Null
  <2> DEFINE v == [e EXCEPT !.merged = @ \ {m}]
  <2>1. /\ v \in States /\ v.heap = e.heap /\ v.item = e.item /\ v.merged = s.merged \ {m}
        /\ v.cache = e.cache /\ v.custom = e.custom /\ v.tree = e.tree
    BY <1>6 DEF States
  <2>2. t = Delete(v, {m})
    BY <1>3, <1>8 DEF dropMerged
  <2> HIDE DEF v
  <2>3. \A i \in DOMAIN v.tree : v.tree[i].model \notin {m}
    <3> SUFFICES ASSUME NEW i \in DOMAIN u, u[i].model = m PROVE FALSE
      BY <1>6, <2>1
    <3>1. u[i].slot # k /\ u[i] \in Range(s.tree)
      BY <1>4, <1>8 DEF Range
    <3>2. PICK j \in DOMAIN s.tree : u[i] = s.tree[j]
      BY <3>1 DEF Range
    <3>3. m \in Models(s, s.tree[j].slot) /\ s.tree[j].slot \in Slots
      BY <1>1, <1>8, <3>2, Types DEF Sound, Hung
    <3>4. m \in Merges(s, k)
      BY <1>8 DEF Merges
    <3> QED
      BY <3>3, <3>4 DEF Sound, Apart
  <2>4. {m} \in SUBSET Objects
    BY <1>1, <1>8
  <2>5. t.tree = v.tree
    BY <2>1, <2>2, <2>3, <2>4, DeletedUndrawn
  <2>6. /\ t \in States /\ t.heap = v.heap \ {m} /\ t.item = v.item /\ t.merged = v.merged
        /\ t.cache = v.cache /\ t.custom = v.custom
    BY <2>1, <2>2, <2>4, Deleted
  <2>7. Merges(s, k) = {m}
    BY <1>8 DEF Merges
  <2>8. t.heap = s.heap \ (Models(s, k) \cup Merges(s, k))
    BY <1>2, <1>6, <2>1, <2>6, <2>7
  <2>9. t.tree = u
    BY <1>6, <2>1, <2>5
  <2> QED
    BY <1>6, <2>1, <2>6, <2>7, <2>8, <2>9 DEF Puts, t, u, d
<1> QED
  BY <1>7, <1>8

(* A slot that was unloaded names nothing, the others what they did. *)
LEMMA BareNames ==
  ASSUME NEW s \in States, NEW t \in States, NEW k \in Slots, Puts(s, t, k, Bare(s.item[k]))
  PROVE  /\ Models(t, k) = {} /\ Merges(t, k) = {}
         /\ \A l \in Slots : l # k => Models(t, l) = Models(s, l) /\ Merges(t, l) = Merges(s, l)
         /\ t.item[k] = Bare(s.item[k]) /\ t.item[k].models = <<>> /\ t.item[k].merged = Null
         /\ \A l \in Slots : l # k => t.item[l] = s.item[l]
<1>1. s.item \in [Slots -> WoWItems]
  BY Types
<1>2. s.item[k] \in WoWItems /\ t.item[k] = Bare(s.item[k]) /\ \A l \in Slots : l # k => t.item[l] = s.item[l]
  BY <1>1 DEF Puts
<1>3. t.item[k].models = <<>> /\ t.item[k].merged = Null
  BY <1>2 DEF WoWItems, Bare
<1>4. Range(<<>>) = {}
  BY DEF Range
<1> QED
  BY <1>2, <1>3, <1>4 DEF Models, Merges

(* unload keeps the objects sound. *)
LEMMA Unloaded ==
  ASSUME NEW s, Sound(s), NEW k \in Slots
  PROVE  LET t == unload(s, k)
         IN  /\ Sound(t) /\ Puts(s, t, k, Bare(s.item[k]))
             /\ t.cache = s.cache /\ t.custom = s.custom /\ Customs(t) = Customs(s)
<1> DEFINE t == unload(s, k)
           u == delSlot(Delete(s, Models(s, k)).tree, k)
<1>1. /\ t \in States /\ t.heap = s.heap \ (Models(s, k) \cup Merges(s, k))
      /\ Puts(s, t, k, Bare(s.item[k])) /\ t.merged = s.merged \ Merges(s, k)
      /\ t.cache = s.cache /\ t.custom = s.custom /\ t.tree = u
  BY UnloadMakes
<1>2. /\ Tidy(u)
      /\ \A a \in Range(u) : IF a.slot = k THEN a.model = Null ELSE a \in Range(s.tree)
  BY TreeUnloaded
<1> HIDE DEF t, u
<1>3. /\ Models(t, k) = {} /\ Merges(t, k) = {}
      /\ \A l \in Slots : l # k => Models(t, l) = Models(s, l) /\ Merges(t, l) = Merges(s, l)
      /\ t.item[k].models = <<>> /\ \A l \in Slots : l # k => t.item[l] = s.item[l]
  <2>1. s \in States
    BY DEF Sound
  <2> QED
    BY <1>1, <2>1, BareNames
<1>4. Alive(t)
  BY <1>1, <1>3 DEF Sound, Alive, Apart
<1>5. Owned(t)
  <2> SUFFICES ASSUME NEW o \in t.heap PROVE \/ \E l \in Slots : o \in Models(t, l) \/ o \in Merges(t, l)
                                             \/ o \in t.merged \/ o \in t.cache
    BY DEF Owned
  <2>1. o \in s.heap /\ o \notin Models(s, k) /\ o \notin Merges(s, k)
    BY <1>1
  <2> QED
    BY <1>1, <1>3, <2>1 DEF Sound, Owned
<1>6. Apart(t)
  <2>1. /\ \A l \in Slots : Models(t, l) \subseteq Models(s, l) /\ Merges(t, l) \subseteq Merges(s, l)
        /\ t.merged \subseteq s.merged
    BY <1>1, <1>3
  <2>2. \A o \in t.merged : o[1] \notin CustomFiles => \E l \in Slots : o \in Merges(t, l)
    <3> SUFFICES ASSUME NEW o \in t.merged, o[1] \notin CustomFiles PROVE \E l \in Slots : o \in Merges(t, l)
      OBVIOUS
    <3>1. o \in s.merged /\ o \notin Merges(s, k)
      BY <1>1
    <3> QED
      BY <1>3, <3>1 DEF Sound, Apart
  <2> QED
    BY <1>1, <2>1, <2>2 DEF Sound, Apart
<1>7. Customs(t) = Customs(s)
  BY <1>1 DEF Customs, Sound, Apart
<1>8. Stocked(t)
  BY <1>1, <1>7 DEF Sound, Stocked
<1>9. Distinct(t)
  <2>1. \A i, j \in DOMAIN t.item[k].models : i = j
    BY <1>3
  <2> QED
    BY <1>3, <2>1 DEF Sound, Distinct
<1>10. Hung(t)
  <2> SUFFICES ASSUME NEW i \in DOMAIN u, u[i].model # Null PROVE u[i].model \in Models(t, u[i].slot)
    BY <1>1 DEF Hung
  <2>1. u[i].slot # k /\ u[i] \in Range(s.tree)
    BY <1>2 DEF Range
  <2>2. PICK j \in DOMAIN s.tree : u[i] = s.tree[j]
    BY <2>1 DEF Range
  <2>3. u[i].model \in Models(s, u[i].slot) /\ u[i].slot \in Slots
    BY <2>2, Types DEF Sound, Hung
  <2> QED
    BY <1>3, <2>1, <2>3
<1>11. IsFiniteSet(t.heap)
  <2>1. t.heap \in SUBSET s.heap
    BY <1>1
  <2> QED
    BY <2>1, FS_Subset DEF Sound
<1>12. Sound(t)
  BY <1>1, <1>2, <1>4, <1>5, <1>6, <1>8, <1>9, <1>10, <1>11 DEF Sound
<1> QED
  BY <1>1, <1>7, <1>12 DEF t

(* What is worn, without the objects made for it. *)
Wear(w) == <<w.id, w.look, w.level, w.levels, w.mods>>

(* t differs from s in the objects of slot k. *)
Steady(s, t, k) == /\ \A l \in Slots : l # k => t.item[l] = s.item[l]
                   /\ Wear(t.item[k]) = Wear(s.item[k])
                   /\ t.cache = s.cache /\ t.custom = s.custom /\ Customs(t) = Customs(s)

(* A slot is steady while nothing happens. *)
LEMMA SteadySelf == \A s, k : Steady(s, s, k)
  BY DEF Steady

(* Steps that leave the rest alone compose. *)
LEMMA SteadyOn ==
  ASSUME NEW s, NEW t, NEW u, NEW k, Steady(s, t, k), Steady(t, u, k) PROVE Steady(s, u, k)
  BY DEF Steady

(* unload leaves everything but the objects of the slot. *)
LEMMA Unload ==
  ASSUME NEW s, Sound(s), NEW k \in Slots
  PROVE  LET t == unload(s, k)
         IN  Sound(t) /\ Steady(s, t, k) /\ t.item[k].models = <<>> /\ t.item[k].merged = Null
<1> DEFINE t == unload(s, k)
<1>1. /\ Sound(t) /\ Puts(s, t, k, Bare(s.item[k])) /\ t.cache = s.cache /\ t.custom = s.custom
      /\ Customs(t) = Customs(s)
  BY Unloaded
<1> HIDE DEF t
<1>2. s \in States /\ t \in States
  BY <1>1 DEF Sound
<1>3. /\ t.item[k] = Bare(s.item[k]) /\ t.item[k].models = <<>> /\ t.item[k].merged = Null
      /\ \A l \in Slots : l # k => t.item[l] = s.item[l]
  BY <1>1, <1>2, BareNames
<1>4. s.item[k] \in WoWItems
  BY <1>2, Types
<1>5. Wear(Bare(s.item[k])) = Wear(s.item[k])
  BY <1>4 DEF Wear, Bare, WoWItems
<1> QED
  BY <1>1, <1>3, <1>5 DEF Steady, t

(* updateItemModel adds one model at most. *)
LEMMA ModelAdded ==
  ASSUME NEW s, Sound(s), NEW k \in Slots, NEW f \in Files
  PROVE  LET t == updateItemModel(s, k, f)
         IN  /\ Sound(t) /\ Steady(s, t, k) /\ t.item[k].merged = s.item[k].merged
             /\ Len(t.item[k].models) <= Len(s.item[k].models) + 1
<1>1. s \in States /\ s.item \in [Slots -> WoWItems] /\ s.item[k] \in WoWItems /\ s.heap \subseteq Objects
  BY Types DEF Sound
<1>2. s.item[k].models \in Seq(Objects)
  BY <1>1 DEF WoWItems
<1>3. CASE f \in BrokenFiles
  BY <1>2, <1>3, SteadySelf DEF updateItemModel
<1>4. CASE f \notin BrokenFiles
  <2> DEFINE o == NewObject(s, f)
             q == s.item[k].models
             w == [s.item[k] EXCEPT !.models = Append(q, o)]
             t == [s EXCEPT !.heap = @ \cup {o}, !.item = [s.item EXCEPT ![k] = w]]
  <2>1. updateItemModel(s, k, f) = t
    BY <1>1, <1>4 DEF updateItemModel, States
  <2>2. o \in Objects /\ o \notin s.heap
    BY Fresh1
  <2> HIDE DEF o
  <2>3. /\ Append(q, o) \in Seq(Objects) /\ Len(q) \in Nat /\ DOMAIN q = 1..Len(q)
        /\ DOMAIN Append(q, o) = 1..(Len(q) + 1)
        /\ Append(q, o)[Len(q) + 1] = o /\ \A j \in 1..Len(q) : Append(q, o)[j] = q[j]
        /\ Range(Append(q, o)) = Range(q) \cup {o}
    BY <1>2, <2>2, Appended
  <2>4. /\ w \in WoWItems /\ Wear(w) = Wear(s.item[k]) /\ w.merged = s.item[k].merged
        /\ w.models = Append(q, o)
    BY <1>1, <2>3 DEF WoWItems, Wear
  <2> HIDE DEF w
  <2>5. /\ t \in States /\ t.heap = s.heap \cup {o} /\ t.tree = s.tree /\ t.merged = s.merged
        /\ t.cache = s.cache /\ t.custom = s.custom
        /\ t.item[k] = w /\ \A l \in Slots : l # k => t.item[l] = s.item[l]
    <3>1. [s.item EXCEPT ![k] = w] \in [Slots -> WoWItems]
      BY <1>1, <2>4
    <3> QED
      BY <1>1, <2>2, <3>1 DEF States
  <2> HIDE DEF t
  <2>6. /\ Models(t, k) = Models(s, k) \cup {o}
        /\ \A l \in Slots : Merges(t, l) = Merges(s, l) /\ (l # k => Models(t, l) = Models(s, l))
    BY <2>3, <2>4, <2>5 DEF Models, Merges
  <2>7. Customs(t) = Customs(s)
    BY <2>5 DEF Customs
  <2>8. /\ \A l \in Slots : o \notin Models(s, l) /\ o \notin Merges(s, l)
        /\ o \notin s.merged /\ o \notin s.cache
    BY <2>2 DEF Sound, Alive
  <2>9. Alive(t) /\ Owned(t)
    BY <2>5, <2>6 DEF Sound, Alive, Owned
  <2>10. Apart(t)
    BY <2>5, <2>6, <2>8 DEF Sound, Apart
  <2>11. Stocked(t)
    BY <2>5, <2>7 DEF Sound, Stocked
  <2>12. Distinct(t)
    <3>1. \A i \in 1..Len(q) : q[i] # o
      BY <2>3, <2>8 DEF Models, Range
    <3>2. \A i, j \in DOMAIN w.models : w.models[i] = w.models[j] => i = j
      <4>1. \A i \in DOMAIN w.models : i \in 1..Len(q) \/ i = Len(q) + 1
        BY <2>3, <2>4
      <4>2. \A i, j \in 1..Len(q) : q[i] = q[j] => i = j
        BY <2>3 DEF Sound, Distinct
      <4> QED
        BY <2>3, <2>4, <3>1, <4>1, <4>2
    <3> QED
      BY <2>5, <3>2 DEF Sound, Distinct
  <2>13. Hung(t)
    BY <1>1, <2>5, <2>6, Types DEF Sound, Hung
  <2>14. IsFiniteSet(t.heap)
    BY <2>5, FS_AddElement DEF Sound
  <2>15. Sound(t)
    BY <2>5, <2>9, <2>10, <2>11, <2>12, <2>13, <2>14 DEF Sound
  <2>16. Len(t.item[k].models) = Len(q) + 1
    BY <2>3, <2>4, <2>5
  <2>17. Steady(s, t, k) /\ t.item[k].merged = s.item[k].merged
    BY <2>4, <2>5, <2>7 DEF Steady
  <2> QED
    BY <2>1, <2>3, <2>15, <2>16, <2>17
<1> QED
  BY <1>3, <1>4

(* mergeModel adds a model that no customization uses. *)
LEMMA MergeMade ==
  ASSUME NEW s, Sound(s), NEW k \in Slots, NEW f, f = NoFile \/ f \in Files \ CustomFiles,
         s.item[k].merged = Null
  PROVE  LET t == mergeModel(s, k, f)
         IN  Sound(t) /\ Steady(s, t, k) /\ t.item[k].models = s.item[k].models
<1>1. s \in States /\ s.item \in [Slots -> WoWItems] /\ s.item[k] \in WoWItems /\ s.heap \subseteq Objects
  BY Types DEF Sound
<1>2. CASE f = NoFile
  BY <1>2, SteadySelf DEF mergeModel
<1>3. CASE f # NoFile
  <2> DEFINE o == NewObject(s, f)
             w == [s.item[k] EXCEPT !.merged = o]
             t == [s EXCEPT !.heap = @ \cup {o}, !.item = [s.item EXCEPT ![k] = w]]
  <2>1. mergeModel(s, k, f) = t
    BY <1>1, <1>3 DEF mergeModel, States
  <2>2. o \in Objects /\ o \notin s.heap /\ o[1] \notin CustomFiles /\ o # Null
    BY <1>3, Fresh1, FileTypes
  <2> HIDE DEF o
  <2>3. w \in WoWItems /\ Wear(w) = Wear(s.item[k]) /\ w.merged = o /\ w.models = s.item[k].models
    BY <1>1, <2>2 DEF WoWItems, Wear
  <2> HIDE DEF w
  <2>4. /\ t \in States /\ t.heap = s.heap \cup {o} /\ t.tree = s.tree /\ t.merged = s.merged
        /\ t.cache = s.cache /\ t.custom = s.custom
        /\ t.item[k] = w /\ \A l \in Slots : l # k => t.item[l] = s.item[l]
    <3>1. [s.item EXCEPT ![k] = w] \in [Slots -> WoWItems]
      BY <1>1, <2>3
    <3> QED
      BY <1>1, <2>2, <3>1 DEF States
  <2> HIDE DEF t
  <2>5. /\ Merges(s, k) = {} /\ Merges(t, k) = {o}
        /\ \A l \in Slots : Models(t, l) = Models(s, l) /\ (l # k => Merges(t, l) = Merges(s, l))
    BY <2>2, <2>3, <2>4 DEF Models, Merges
  <2>6. Customs(t) = Customs(s)
    BY <2>4 DEF Customs
  <2>7. /\ \A l \in Slots : o \notin Models(s, l) /\ o \notin Merges(s, l)
        /\ o \notin s.merged /\ o \notin s.cache
    BY <2>2 DEF Sound, Alive
  <2>8. Alive(t) /\ Owned(t)
    BY <2>4, <2>5 DEF Sound, Alive, Owned
  <2>9. Apart(t)
    <3>1. \A p \in t.merged : /\ p \notin t.cache
                              /\ p[1] \notin CustomFiles => \E l \in Slots : p \in Merges(t, l)
      BY <2>4, <2>5 DEF Sound, Apart
    <3> QED
      BY <2>2, <2>4, <2>5, <2>7, <3>1 DEF Sound, Apart
  <2>10. Stocked(t)
    BY <2>4, <2>6 DEF Sound, Stocked
  <2>11. Distinct(t)
    BY <2>3, <2>4 DEF Sound, Distinct
  <2>12. Hung(t)
    BY <1>1, <2>4, <2>5, Types DEF Sound, Hung
  <2>13. IsFiniteSet(t.heap)
    BY <2>4, FS_AddElement DEF Sound
  <2>14. Sound(t)
    BY <2>4, <2>8, <2>9, <2>10, <2>11, <2>12, <2>13 DEF Sound
  <2>15. Steady(s, t, k) /\ t.item[k].models = s.item[k].models
    BY <2>3, <2>4, <2>6 DEF Steady
  <2> QED
    BY <2>1, <2>14, <2>15
<1> QED
  BY <1>2, <1>3

(* What load may have made of slot k. *)
Loading(s, k) == {t \in States : Sound(t) /\ Steady(s, t, k) /\ t.item[k].merged = Null}

(* A look has two files at most. *)
LEMMA ModelList ==
  ASSUME NEW l \in Looks
  PROVE  /\ Len(ModelsOf[l]) \in 0..2
         /\ \A i \in 1..Len(ModelsOf[l]) : ModelsOf[l][i] \in Files
<1>1. ModelsOf[l] \in Seq(Nat) /\ Len(ModelsOf[l]) <= 2
  BY LooksAssumption
<1>2. Len(ModelsOf[l]) \in Nat /\ DOMAIN ModelsOf[l] = 1..Len(ModelsOf[l])
  BY <1>1
<1>3. \A i \in DOMAIN ModelsOf[l] : ModelsOf[l][i] \in Files
  BY FileTypes
<1>4. Len(ModelsOf[l]) \in 0..2
  <2>1. \A m \in Nat : m <= 2 => m \in 0..2
    OBVIOUS
  <2> QED
    BY ONLY <1>1, <1>2, <2>1
<1> QED
  BY <1>2, <1>3, <1>4

(* Each file of a look adds one model at most. *)
LEMMA LoadingStep ==
  ASSUME NEW s, NEW k \in Slots, NEW t \in Loading(s, k), NEW f \in Files
  PROVE  LET u == updateItemModel(t, k, f)
         IN  u \in Loading(s, k) /\ Len(u.item[k].models) <= Len(t.item[k].models) + 1
<1> DEFINE u == updateItemModel(t, k, f)
<1>1. Sound(t) /\ Steady(s, t, k) /\ t.item[k].merged = Null
  BY DEF Loading
<1>2. /\ Sound(u) /\ Steady(t, u, k) /\ u.item[k].merged = t.item[k].merged
      /\ Len(u.item[k].models) <= Len(t.item[k].models) + 1
  BY <1>1, ModelAdded
<1> HIDE DEF u
<1>3. Steady(s, u, k)
  BY <1>1, <1>2, SteadyOn
<1> QED
  BY <1>1, <1>2, <1>3 DEF Loading, Sound, u

ModelPass(s, k, l) == [i \in 1..Len(ModelsOf[l]) |-> [t \in Loading(s, k) |-> updateItemModel(t, k, ModelsOf[l][i])]]

(* The models of a look are made one after the other. *)
LEMMA ModelLoop ==
  ASSUME NEW s, NEW k \in Slots, s \in Loading(s, k), NEW l \in Looks
  PROVE  Ran(loadModels(s, k, l), Len(ModelsOf[l]), Loading(s, k), s, ModelPass(s, k, l))
<1> DEFINE n == Len(ModelsOf[l])
           D(f) == [i \in 0..Len(ModelsOf[l]) |->
                       IF i = 0 THEN s
                       ELSE CHOOSE t \in {updateItemModel(u, k, ModelsOf[l][i]) : u \in {f[i - 1]}} : TRUE]
           g == CHOOSE f : f = D(f)
<1>0. s \in Loading(s, k)
  OBVIOUS
<1>1. n \in Nat
  BY ModelList
<1>2. ModelPass(s, k, l) \in [1..n -> [Loading(s, k) -> Loading(s, k)]]
  <2>1. \A i \in 1..n : \A t \in Loading(s, k) : updateItemModel(t, k, ModelsOf[l][i]) \in Loading(s, k)
    BY ModelList, LoadingStep
  <2> QED
    BY <2>1 DEF ModelPass
<1>3. \A i \in 1..n : \A t \in Loading(s, k) : ModelPass(s, k, l)[i][t] = updateItemModel(t, k, ModelsOf[l][i])
  BY DEF ModelPass
<1>4. ASSUME NEW f, NEW i \in 1..n PROVE D(f)[i] = updateItemModel(f[i - 1], k, ModelsOf[l][i])
  OBVIOUS
<1>5. ASSUME NEW f PROVE D(f)[0] = s /\ D(f) = [i \in 0..n |-> D(f)[i]]
  BY <1>1
<1>6. loadModels(s, k, l) = g[n]
  BY DEF loadModels, Loop
<1>7. PICK r : Run(r, n, Loading(s, k), s, ModelPass(s, k, l))
  <2> HIDE DEF n, D
  <2> QED
    BY ONLY <1>0, <1>1, <1>2, Recursion
<1>8. r = D(r)
  <2>1. ASSUME NEW i \in 0..n PROVE r[i] = D(r)[i]
    <3>1. CASE i = 0
      BY <1>5, <1>7, <3>1 DEF Run
    <3>2. CASE i # 0
      <4>1. i \in 1..n /\ i - 1 \in 0..n
        BY <1>1, <3>2
      <4>2. r[i - 1] \in Loading(s, k) /\ r[i] = ModelPass(s, k, l)[i][r[i - 1]]
        BY <1>7, <4>1 DEF Run
      <4>3. r[i] = updateItemModel(r[i - 1], k, ModelsOf[l][i])
        BY <1>3, <4>1, <4>2
      <4> QED
        BY <1>4, <4>1, <4>3
    <3> QED
      BY <3>1, <3>2
  <2>2. D(r) = [i \in 0..n |-> D(r)[i]]
    BY <1>5
  <2> HIDE DEF D, n
  <2>3. r = [i \in 0..n |-> r[i]]
    BY <1>7 DEF Run
  <2> QED
    BY <2>1, <2>2, <2>3
<1>9. g = D(g)
  <2> HIDE DEF D
  <2> QED
    BY <1>8
<1>10. /\ g = [i \in 0..n |-> g[i]] /\ g[0] = s
       /\ \A i \in 1..n : g[i] = updateItemModel(g[i - 1], k, ModelsOf[l][i])
  <2>1. D(g)[0] = s /\ D(g) = [i \in 0..n |-> D(g)[i]]
    BY <1>5
  <2> HIDE DEF D, g
  <2> QED
    BY <1>4, <1>9, <2>1
<1> HIDE DEF g, D, n
<1>11. Run(g, n, Loading(s, k), s, ModelPass(s, k, l))
  <2>1. \A i \in 1..n : g[i - 1] \in Loading(s, k) => g[i] = ModelPass(s, k, l)[i][g[i - 1]]
    BY <1>3, <1>10
  <2> QED
    BY ONLY <1>0, <1>1, <1>2, <1>10, <2>1, IsRun
<1> QED
  BY <1>6, <1>11 DEF Ran, n

(* The models of a look, two at most. *)
LEMMA ModelsLoaded ==
  ASSUME NEW s, Sound(s), NEW k \in Slots, NEW l \in Looks,
         s.item[k].models = <<>>, s.item[k].merged = Null
  PROVE  LET t == loadModels(s, k, l)
         IN  /\ Sound(t) /\ Steady(s, t, k) /\ t.item[k].merged = Null
             /\ Len(t.item[k].models) <= 2
<1> DEFINE n == Len(ModelsOf[l])
           V == Loading(s, k)
           P == [m \in 0..n |-> {t \in V : Len(t.item[k].models) <= m}]
           x == loadModels(s, k, l)
<1>1. n \in 0..2 /\ \A i \in 1..n : ModelsOf[l][i] \in Files
  BY ModelList
<1>2. s \in V
  BY SteadySelf DEF Loading, Sound
<1>3. s \in P[0]
  BY <1>1, <1>2
<1>4. ASSUME NEW m \in 1..n, NEW t \in V, t \in P[m - 1]
      PROVE  ModelPass(s, k, l)[m][t] \in P[m]
  <2>1. m - 1 \in 0..n /\ m \in 0..n /\ m \in Nat
    BY <1>1
  <2>2. Len(t.item[k].models) <= m - 1
    BY <1>4, <2>1
  <2>3. ModelPass(s, k, l)[m][t] = updateItemModel(t, k, ModelsOf[l][m])
    BY DEF ModelPass
  <2> DEFINE u == updateItemModel(t, k, ModelsOf[l][m])
  <2>4. u \in V /\ Len(u.item[k].models) <= Len(t.item[k].models) + 1
    BY <1>1, LoadingStep
  <2>5. Len(u.item[k].models) \in Nat /\ Len(t.item[k].models) \in Nat
    <3>1. \A v \in V : v.item \in [Slots -> WoWItems]
      BY Types DEF Loading
    <3>2. \A w \in WoWItems : Len(w.models) \in Nat
      BY DEF WoWItems
    <3> QED
      BY <2>4, <3>1, <3>2
  <2> HIDE DEF u, V
  <2>6. Len(u.item[k].models) <= m
    BY <2>1, <2>2, <2>4, <2>5
  <2> QED
    BY <2>1, <2>3, <2>4, <2>6 DEF u
<1>5. Ran(x, n, V, s, ModelPass(s, k, l))
  BY <1>2, ModelLoop
<1>6. x \in V /\ x \in P[n]
  <2>1. \A m \in 1..n : \A t \in V : t \in P[m - 1] => ModelPass(s, k, l)[m][t] \in P[m]
    BY <1>4
  <2>2. n \in Nat
    BY <1>1
  <2> HIDE DEF P, n, x, V
  <2> QED
    BY ONLY <1>3, <1>5, <2>1, <2>2, Along
<1>7. Sound(x) /\ Steady(s, x, k) /\ x.item[k].merged = Null
  BY <1>6 DEF Loading
<1>8. Len(x.item[k].models) <= 2
  <2>1. Len(x.item[k].models) <= n
    <3> HIDE DEF x, V
    <3> QED
      BY <1>1, <1>6
  <2>2. Len(x.item[k].models) \in Nat
    <3>1. x.item[k] \in WoWItems
      BY <1>7, Types DEF Sound
    <3> QED
      BY <3>1 DEF WoWItems
  <2> HIDE DEF x
  <2> QED
    BY <1>1, <2>1, <2>2
<1> QED
  BY <1>7, <1>8

(* A slot has two models at most, and without an item none. *)
Slim(w) == /\ Len(w.models) <= 2
           /\ w.id = NoItem => w.models = <<>> /\ w.merged = Null

(* WoWItem::load makes the models of the look, or none. *)
LEMMA Loaded ==
  ASSUME NEW s, Sound(s), NEW k \in Slots
  PROVE  LET t == load(s, k) IN Sound(t) /\ Steady(s, t, k) /\ Slim(t.item[k])
<1> DEFINE l == s.item[k].look
           u == unload(s, k)
<1>1. l \in Looks \cup {NoLook}
  <2>1. s.item[k] \in WoWItems
    BY Types DEF Sound
  <2> QED
    BY <2>1 DEF WoWItems
<1>2. Sound(u) /\ Steady(s, u, k) /\ u.item[k].models = <<>> /\ u.item[k].merged = Null
  BY Unload
<1>3. CASE s.item[k].id = NoItem \/ l = NoLook
  <2>1. load(s, k) = u
    BY <1>3 DEF load
  <2>2. Slim(u.item[k])
    BY <1>2 DEF Slim
  <2> QED
    BY <1>2, <2>1, <2>2
<1>4. CASE ~(s.item[k].id = NoItem \/ l = NoLook)
  <2> DEFINE v == loadModels(u, k, l)
             t == mergeModel(v, k, MergedOf[l])
  <2>1. load(s, k) = t
    BY <1>4 DEF load
  <2>2. l \in Looks /\ (MergedOf[l] = NoFile \/ MergedOf[l] \in Files \ CustomFiles)
    BY <1>1, <1>4, FileTypes
  <2> HIDE DEF u, l
  <2>3. Sound(v) /\ Steady(u, v, k) /\ v.item[k].merged = Null /\ Len(v.item[k].models) <= 2
    BY <1>2, <2>2, ModelsLoaded
  <2> HIDE DEF v
  <2>4. Sound(t) /\ Steady(v, t, k) /\ t.item[k].models = v.item[k].models
    BY <2>2, <2>3, MergeMade
  <2> HIDE DEF t
  <2>5. Steady(s, t, k)
    BY <1>2, <2>3, <2>4, SteadyOn
  <2>6. t.item[k].id # NoItem
    BY <1>4, <2>5 DEF Steady, Wear
  <2> QED
    BY <2>1, <2>3, <2>4, <2>5, <2>6 DEF Slim
<1> QED
  BY <1>3, <1>4

(***************************************************************************)
(* What is worn.                                                           *)
(***************************************************************************)
(* An item has its own levels and one of its looks; what is no item of the
   database shows what the slot's NPC wears; whatever else is remembered is of
   items of the slot. *)
Clad(k, w) ==
  /\ w.id \in Worn(k) \cup {NpcItem} /\ w.look \in LooksIn(k) /\ w.level \in LevelsIn(k)
  /\ w.levels \in {<<>>} \cup {LevelsOf[i] : i \in Worn(k) \ {NoItem}}
  /\ \A m \in Modifiers : w.mods[m] \in LooksIn(k)
  /\ w.id \in Items =>
        /\ w.levels = LevelsOf[w.id] /\ w.look \in Range(LevelsOf[w.id])
        /\ w.level < Len(LevelsOf[w.id])
        /\ \A m \in Modifiers : ModsOf[w.id][m] # NoLook => w.mods[m] = ModsOf[w.id][m]
  /\ w.id = NpcItem =>
        /\ w.levels = <<>> /\ w.level = 0 /\ w.look \in {NpcOutfits[k], NoLook}
        /\ \A m \in Modifiers : w.mods[m] = NoLook

(* Sound objects on slots that are clad. *)
Fine(s) == Sound(s) /\ \A k \in Slots : Slim(s.item[k]) /\ Clad(k, s.item[k])

(* t differs from s in slot k. *)
Turned(s, t, k) == /\ \A l \in Slots : l # k => t.item[l] = s.item[l]
                   /\ t.cache = s.cache /\ t.custom = s.custom /\ Customs(t) = Customs(s)

(* What a slot wears does not depend on its objects. *)
LEMMA CladWear == ASSUME NEW k, NEW w, NEW x, Wear(w) = Wear(x), Clad(k, w) PROVE Clad(k, x)
<1>1. w.id = x.id /\ w.look = x.look /\ w.level = x.level /\ w.levels = x.levels /\ w.mods = x.mods
  BY DEF Wear
<1> QED
  BY <1>1 DEF Clad

(* What can be worn in a slot. *)
LEMMA InSlot ==
  ASSUME NEW k \in Slots
  PROVE  /\ \A i \in Worn(k) \ {NoItem} : i \in Items
         /\ \A i \in Worn(k) : i \in Items => i # NoItem /\ i # NpcItem
         /\ NoItem \in Worn(k) /\ NoItem \notin Items /\ NpcItem \notin Items /\ NoItem # NpcItem
         /\ LooksIn(k) \subseteq Looks \cup {NoLook} /\ NoLook \in LooksIn(k) /\ NpcOutfits[k] \in LooksIn(k)
         /\ LevelsIn(k) \subseteq Nat /\ 0 \in LevelsIn(k)
         /\ NoLook \notin Looks
<1>1. {NoItem, NpcItem} \cap Items = {} /\ NoItem # NpcItem
  BY ItemsAssumption
<1>2. NpcOutfits[k] \in Looks \cup {NoLook} /\ NoLook \notin Looks
  BY LooksAssumption
<1>3. LevelsIn(k) \subseteq Nat
  <2>1. \A i \in Worn(k) \ {NoItem} : Len(LevelsOf[i]) \in Nat
    <3>1. \A i \in Worn(k) \ {NoItem} : i \in Items
      BY DEF Worn
    <3>2. \A i \in Items : LevelsOf[i] \in Seq(Looks)
      BY Levels
    <3> QED
      BY <3>1, <3>2
  <2> QED
    BY <2>1 DEF LevelsIn
<1> QED
  BY <1>1, <1>2, <1>3 DEF Worn, LooksIn, LevelsIn

(* The levels and modifiers of an item of the slot. *)
LEMMA OfItem ==
  ASSUME NEW k \in Slots, NEW i \in Worn(k) \ {NoItem}
  PROVE  /\ i \in Items /\ LevelsOf[i] \in Seq(Looks) /\ LevelsOf[i] # <<>> /\ Len(LevelsOf[i]) \in Nat \ {0}
         /\ DOMAIN LevelsOf[i] = 1..Len(LevelsOf[i])
         /\ Range(LevelsOf[i]) \subseteq LooksIn(k) /\ NoLook \notin Range(LevelsOf[i])
         /\ \A j \in 1..Len(LevelsOf[i]) : LevelsOf[i][j] \in Range(LevelsOf[i])
         /\ \A n \in Nat : n < Len(LevelsOf[i]) => n \in LevelsIn(k)
         /\ \A m \in Modifiers : /\ ModsOf[i][m] \in LooksIn(k)
                                 /\ ModsOf[i][m] # NoLook => ModsOf[i][m] \in Range(LevelsOf[i])
<1>1. i \in Items
  BY InSlot
<1>2. LevelsOf[i] \in Seq(Looks) /\ LevelsOf[i] # <<>>
  BY <1>1, Levels
<1>3. Len(LevelsOf[i]) \in Nat \ {0} /\ DOMAIN LevelsOf[i] = 1..Len(LevelsOf[i])
  BY <1>2
<1>4. Range(LevelsOf[i]) \subseteq Looks /\ \A j \in 1..Len(LevelsOf[i]) : LevelsOf[i][j] \in Range(LevelsOf[i])
  BY <1>2, <1>3 DEF Range
<1>5. Range(LevelsOf[i]) \subseteq LooksIn(k) /\ NoLook \notin Range(LevelsOf[i]) /\ NoLook \in LooksIn(k)
  BY <1>4, InSlot DEF LooksIn
<1>6. \A m \in Modifiers : ModsOf[i][m] \in Range(LevelsOf[i]) \cup {NoLook}
  BY <1>1, Modified
<1>7. ASSUME NEW n \in Nat, n < Len(LevelsOf[i]) PROVE n \in LevelsIn(k)
  <2>1. n = 0 \/ n \in 1 .. Len(LevelsOf[i]) - 1
    BY <1>3, <1>7
  <2> QED
    BY <2>1 DEF LevelsIn
<1> QED
  BY <1>1, <1>2, <1>3, <1>4, <1>5, <1>6, <1>7

(* The objects do not mind what the slot is told to wear. *)
LEMMA Renamed ==
  ASSUME NEW s, Sound(s), NEW k \in Slots, NEW w \in WoWItems,
         w.models = s.item[k].models, w.merged = s.item[k].merged
  PROVE  LET t == [s EXCEPT !.item = [s.item EXCEPT ![k] = w]]
         IN  Sound(t) /\ Turned(s, t, k) /\ t.item[k] = w
<1> DEFINE t == [s EXCEPT !.item = [s.item EXCEPT ![k] = w]]
<1>1. s \in States /\ s.item \in [Slots -> WoWItems]
  BY Types DEF Sound
<1>2. /\ t \in States /\ t.heap = s.heap /\ t.tree = s.tree /\ t.merged = s.merged
      /\ t.cache = s.cache /\ t.custom = s.custom
      /\ t.item[k] = w /\ \A l \in Slots : l # k => t.item[l] = s.item[l]
  <2>1. [s.item EXCEPT ![k] = w] \in [Slots -> WoWItems]
    BY <1>1
  <2> QED
    BY <1>1, <2>1 DEF States
<1> HIDE DEF t
<1>3. \A l \in Slots : t.item[l].models = s.item[l].models /\ t.item[l].merged = s.item[l].merged
  BY <1>2
<1>4. \A l \in Slots : Models(t, l) = Models(s, l) /\ Merges(t, l) = Merges(s, l)
  BY <1>3 DEF Models, Merges
<1>5. Customs(t) = Customs(s)
  BY <1>2 DEF Customs
<1>6. Alive(t) /\ Owned(t) /\ Apart(t)
  BY <1>2, <1>4 DEF Sound, Alive, Owned, Apart
<1>7. Stocked(t)
  BY <1>2, <1>5 DEF Sound, Stocked
<1>8. Distinct(t) /\ Hung(t)
  BY <1>1, <1>2, <1>3, <1>4, Types DEF Sound, Distinct, Hung
<1> QED
  BY <1>2, <1>5, <1>6, <1>7, <1>8 DEF Sound, Turned, t

(* A slot is told to wear something else, and loads it. *)
LEMMA Changed ==
  ASSUME NEW s, Fine(s), NEW k \in Slots, NEW w \in WoWItems, Clad(k, w),
         w.models = s.item[k].models, w.merged = s.item[k].merged
  PROVE  LET t == load([s EXCEPT !.item = [s.item EXCEPT ![k] = w]], k)
         IN  Fine(t) /\ Turned(s, t, k) /\ Wear(t.item[k]) = Wear(w)
<1> DEFINE u == [s EXCEPT !.item = [s.item EXCEPT ![k] = w]]
           t == load(u, k)
<1>1. Sound(u) /\ Turned(s, u, k) /\ u.item[k] = w
  BY Renamed DEF Fine
<1> HIDE DEF u
<1>2. Sound(t) /\ Steady(u, t, k) /\ Slim(t.item[k])
  BY <1>1, Loaded
<1> HIDE DEF t
<1>3. Turned(s, t, k) /\ Wear(t.item[k]) = Wear(w)
  BY <1>1, <1>2 DEF Turned, Steady
<1>4. Clad(k, t.item[k])
  BY <1>3, CladWear
<1>5. Fine(t)
  <2>1. \A l \in Slots : l # k => Slim(t.item[l]) /\ Clad(l, t.item[l])
    BY <1>3 DEF Fine, Turned
  <2> QED
    BY <1>2, <1>4, <2>1 DEF Fine
<1> QED
  BY <1>3, <1>5 DEF t, u

(* A slot is told to wear something else, and unloads what it had. *)
LEMMA Emptied ==
  ASSUME NEW s, Fine(s), NEW k \in Slots, NEW w \in WoWItems, Clad(k, w),
         w.models = s.item[k].models, w.merged = s.item[k].merged
  PROVE  LET t == unload([s EXCEPT !.item = [s.item EXCEPT ![k] = w]], k)
         IN  Fine(t) /\ Turned(s, t, k) /\ Wear(t.item[k]) = Wear(w)
<1> DEFINE u == [s EXCEPT !.item = [s.item EXCEPT ![k] = w]]
           t == unload(u, k)
<1>1. Sound(u) /\ Turned(s, u, k) /\ u.item[k] = w
  BY Renamed DEF Fine
<1> HIDE DEF u
<1>2. Sound(t) /\ Steady(u, t, k) /\ Slim(t.item[k])
  BY <1>1, Unload DEF Slim
<1> HIDE DEF t
<1>3. Turned(s, t, k) /\ Wear(t.item[k]) = Wear(w)
  BY <1>1, <1>2 DEF Turned, Steady
<1>4. Clad(k, t.item[k])
  BY <1>3, CladWear
<1>5. Fine(t)
  <2>1. \A l \in Slots : l # k => Slim(t.item[l]) /\ Clad(l, t.item[l])
    BY <1>3 DEF Fine, Turned
  <2> QED
    BY <1>2, <1>4, <2>1 DEF Fine
<1> QED
  BY <1>3, <1>5 DEF t, u

(* The types of a slot. *)
LEMMA Slots1 ==
  ASSUME NEW s, Fine(s), NEW k \in Slots
  PROVE  /\ s \in States /\ s.item \in [Slots -> WoWItems] /\ s.item[k] \in WoWItems /\ Clad(k, s.item[k])
         /\ s.item[k].models \in Seq(Objects) /\ s.item[k].merged \in Objects \cup {Null}
         /\ s.item[k].levels \in Seq(Looks) /\ Len(s.item[k].levels) \in Nat
         /\ DOMAIN s.item[k].levels = 1..Len(s.item[k].levels)
         /\ s.item[k].mods \in [Modifiers -> Looks \cup {NoLook}]
         /\ s.item[k].look \in Looks \cup {NoLook} /\ s.item[k].level \in Nat
<1>1. s \in States /\ s.item \in [Slots -> WoWItems] /\ s.item[k] \in WoWItems /\ Clad(k, s.item[k])
  BY Types DEF Fine, Sound
<1>2. s.item[k].levels \in Seq(Looks)
  BY <1>1 DEF WoWItems
<1> QED
  BY <1>1, <1>2 DEF WoWItems

(* WoWItem::setId. *)
LEMMA IdSet ==
  ASSUME NEW s, Fine(s), NEW k \in Slots, NEW i \in Worn(k)
  PROVE  LET t == setId(s, k, i) IN Fine(t) /\ Turned(s, t, k) /\ t.item[k].id = i
<1> DEFINE w == s.item[k]
           t == setId(s, k, i)
<1>1. /\ s \in States /\ s.item \in [Slots -> WoWItems] /\ w \in WoWItems /\ Clad(k, w)
      /\ w.mods \in [Modifiers -> Looks \cup {NoLook}]
  BY Slots1
<1>2. CASE i = w.id
  <2>1. t = s
    BY <1>2 DEF setId
  <2> QED
    BY <1>2, <2>1 DEF Turned
<1>3. CASE i # w.id /\ i = NoItem
  <2> DEFINE x == [w EXCEPT !.id = NoItem]
  <2>1. t = unload([s EXCEPT !.item = [s.item EXCEPT ![k] = x]], k)
    BY <1>1, <1>3 DEF setId, States
  <2>2. /\ x \in WoWItems /\ x.models = w.models /\ x.merged = w.merged /\ x.id = NoItem
        /\ x.look = w.look /\ x.level = w.level /\ x.levels = w.levels /\ x.mods = w.mods
    BY <1>1 DEF WoWItems
  <2>3. Clad(k, x)
    BY <1>1, <2>2, InSlot DEF Clad
  <2> HIDE DEF x, t
  <2>4. Fine(t) /\ Turned(s, t, k) /\ Wear(t.item[k]) = Wear(x)
    BY <2>1, <2>2, <2>3, Emptied
  <2> QED
    BY <1>3, <2>2, <2>4 DEF Wear, t
<1>4. CASE i # w.id /\ i # NoItem
  <2> DEFINE v == itsLevels(w, i)
             x == [v EXCEPT !.look = firstLook(v)]
  <2>1. t = load([s EXCEPT !.item = [s.item EXCEPT ![k] = x]], k)
    BY <1>1, <1>4 DEF setId, States
  <2>2. /\ i \in Items /\ LevelsOf[i] \in Seq(Looks) /\ LevelsOf[i] # <<>> /\ Len(LevelsOf[i]) \in Nat \ {0}
        /\ Range(LevelsOf[i]) \subseteq LooksIn(k)
        /\ LevelsOf[i][1] \in Range(LevelsOf[i]) /\ LevelsOf[i][1] \in Looks
        /\ \A m \in Modifiers : ModsOf[i][m] \in LooksIn(k)
    <3>1. 1 \in 1..Len(LevelsOf[i])
      BY <1>4, OfItem
    <3>2. LevelsOf[i][1] \in Looks
      BY <1>4, <3>1, OfItem
    <3> QED
      BY <1>4, <3>1, <3>2, OfItem
  <2>3. /\ Remembered(w.mods, i) \in [Modifiers -> Looks \cup {NoLook}]
        /\ \A m \in Modifiers : Remembered(w.mods, i)[m] \in LooksIn(k)
        /\ \A m \in Modifiers : ModsOf[i][m] # NoLook => Remembered(w.mods, i)[m] = ModsOf[i][m]
    <3>1. LooksIn(k) \subseteq Looks \cup {NoLook}
      BY InSlot
    <3> QED
      BY <1>1, <2>2, <3>1 DEF Remembered, Clad
  <2>4. /\ v \in WoWItems /\ v.id = i /\ v.level = 0 /\ v.levels = LevelsOf[i] /\ v.mods = Remembered(w.mods, i)
        /\ v.models = w.models /\ v.merged = w.merged
    BY <1>1, <2>2, <2>3 DEF itsLevels, WoWItems
  <2>5. firstLook(v) = LevelsOf[i][1]
    BY <2>2, <2>4 DEF firstLook
  <2> HIDE DEF v
  <2>6. /\ x \in WoWItems /\ x.id = i /\ x.level = 0 /\ x.levels = LevelsOf[i] /\ x.mods = Remembered(w.mods, i)
        /\ x.models = w.models /\ x.merged = w.merged /\ x.look = LevelsOf[i][1]
    BY <2>2, <2>4, <2>5 DEF WoWItems
  <2> HIDE DEF x, t
  <2>7. Clad(k, x)
    <3>1. i # NpcItem /\ 0 \in LevelsIn(k) /\ i \in Worn(k) \ {NoItem}
      BY <1>4, <2>2, InSlot
    <3>2. 0 < Len(LevelsOf[i])
      BY <2>2
    <3> QED
      BY <2>2, <2>3, <2>6, <3>1, <3>2 DEF Clad
  <2>8. Fine(t) /\ Turned(s, t, k) /\ Wear(t.item[k]) = Wear(x)
    BY <2>1, <2>6, <2>7, Changed
  <2> QED
    BY <2>6, <2>8 DEF Wear, t
<1> QED
  BY <1>2, <1>3, <1>4

(* WoWItem::setLevel, for a level that the item has. *)
LEMMA LevelSet ==
  ASSUME NEW s, Fine(s), NEW k \in Slots, NEW n \in LevelsIn(k),
         s.item[k].id \in Items => n < Len(LevelsOf[s.item[k].id])
  PROVE  LET t == setLevel(s, k, n)
         IN  /\ Fine(t) /\ Turned(s, t, k) /\ t.item[k].id = s.item[k].id
             /\ s.item[k].id = NpcItem => t = s
<1> DEFINE w == s.item[k]
           t == setLevel(s, k, n)
<1>1. /\ s \in States /\ s.item \in [Slots -> WoWItems] /\ w \in WoWItems /\ Clad(k, w)
      /\ w.levels \in Seq(Looks) /\ Len(w.levels) \in Nat /\ DOMAIN w.levels = 1..Len(w.levels)
      /\ w.look \in Looks \cup {NoLook}
  BY Slots1
<1>2. CASE Len(w.levels) <= 1 \/ n = w.level
  <2>1. t = s
    BY <1>2 DEF setLevel
  <2> QED
    BY <2>1 DEF Turned
<1>3. CASE ~(Len(w.levels) <= 1 \/ n = w.level)
  <2> DEFINE l == IF n + 1 \in DOMAIN w.levels THEN w.levels[n + 1] ELSE w.look
             x == [w EXCEPT !.level = n, !.look = l]
  <2>1. t = load([s EXCEPT !.item = [s.item EXCEPT ![k] = x]], k)
    BY <1>1, <1>3 DEF setLevel, States
  <2>2. n \in Nat /\ w.levels # <<>>
    BY <1>1, <1>3, InSlot
  <2>3. w.id # NpcItem
    BY <1>1, <2>2 DEF Clad
  <2>4. PICK i \in Worn(k) \ {NoItem} : w.levels = LevelsOf[i]
    BY <1>1, <2>2 DEF Clad
  <2>5. /\ l \in Looks \cup {NoLook} /\ l \in LooksIn(k)
        /\ n + 1 \in DOMAIN w.levels => l \in Range(LevelsOf[i])
    <3>1. CASE n + 1 \in DOMAIN w.levels
      <4>1. l \in Range(LevelsOf[i])
        BY <2>4, <3>1 DEF Range
      <4> QED
        BY <1>1, <3>1, <4>1, OfItem, InSlot
    <3>2. CASE n + 1 \notin DOMAIN w.levels
      BY <1>1, <3>2 DEF Clad
    <3> QED
      BY <3>1, <3>2
  <2>6. w.id \in Items => l \in Range(LevelsOf[w.id]) /\ n < Len(LevelsOf[w.id])
    <3> SUFFICES ASSUME w.id \in Items PROVE l \in Range(LevelsOf[w.id]) /\ n < Len(LevelsOf[w.id])
      OBVIOUS
    <3>1. w.levels = LevelsOf[w.id] /\ n < Len(LevelsOf[w.id])
      BY <1>1 DEF Clad
    <3>2. n + 1 \in DOMAIN w.levels
      BY <1>1, <2>2, <3>1
    <3> QED
      BY <2>4, <2>5, <3>1, <3>2
  <2> HIDE DEF l
  <2>7. /\ x \in WoWItems /\ x.models = w.models /\ x.merged = w.merged /\ x.id = w.id
        /\ x.look = l /\ x.level = n /\ x.levels = w.levels /\ x.mods = w.mods
    BY <1>1, <2>2, <2>5 DEF WoWItems
  <2> HIDE DEF x, t
  <2>8. Clad(k, x)
    BY <1>1, <2>3, <2>5, <2>6, <2>7 DEF Clad
  <2>9. Fine(t) /\ Turned(s, t, k) /\ Wear(t.item[k]) = Wear(x)
    BY <2>1, <2>7, <2>8, Changed
  <2> QED
    BY <2>3, <2>7, <2>9 DEF Wear, t
<1> QED
  BY <1>2, <1>3

(* A look is set directly: by a modifier, from a saved file, from an NPC. *)
LEMMA LookSet ==
  ASSUME NEW s, Fine(s), NEW k \in Slots, NEW l \in LooksIn(k),
         s.item[k].id \in Items => l \in Range(LevelsOf[s.item[k].id]),
         s.item[k].id = NpcItem => l \in {NpcOutfits[k], NoLook}
  PROVE  LET t == load([s EXCEPT !.item[k].look = l], k)
         IN  Fine(t) /\ Turned(s, t, k) /\ t.item[k].id = s.item[k].id /\ t.item[k].look = l
<1> DEFINE w == s.item[k]
           x == [w EXCEPT !.look = l]
           t == load([s EXCEPT !.item[k].look = l], k)
<1>1. /\ s \in States /\ s.item \in [Slots -> WoWItems] /\ w \in WoWItems /\ Clad(k, w)
  BY Slots1
<1>2. t = load([s EXCEPT !.item = [s.item EXCEPT ![k] = x]], k)
  BY <1>1 DEF States
<1>3. l \in Looks \cup {NoLook}
  BY InSlot
<1>4. /\ x \in WoWItems /\ x.models = w.models /\ x.merged = w.merged /\ x.id = w.id
      /\ x.look = l /\ x.level = w.level /\ x.levels = w.levels /\ x.mods = w.mods
  BY <1>1, <1>3 DEF WoWItems
<1> HIDE DEF x, t
<1>5. Clad(k, x)
  BY <1>1, <1>4 DEF Clad
<1>6. Fine(t) /\ Turned(s, t, k) /\ Wear(t.item[k]) = Wear(x)
  BY <1>2, <1>4, <1>5, Changed
<1> QED
  BY <1>4, <1>6 DEF Wear, t

(* WoWItem::setModifierId, for a modifier that the item has. *)
LEMMA ModifierSet ==
  ASSUME NEW s, Fine(s), NEW k \in Slots, NEW m,
         s.item[k].id \in Items => m \in Modifiers /\ ModsOf[s.item[k].id][m] # NoLook
  PROVE  LET t == setModifierId(s, k, m) IN Fine(t) /\ Turned(s, t, k) /\ t.item[k].id = s.item[k].id
<1> DEFINE w == s.item[k]
           t == setModifierId(s, k, m)
<1>1. Clad(k, w)
  BY Slots1
<1>2. CASE m \notin Modifiers \/ w.mods[m] = NoLook
  <2>1. t = s
    BY <1>2 DEF setModifierId
  <2> QED
    BY <2>1 DEF Turned
<1>3. CASE ~(m \notin Modifiers \/ w.mods[m] = NoLook)
  <2>1. t = load([s EXCEPT !.item[k].look = w.mods[m]], k)
    BY <1>3 DEF setModifierId
  <2>2. w.mods[m] \in LooksIn(k) /\ w.id # NpcItem
    BY <1>1, <1>3 DEF Clad
  <2>3. w.id \in Items => w.mods[m] \in Range(LevelsOf[w.id])
    <3>1. w.id \in Items => w.id \in Worn(k) \ {NoItem} /\ w.mods[m] = ModsOf[w.id][m]
      BY <1>1, <1>3, InSlot DEF Clad
    <3> QED
      BY <1>3, <3>1, OfItem
  <2> HIDE DEF t
  <2> QED
    BY <2>1, <2>2, <2>3, LookSet DEF t
<1> QED
  BY <1>2, <1>3

(* The saved look is forced. *)
LEMMA Forced ==
  ASSUME NEW s, Fine(s), NEW k \in Slots, NEW l \in LooksIn(k),
         s.item[k].id \in Items => l \in Range(LevelsOf[s.item[k].id]),
         s.item[k].id = NpcItem => l \in {NpcOutfits[k], NoLook}
  PROVE  LET t == forceLook(s, k, l)
         IN  /\ Fine(t) /\ Turned(s, t, k) /\ t.item[k].id = s.item[k].id
             /\ t.item[k].look = IF l = NoLook THEN s.item[k].look ELSE l
<1>1. CASE l = NoLook \/ l = s.item[k].look
  <2>1. forceLook(s, k, l) = s
    BY <1>1 DEF forceLook
  <2> QED
    BY <1>1, <2>1 DEF Turned
<1>2. CASE ~(l = NoLook \/ l = s.item[k].look)
  <2>1. forceLook(s, k, l) = load([s EXCEPT !.item[k].look = l], k)
    BY <1>2 DEF forceLook
  <2> QED
    BY <1>2, <2>1, LookSet
<1> QED
  BY <1>1, <1>2

(* Steps that turn one slot compose. *)
LEMMA TurnedOn ==
  ASSUME NEW s, NEW t, NEW u, NEW k, Turned(s, t, k), Turned(t, u, k) PROVE Turned(s, u, k)
  BY DEF Turned

(* What a saved item can be. *)
LEMMA SavedKinds ==
  ASSUME NEW k \in Slots, NEW w \in SavedItems(k)
  PROVE  /\ w.id \in Worn(k) \cup {NpcItem} /\ w.look \in LooksIn(k) /\ w.level \in LevelsIn(k)
         /\ w.id = NpcItem => w.look \in {NpcOutfits[k], NoLook} /\ w.level = 0
         /\ w.id \in Items => w.look \in Range(LevelsOf[w.id]) /\ w.level < Len(LevelsOf[w.id])
  BY DEF SavedItems

(* A saved item is read into a slot that is empty or has it already. *)
LEMMA SavedLoaded ==
  ASSUME NEW s, Fine(s), NEW k \in Slots, NEW w \in SavedItems(k),
         s.item[k].id \in Items => s.item[k].id = w.id
  PROVE  LET t == loadSaved(s, k, w)
         IN  /\ Fine(t) /\ Turned(s, t, k)
             /\ t.item[k].id = IF w.id = NpcItem THEN s.item[k].id ELSE w.id
             /\ w.id \in Items => t.item[k].look = w.look
             /\ w.id = NpcItem /\ s.item[k].id = NpcItem =>
                   t.item[k].look = IF w.look = NoLook THEN s.item[k].look ELSE w.look
<1> DEFINE u == IF w.id = NpcItem THEN s ELSE setId(s, k, w.id)
           v == setLevel(u, k, w.level)
           t == forceLook(v, k, w.look)
<1>1. /\ w.id \in Worn(k) \cup {NpcItem} /\ w.look \in LooksIn(k) /\ w.level \in LevelsIn(k)
      /\ w.id = NpcItem => w.look \in {NpcOutfits[k], NoLook} /\ w.level = 0
      /\ w.id \in Items => w.look \in Range(LevelsOf[w.id]) /\ w.level < Len(LevelsOf[w.id])
  BY SavedKinds
<1>2. loadSaved(s, k, w) = t
  BY DEF loadSaved
<1>3. /\ Fine(u) /\ Turned(s, u, k)
      /\ u.item[k].id = IF w.id = NpcItem THEN s.item[k].id ELSE w.id
      /\ w.id = NpcItem => u = s
  <2>1. CASE w.id = NpcItem
    BY <2>1 DEF Turned
  <2>2. CASE w.id # NpcItem
    BY <1>1, <2>2, IdSet
  <2> QED
    BY <2>1, <2>2
<1> HIDE DEF u
<1>4. /\ NpcItem \notin Items /\ s.item[k].id = NpcItem => s.item[k].id \notin Items
      /\ u.item[k].id \in Items => u.item[k].id = w.id
  BY <1>3, InSlot
<1>5. /\ Fine(v) /\ Turned(u, v, k) /\ v.item[k].id = u.item[k].id
      /\ u.item[k].id = NpcItem => v = u
  BY <1>1, <1>3, <1>4, LevelSet
<1> HIDE DEF v
<1>6. v.item[k].id = NpcItem => w.look \in {NpcOutfits[k], NoLook}
  <2>1. NoItem # NpcItem
    BY InSlot
  <2> QED
    BY <1>1, <1>3, <1>5
<1>7. /\ Fine(t) /\ Turned(v, t, k) /\ t.item[k].id = v.item[k].id
      /\ t.item[k].look = IF w.look = NoLook THEN v.item[k].look ELSE w.look
  BY <1>1, <1>4, <1>5, <1>6, Forced
<1> HIDE DEF t
<1>8. Turned(s, t, k)
  BY <1>3, <1>5, <1>7, TurnedOn
<1>9. w.id \in Items => w.look # NoLook
  <2>1. w.id \in Items => w.id \in Worn(k) \ {NoItem}
    BY <1>1, InSlot
  <2> QED
    BY <1>1, <2>1, OfItem
<1> QED
  BY <1>2, <1>3, <1>5, <1>7, <1>8, <1>9

(* WoWItem::setDisplayId, for the look of an NPC. *)
LEMMA NpcSet ==
  ASSUME NEW s, Fine(s), NEW k \in Slots, s.item[k].id = NpcItem
  PROVE  LET t == setDisplayId(s, k, NpcOutfits[k]) IN Fine(t) /\ Turned(s, t, k) /\ t.item[k].id = NpcItem
<1> DEFINE l == NpcOutfits[k]
           t == setDisplayId(s, k, l)
<1>1. CASE l = s.item[k].look
  <2>1. t = s
    BY <1>1 DEF setDisplayId
  <2> QED
    BY <2>1 DEF Turned
<1>2. CASE l # s.item[k].look
  <2>1. /\ s \in States /\ s.item \in [Slots -> WoWItems] /\ s.item[k] \in WoWItems
    BY Slots1
  <2>2. [s EXCEPT !.item[k].id = NpcItem, !.item[k].look = l] = [s EXCEPT !.item[k].look = l]
    <3>1. [s.item[k] EXCEPT !.id = NpcItem] = s.item[k]
      BY <2>1 DEF WoWItems
    <3>2. [s EXCEPT !.item[k].id = NpcItem] = s
      BY <2>1, <3>1 DEF States
    <3> QED
      BY <2>1, <3>1 DEF States
  <2>3. t = load([s EXCEPT !.item[k].look = l], k)
    BY <1>2, <2>2 DEF setDisplayId
  <2>4. l \in LooksIn(k) /\ NpcItem \notin Items
    BY InSlot
  <2> HIDE DEF t, l
  <2>5. l \in {NpcOutfits[k], NoLook}
    BY DEF l
  <2> QED
    BY <2>3, <2>4, <2>5, LookSet DEF t, l
<1> QED
  BY <1>1, <1>2

(***************************************************************************)
(* A handler tells the items something.                                    *)
(***************************************************************************)
Takes(s, k, d) ==
  \/ d.act = "none"
  \/ d.act = "item" /\ d.what \in Worn(k)
  \/ d.act = "import" /\ d.what \in Imported(k)
  \/ d.act = "npc" /\ d.what = NpcOutfits[k] /\ s.item[k].id = NpcItem
  \/ d.act = "saved" /\ d.what \in SavedItems(k) /\ (s.item[k].id \in Items => s.item[k].id = d.what.id)

(* Whatever a slot may be told keeps what is worn in order. *)
LEMMA Obeyed ==
  ASSUME NEW s, Fine(s), NEW k \in Slots, NEW d, Takes(s, k, d)
  PROVE  LET t == Tell(s, k, d)
         IN  /\ Fine(t) /\ Turned(s, t, k)
             /\ d.act = "item" => t.item[k].id = d.what
             /\ d.act \in {"npc", "none"} => t.item[k].id = s.item[k].id
<1> DEFINE t == Tell(s, k, d)
<1>1. CASE d.act = "none"
  <2>1. t = s
    BY <1>1 DEF Tell
  <2> QED
    BY <1>1, <2>1 DEF Turned
<1>2. CASE d.act = "item"
  <2>1. t = setId(s, k, d.what) /\ d.what \in Worn(k)
    BY <1>2 DEF Tell, Takes
  <2> HIDE DEF t
  <2> QED
    BY <1>2, <2>1, IdSet DEF t
<1>3. CASE d.act = "import"
  <2> DEFINE u == setId(s, k, d.what[1])
  <2>1. t = setModifierId(u, k, d.what[2]) /\ d.what \in Imported(k)
    BY <1>3 DEF Tell, Takes
  <2>2. /\ d.what[1] \in Worn(k)
        /\ d.what[1] # NoItem => d.what[2] \in Modifiers /\ ModsOf[d.what[1]][d.what[2]] # NoLook
    BY <2>1, InSlot DEF Imported
  <2>3. Fine(u) /\ Turned(s, u, k) /\ u.item[k].id = d.what[1]
    BY <2>2, IdSet
  <2> HIDE DEF u, t
  <2>4. NoItem \notin Items
    BY InSlot
  <2>5. Fine(t) /\ Turned(u, t, k)
    BY <2>1, <2>2, <2>3, <2>4, ModifierSet
  <2> QED
    BY <1>3, <2>3, <2>5, TurnedOn DEF t
<1>4. CASE d.act = "npc"
  <2>1. t = setDisplayId(s, k, NpcOutfits[k]) /\ s.item[k].id = NpcItem
    BY <1>4 DEF Tell, Takes
  <2> HIDE DEF t
  <2> QED
    BY <1>4, <2>1, NpcSet DEF t
<1>5. CASE d.act = "saved"
  <2>1. t = loadSaved(s, k, d.what) /\ d.what \in SavedItems(k) /\ (s.item[k].id \in Items => s.item[k].id = d.what.id)
    BY <1>5 DEF Tell, Takes
  <2> HIDE DEF t
  <2> QED
    BY <1>5, <2>1, SavedLoaded DEF t
<1> QED
  BY <1>1, <1>2, <1>3, <1>4, <1>5 DEF Takes

(* An order has every slot. *)
LEMMA OrderList ==
  ASSUME NEW os \in Orders
  PROVE  /\ os \in Seq(Slots) /\ Len(os) \in Nat /\ \A i \in 1..Len(os) : os[i] \in Slots
         /\ Slots = {os[i] : i \in 1..Len(os)}
<1> DEFINE n == Cardinality(Slots)
<1>1. n \in Nat
  BY ItemsAssumption, FS_CardinalityType
<1>2. os \in [1..n -> Slots] /\ Range(os) = Slots
  BY DEF Orders
<1> HIDE DEF n
<1>3. os \in Seq(Slots) /\ Len(os) = n /\ DOMAIN os = 1..n
  BY <1>1, <1>2
<1> QED
  BY <1>1, <1>2, <1>3 DEF Range

(* The passes of a handler over the slots. *)
TellPass(V, os, told) == [i \in 1..Len(os) |-> [t \in V |-> Tell(t, os[i], told[os[i]])]]

(* A handler ends with what its passes over the slots end with. *)
LEMMA TellLoop ==
  ASSUME NEW V, NEW s \in V, NEW os \in Orders, NEW told,
         \A t \in V : \A k \in Slots : Tell(t, k, told[k]) \in V
  PROVE  Ran(TellAll(s, os, told), Len(os), V, s, TellPass(V, os, told))
<1> DEFINE n == Len(os)
           D(f) == [i \in 0..Len(os) |->
                       IF i = 0 THEN s
                       ELSE CHOOSE t \in {Tell(u, os[i], told[os[i]]) : u \in {f[i - 1]}} : TRUE]
           g == CHOOSE f : f = D(f)
<1>0. s \in V
  OBVIOUS
<1>1. n \in Nat
  BY OrderList
<1>2. TellPass(V, os, told) \in [1..n -> [V -> V]]
  <2>1. \A i \in 1..n : \A t \in V : Tell(t, os[i], told[os[i]]) \in V
    BY OrderList
  <2> QED
    BY <2>1 DEF TellPass
<1>3. \A i \in 1..n : \A t \in V : TellPass(V, os, told)[i][t] = Tell(t, os[i], told[os[i]])
  BY DEF TellPass
<1>4. ASSUME NEW f, NEW i \in 1..n PROVE D(f)[i] = Tell(f[i - 1], os[i], told[os[i]])
  OBVIOUS
<1>5. ASSUME NEW f PROVE D(f)[0] = s /\ D(f) = [i \in 0..n |-> D(f)[i]]
  BY <1>1
<1>6. TellAll(s, os, told) = g[n]
  BY DEF TellAll, Loop
<1>7. PICK r : Run(r, n, V, s, TellPass(V, os, told))
  <2> HIDE DEF n, D
  <2> QED
    BY ONLY <1>0, <1>1, <1>2, Recursion
<1>8. r = D(r)
  <2>1. ASSUME NEW i \in 0..n PROVE r[i] = D(r)[i]
    <3>1. CASE i = 0
      BY <1>5, <1>7, <3>1 DEF Run
    <3>2. CASE i # 0
      <4>1. i \in 1..n /\ i - 1 \in 0..n
        BY <1>1, <3>2
      <4>2. r[i - 1] \in V /\ r[i] = TellPass(V, os, told)[i][r[i - 1]]
        BY <1>7, <4>1 DEF Run
      <4>3. r[i] = Tell(r[i - 1], os[i], told[os[i]])
        BY <1>3, <4>1, <4>2
      <4> QED
        BY <1>4, <4>1, <4>3
    <3> QED
      BY <3>1, <3>2
  <2>2. D(r) = [i \in 0..n |-> D(r)[i]]
    BY <1>5
  <2> HIDE DEF D, n
  <2>3. r = [i \in 0..n |-> r[i]]
    BY <1>7 DEF Run
  <2> QED
    BY <2>1, <2>2, <2>3
<1>9. g = D(g)
  <2> HIDE DEF D
  <2> QED
    BY <1>8
<1>10. /\ g = [i \in 0..n |-> g[i]] /\ g[0] = s
       /\ \A i \in 1..n : g[i] = Tell(g[i - 1], os[i], told[os[i]])
  <2>1. D(g)[0] = s /\ D(g) = [i \in 0..n |-> D(g)[i]]
    BY <1>5
  <2> HIDE DEF D, g
  <2> QED
    BY <1>4, <1>9, <2>1
<1> HIDE DEF g, D, n
<1>11. Run(g, n, V, s, TellPass(V, os, told))
  <2>1. \A i \in 1..n : g[i - 1] \in V => g[i] = TellPass(V, os, told)[i][g[i - 1]]
    BY <1>3, <1>10
  <2> QED
    BY ONLY <1>0, <1>1, <1>2, <1>10, <2>1, IsRun
<1> QED
  BY <1>6, <1>11 DEF Ran, n

(* What being told leaves of slot l, and what another slot being told keeps of
   it, holds of every slot in the end. *)
LEMMA AllTold ==
  ASSUME NEW V, NEW s \in V, NEW os \in Orders, NEW told,
         \A t \in V : \A k \in Slots : Tell(t, k, told[k]) \in V,
         NEW Q, \A k, l \in Slots : \A t \in V : k = l \/ t \in Q[l] => Tell(t, k, told[k]) \in Q[l]
  PROVE  LET t == TellAll(s, os, told) IN t \in V /\ \A l \in Slots : t \in Q[l]
<1> DEFINE n == Len(os)
           x == TellAll(s, os, told)
           P == [m \in 0..n |-> {t \in V : \A j \in 1..m : t \in Q[os[j]]}]
           F == TellPass(V, os, told)
<1>1. n \in Nat /\ \A i \in 1..n : os[i] \in Slots
  BY OrderList
<1>2. Slots = {os[i] : i \in 1..n}
  BY OrderList
<1>3. Ran(x, n, V, s, F)
  BY TellLoop
<1>4. \A i \in 1..n : \A t \in V : F[i][t] = Tell(t, os[i], told[os[i]])
  BY DEF TellPass
<1>5. s \in P[0]
  BY <1>1
<1>6. \A m \in 0..n : \A t \in V : t \in P[m] <=> \A j \in 1..m : t \in Q[os[j]]
  BY <1>1
<1> HIDE DEF n, x, P, F
<1>7. ASSUME NEW i \in 1..n, NEW t \in V, t \in P[i - 1] PROVE F[i][t] \in P[i]
  <2>1. i \in 0..n /\ i - 1 \in 0..n /\ os[i] \in Slots
    BY <1>1
  <2>2. \A j \in 1..(i - 1) : t \in Q[os[j]]
    BY <1>6, <1>7, <2>1
  <2>3. F[i][t] = Tell(t, os[i], told[os[i]]) /\ F[i][t] \in V
    BY <1>4, <2>1
  <2>4. ASSUME NEW j \in 1..i PROVE F[i][t] \in Q[os[j]]
    <3>1. os[j] \in Slots /\ (j = i \/ j \in 1..(i - 1))
      BY <1>1
    <3>2. os[i] = os[j] \/ t \in Q[os[j]]
      BY <2>2, <3>1
    <3> QED
      BY <2>1, <2>3, <3>1, <3>2
  <2> QED
    BY <1>6, <2>1, <2>3, <2>4
<1>8. x \in V /\ x \in P[n]
  <2>1. \A i \in 1..n : \A t \in V : t \in P[i - 1] => F[i][t] \in P[i]
    BY <1>7
  <2> QED
    BY ONLY <1>1, <1>3, <1>5, <2>1, Along
<1>9. \A l \in Slots : x \in Q[l]
  <2>1. n \in 0..n
    BY <1>1
  <2>2. \A j \in 1..n : x \in Q[os[j]]
    BY <1>6, <1>8, <2>1
  <2> QED
    BY <1>2, <2>2
<1> QED
  BY <1>8, <1>9 DEF x

(* What the slots do not touch. *)
Aside(s, t) == t.cache = s.cache /\ t.custom = s.custom /\ Customs(t) = Customs(s)
Worns(s) == {t \in States : Fine(t) /\ Aside(s, t)}

(* One slot is turned after others. *)
LEMMA TurnedAside ==
  ASSUME NEW s, NEW t, NEW u, NEW k, Aside(s, t), Turned(t, u, k)
  PROVE  Aside(s, u) /\ \A l \in Slots : l # k => u.item[l] = t.item[l]
  BY DEF Aside, Turned

(* A set of items, one for each slot. *)
LEMMA ItemsTold ==
  ASSUME NEW s, Fine(s), NEW os \in Orders, NEW told,
         \A k \in Slots : \/ told[k].act = "none"
                          \/ told[k].act = "item" /\ told[k].what \in Worn(k)
                          \/ told[k].act = "import" /\ told[k].what \in Imported(k)
  PROVE  LET t == TellAll(s, os, told)
         IN  /\ Fine(t) /\ Aside(s, t)
             /\ \A k \in Slots : told[k].act = "item" => t.item[k].id = told[k].what
<1> DEFINE V == Worns(s)
           x == TellAll(s, os, told)
           Q == [l \in Slots |-> {t \in V : told[l].act = "item" => t.item[l].id = told[l].what}]
<1>1. s \in V
  BY DEF Worns, Aside, Fine, Sound
<1>2. ASSUME NEW t \in V, NEW k \in Slots
      PROVE  LET u == Tell(t, k, told[k])
             IN  /\ u \in V /\ \A l \in Slots : l # k => u.item[l] = t.item[l]
                 /\ told[k].act = "item" => u.item[k].id = told[k].what
  <2> DEFINE u == Tell(t, k, told[k])
  <2>1. Fine(t) /\ Aside(s, t) /\ Takes(t, k, told[k])
    BY DEF Worns, Takes
  <2>2. Fine(u) /\ Turned(t, u, k) /\ (told[k].act = "item" => u.item[k].id = told[k].what)
    BY <2>1, Obeyed
  <2> HIDE DEF u
  <2>3. Aside(s, u) /\ \A l \in Slots : l # k => u.item[l] = t.item[l]
    BY ONLY <2>1, <2>2, TurnedAside
  <2>4. u \in V
    BY <2>2, <2>3 DEF Worns, Fine, Sound
  <2> QED
    BY <2>2, <2>3, <2>4 DEF u
<1>3. \A t \in V : \A k \in Slots : Tell(t, k, told[k]) \in V
  BY <1>2
<1>4. \A l \in Slots : \A t : t \in Q[l] <=> t \in V /\ (told[l].act = "item" => t.item[l].id = told[l].what)
  OBVIOUS
<1>5. ASSUME NEW k \in Slots, NEW l \in Slots, NEW t \in V, k = l \/ t \in Q[l]
      PROVE  Tell(t, k, told[k]) \in Q[l]
  <2> DEFINE u == Tell(t, k, told[k])
  <2>1. /\ u \in V /\ \A h \in Slots : h # k => u.item[h] = t.item[h]
        /\ told[k].act = "item" => u.item[k].id = told[k].what
    BY <1>2
  <2> HIDE DEF u, Q, V
  <2>2. u \in Q[l]
    BY <1>4, <1>5, <2>1
  <2> QED
    BY <2>2 DEF u
<1>6. x \in V /\ \A l \in Slots : x \in Q[l]
  <2>1. \A k, l \in Slots : \A t \in V : k = l \/ t \in Q[l] => Tell(t, k, told[k]) \in Q[l]
    BY <1>5
  <2> HIDE DEF Q, V
  <2> QED
    BY ONLY <1>1, <1>3, <2>1, AllTold
<1> HIDE DEF x
<1> QED
  BY <1>4, <1>6 DEF Worns, x

(* What handlers are given has a part for each slot. *)
LEMMA PerSlots ==
  /\ \A o \in Outfits : \A k \in Slots : o[k] \in Worn(k)
  /\ \A o \in Imports : \A k \in Slots : o[k] \in Imported(k)
  /\ \A o \in SavedFiles : \A k \in Slots : o[k] \in SavedItems(k)
  BY DEF Outfits, Imports, SavedFiles, PerSlot

(* Everything is taken off. *)
LEMMA Cleared ==
  ASSUME NEW s, Fine(s), NEW os \in Orders
  PROVE  LET t == Clear(s, os) IN Fine(t) /\ Aside(s, t) /\ \A k \in Slots : t.item[k].id = NoItem
<1> DEFINE told == [k \in Slots |-> Told("item", NoItem)]
<1>1. \A k \in Slots : told[k].act = "item" /\ told[k].what = NoItem
  BY DEF Told
<1>2. Clear(s, os) = TellAll(s, os, told)
  BY DEF Clear
<1>3. \A k \in Slots : told[k].what \in Worn(k)
  BY <1>1 DEF Worn
<1> HIDE DEF told
<1>4. \A k \in Slots : told[k].act = "item" /\ told[k].what \in Worn(k)
  BY <1>1, <1>3
<1>5. LET t == TellAll(s, os, told)
      IN  Fine(t) /\ Aside(s, t) /\ \A k \in Slots : told[k].act = "item" => t.item[k].id = told[k].what
  BY <1>4, ItemsTold
<1> QED
  BY <1>1, <1>2, <1>5

(* Steps that leave the customization alone compose. *)
LEMMA AsideOn ==
  ASSUME NEW s, NEW t, NEW u, Aside(s, t), Aside(t, u) PROVE Aside(s, u)
  BY DEF Aside

(* A set or a start outfit is put on. *)
LEMMA OutfitWorn ==
  ASSUME NEW s, Fine(s), NEW os \in Orders, NEW o \in Outfits
  PROVE  LET t == wearOutfit(s, o, os) IN Fine(t) /\ Aside(s, t)
<1> DEFINE told == [k \in Slots |-> tryToEquipItem(o[k])]
           c == Clear(s, os)
<1>1. ASSUME NEW k \in Slots
      PROVE  told[k].act = "none" \/ (told[k].act = "item" /\ told[k].what \in Worn(k))
  BY PerSlots DEF tryToEquipItem, Told
<1>2. wearOutfit(s, o, os) = TellAll(c, os, told)
  BY DEF wearOutfit
<1>3. Fine(c) /\ Aside(s, c)
  BY Cleared
<1> HIDE DEF told, c
<1>4. LET t == TellAll(c, os, told) IN Fine(t) /\ Aside(c, t)
  BY <1>1, <1>3, ItemsTold
<1> QED
  BY <1>2, <1>3, <1>4, AsideOn

(* A character is imported. *)
LEMMA ImportWorn ==
  ASSUME NEW s, Fine(s), NEW os \in Orders, NEW w \in Imports
  PROVE  LET t == wearImported(s, w, os) IN Fine(t) /\ Aside(s, t)
<1> DEFINE told == [k \in Slots |-> Told("import", w[k])]
<1>1. \A k \in Slots : told[k].act = "import" /\ told[k].what \in Imported(k)
  BY PerSlots DEF Told
<1>2. wearImported(s, w, os) = TellAll(s, os, told)
  BY DEF wearImported
<1> HIDE DEF told
<1>3. LET t == TellAll(s, os, told) IN Fine(t) /\ Aside(s, t)
  BY <1>1, ItemsTold
<1> QED
  BY <1>2, <1>3

(* An NPC is shown. *)
LEMMA NpcWorn ==
  ASSUME NEW s, Fine(s), NEW os \in Orders, \A k \in Slots : s.item[k].id = NpcItem
  PROVE  LET t == wearNpc(s, os) IN Fine(t) /\ Aside(s, t)
<1> DEFINE told == [k \in Slots |-> Told(IF NpcOutfits[k] = NoLook THEN "none" ELSE "npc", NpcOutfits[k])]
           V == {t \in Worns(s) : \A k \in Slots : t.item[k].id = NpcItem}
           Q == [l \in Slots |-> V]
           x == TellAll(s, os, told)
<1>1. \A k \in Slots : told[k].act \in {"npc", "none"} /\ told[k].what = NpcOutfits[k]
  BY DEF Told
<1>2. wearNpc(s, os) = x
  BY DEF wearNpc
<1>3. s \in V
  BY DEF Worns, Aside, Fine, Sound
<1> HIDE DEF told
<1>4. ASSUME NEW t \in V, NEW k \in Slots PROVE Tell(t, k, told[k]) \in V
  <2> DEFINE u == Tell(t, k, told[k])
  <2>1. Fine(t) /\ Aside(s, t) /\ \A l \in Slots : t.item[l].id = NpcItem
    BY DEF Worns
  <2>2. Takes(t, k, told[k])
    BY <1>1, <2>1 DEF Takes
  <2>3. Fine(u) /\ Turned(t, u, k) /\ u.item[k].id = NpcItem
    <3>1. Fine(u) /\ Turned(t, u, k) /\ (told[k].act \in {"npc", "none"} => u.item[k].id = t.item[k].id)
      BY <2>1, <2>2, Obeyed
    <3> HIDE DEF u
    <3> QED
      BY <1>1, <2>1, <3>1
  <2> HIDE DEF u
  <2>4. Aside(s, u) /\ \A l \in Slots : l # k => u.item[l] = t.item[l]
    BY ONLY <2>1, <2>3, TurnedAside
  <2>5. \A l \in Slots : u.item[l].id = NpcItem
    BY <2>1, <2>3, <2>4
  <2>6. u \in V
    BY <2>3, <2>4, <2>5 DEF Worns, Fine, Sound
  <2> QED
    BY <2>6 DEF u
<1>5. x \in V
  <2>1. \A t \in V : \A k \in Slots : Tell(t, k, told[k]) \in V
    BY <1>4
  <2>2. \A k, l \in Slots : \A t \in V : k = l \/ t \in Q[l] => Tell(t, k, told[k]) \in Q[l]
    BY <1>4
  <2> HIDE DEF V, Q
  <2> QED
    BY <1>3, <2>1, <2>2, AllTold
<1> QED
  BY <1>2, <1>5 DEF Worns

(* A saved character is read into a new one or one that wears nothing. *)
Came(new, f, w) == new \/ f.id \in Items => Look(w) = Look(f)
LEMMA SavedWorn ==
  ASSUME NEW s, Fine(s), NEW os \in Orders, NEW f \in SavedFiles, NEW new \in BOOLEAN,
         \A k \in Slots : IF new THEN s.item[k].id = NpcItem /\ s.item[k].look = NoLook
                          ELSE s.item[k].id = NoItem
  PROVE  LET t == wearSaved(s, f, os)
         IN  Fine(t) /\ Aside(s, t) /\ \A k \in Slots : Came(new, f[k], t.item[k])
<1> DEFINE told == [k \in Slots |-> Told("saved", f[k])]
           In(t, l) == /\ t.item[l].id \in Items => t.item[l].id = f[l].id
                       /\ new /\ f[l].id = NpcItem =>
                             t.item[l].id = NpcItem /\ t.item[l].look \in {NoLook, f[l].look}
           V == {t \in Worns(s) : \A l \in Slots : In(t, l)}
           Q == [l \in Slots |-> {t \in V : Came(new, f[l], t.item[l])}]
           x == TellAll(s, os, told)
<1>1. \A k \in Slots : told[k].act = "saved" /\ told[k].what = f[k] /\ f[k] \in SavedItems(k)
  BY PerSlots DEF Told
<1>2. wearSaved(s, f, os) = x
  BY DEF wearSaved
<1>3. s \in V
  <2>1. s \in Worns(s)
    BY DEF Worns, Aside, Fine, Sound
  <2>2. ASSUME NEW l \in Slots PROVE In(s, l)
    BY InSlot
  <2> QED
    BY <2>1, <2>2
<1> HIDE DEF told
<1>4. ASSUME NEW t \in V, NEW k \in Slots
      PROVE  LET u == Tell(t, k, told[k])
             IN  /\ u \in V /\ \A l \in Slots : l # k => u.item[l] = t.item[l]
                 /\ Came(new, f[k], u.item[k])
  <2> DEFINE u == Tell(t, k, told[k])
             w == f[k]
  <2>1. Fine(t) /\ Aside(s, t) /\ \A l \in Slots : In(t, l)
    BY DEF Worns
  <2>2. Takes(t, k, told[k]) /\ u = loadSaved(t, k, w)
    BY <1>1, <2>1 DEF Takes, Tell
  <2>3. /\ w.id \in Worn(k) \cup {NpcItem}
        /\ \A i \in Worn(k) : i # NoItem => i \in Items
        /\ NoItem \notin Items /\ NpcItem \notin Items /\ NoItem # NpcItem
    BY <1>1, InSlot, SavedKinds
  <2>4. /\ Fine(u) /\ Turned(t, u, k)
        /\ u.item[k].id = IF w.id = NpcItem THEN t.item[k].id ELSE w.id
        /\ w.id \in Items => u.item[k].look = w.look
        /\ w.id = NpcItem /\ t.item[k].id = NpcItem =>
              u.item[k].look = IF w.look = NoLook THEN t.item[k].look ELSE w.look
    <3>1. w \in SavedItems(k) /\ (t.item[k].id \in Items => t.item[k].id = w.id)
      BY <1>1, <2>1
    <3> QED
      BY <2>1, <2>2, <3>1, SavedLoaded
  <2> HIDE DEF u, w
  <2>5. Aside(s, u) /\ \A l \in Slots : l # k => u.item[l] = t.item[l]
    BY ONLY <2>1, <2>4, TurnedAside
  <2>6. In(t, k) /\ w = f[k]
    BY <2>1 DEF w
  <2>7. In(u, k) /\ Came(new, w, u.item[k])
    BY <2>3, <2>4, <2>6 DEF Came, Look
  <2>8. \A l \in Slots : In(u, l)
    BY <2>1, <2>5, <2>7
  <2>9. u \in V
    <3>1. u \in Worns(s)
      BY <2>4, <2>5 DEF Worns, Fine, Sound
    <3> HIDE DEF In
    <3> QED
      BY <2>8, <3>1
  <2> HIDE DEF V, In
  <2> QED
    BY <2>5, <2>6, <2>7, <2>9 DEF u
<1>5. x \in V /\ \A l \in Slots : x \in Q[l]
  <2>1. \A t \in V : \A k \in Slots : Tell(t, k, told[k]) \in V
    <3> HIDE DEF V
    <3> QED
      BY <1>4
  <2>2. \A l \in Slots : \A t : t \in Q[l] <=> t \in V /\ Came(new, f[l], t.item[l])
    <3> HIDE DEF V
    <3> QED
      OBVIOUS
  <2> HIDE DEF V, Q
  <2>3. \A k, l \in Slots : \A t \in V : k = l \/ t \in Q[l] => Tell(t, k, told[k]) \in Q[l]
    BY <1>4, <2>2
  <2> QED
    BY ONLY <1>3, <2>1, <2>3, AllTold
<1>6. \A l \in Slots : x \in Q[l] => Came(new, f[l], x.item[l])
  <2> HIDE DEF V
  <2> QED
    OBVIOUS
<1> HIDE DEF x, Q
<1> QED
  BY <1>2, <1>5, <1>6 DEF Worns

(* A new character. *)
LEMMA FreshFine == Fine(Fresh) /\ Customs(Fresh) = {} /\ Fresh.tree = <<>>
<1> DEFINE s == Fresh
<1>1. /\ s.heap = {} /\ s.tree = <<>> /\ s.merged = {} /\ s.cache = {} /\ s.custom = {}
      /\ s.item = [k \in Slots |-> NewItem]
  BY DEF Fresh
<1>2. NewItem \in WoWItems
  <2>1. <<>> \in Seq(Looks) /\ <<>> \in Seq(Objects)
    OBVIOUS
  <2>2. [m \in Modifiers |-> NoLook] \in [Modifiers -> Looks \cup {NoLook}]
    OBVIOUS
  <2> QED
    BY <2>1, <2>2 DEF NewItem, WoWItems
<1>3. s \in States
  <2>1. <<>> \in Seq(Atts)
    OBVIOUS
  <2>2. s.item \in [Slots -> WoWItems]
    BY <1>1, <1>2
  <2>3. {} \in SUBSET Objects /\ {} \in SUBSET CustomFiles
    OBVIOUS
  <2>4. s = [heap |-> s.heap, item |-> s.item, tree |-> s.tree, merged |-> s.merged, cache |-> s.cache, custom |-> s.custom]
    BY DEF Fresh
  <2> HIDE DEF s
  <2> QED
    BY <1>1, <2>1, <2>2, <2>3, <2>4 DEF States
<1>4. ASSUME NEW k \in Slots
      PROVE  Models(s, k) = {} /\ Merges(s, k) = {} /\ Slim(s.item[k]) /\ Distinct(s)
  BY <1>1, ItemsAssumption DEF Models, Merges, Range, NewItem, Slim, Distinct
<1>5. ASSUME NEW k \in Slots PROVE Clad(k, s.item[k])
  <2>1. s.item[k] = NewItem
    BY <1>1
  <2> QED
    BY <2>1, InSlot DEF NewItem, Clad
<1>6. Tidy(s.tree) /\ Hung(s)
  BY <1>1, <1>3 DEF Tidy, FirstTwice, Few, Hung
<1>7. Stocked(s) /\ IsFiniteSet(s.heap)
  <2>1. IsFiniteSet({}) /\ Cardinality({}) = 0
    BY FS_EmptySet
  <2> QED
    BY <1>1, <2>1, FilesAssumption DEF Stocked, Customs
<1>8. Alive(s) /\ Owned(s) /\ Apart(s) /\ Customs(s) = {}
  BY <1>1, <1>4 DEF Alive, Owned, Apart, Customs
<1>9. Distinct(s)
  BY <1>4 DEF Distinct
<1> HIDE DEF s
<1>10. Fine(s) /\ Customs(s) = {} /\ s.tree = <<>>
  BY <1>1, <1>3, <1>4, <1>5, <1>6, <1>7, <1>8, <1>9 DEF Fine, Sound
<1> QED
  BY <1>10 DEF s

(***************************************************************************)
(* The customization's models.                                             *)
(***************************************************************************)
(* t differs from s in the objects of the customization. *)
Stored(s, t) == /\ t.item = s.item /\ t.tree = s.tree /\ t.custom = s.custom
                /\ \A o : o[1] \notin CustomFiles => (o \in t.merged <=> o \in s.merged)
Kinds(s) == {o[1] : o \in Customs(s)}

(* Steps of the customization compose. *)
LEMMA StoredOn ==
  ASSUME NEW s, NEW t, NEW u, Stored(s, t), Stored(t, u) PROVE Stored(s, u)
  BY DEF Stored

(* No slot names an object of the customization, and none of them is drawn. *)
LEMMA Backstage ==
  ASSUME NEW s, Sound(s)
  PROVE  /\ \A o \in s.cache : o \in s.heap /\ o \in Objects /\ o \notin s.merged
         /\ \A o \in s.merged : o \in s.heap /\ o \in Objects
         /\ \A o \in Customs(s) \cup s.cache :
               /\ o[1] \in CustomFiles /\ \A i \in DOMAIN s.tree : s.tree[i].model # o
               /\ \A k \in Slots : o \notin Models(s, k) /\ o \notin Merges(s, k)
<1>1. s \in States /\ Alive(s) /\ Apart(s) /\ Stocked(s) /\ Hung(s)
  BY DEF Sound
<1>2. /\ s.cache \subseteq s.heap /\ s.merged \subseteq s.heap /\ s.heap \subseteq Objects
      /\ \A o \in s.merged : o \notin s.cache
  BY <1>1, Types DEF Alive, Apart
<1>3. ASSUME NEW o \in Customs(s) \cup s.cache
      PROVE  o[1] \in CustomFiles /\ o # Null /\ \A k \in Slots : o \notin Models(s, k) /\ o \notin Merges(s, k)
  <2>1. o[1] \in CustomFiles /\ (o \in s.merged \/ o \in s.cache)
    BY <1>1, <1>3 DEF Stocked, Customs
  <2>2. o \in Objects /\ Null \notin Objects
    BY <1>2, <2>1, FileTypes
  <2> QED
    BY <1>1, <2>1, <2>2 DEF Apart
<1>4. ASSUME NEW o \in Customs(s) \cup s.cache, NEW i \in DOMAIN s.tree PROVE s.tree[i].model # o
  <2>1. s.tree[i].slot \in Slots
    BY <1>1, Types
  <2> QED
    BY <1>1, <1>3, <2>1 DEF Hung
<1> QED
  BY <1>2, <1>3, <1>4

(* What is sound but for the customization's objects. *)
LEMMA StillSound ==
  ASSUME NEW s, Sound(s), NEW t \in States, Stored(s, t), IsFiniteSet(t.heap),
         t.merged \subseteq t.heap, t.cache \subseteq t.heap, Stocked(t),
         \A o \in t.merged : o \notin t.cache,
         \A o : o[1] \notin CustomFiles => (o \in t.heap <=> o \in s.heap),
         \A o \in s.heap : o \notin Customs(s) /\ o \notin s.cache => o \in t.heap,
         \A o \in t.heap : (o \in s.heap /\ o \notin Customs(s) /\ o \notin s.cache) \/ o \in t.merged \/ o \in t.cache,
         \A o \in t.merged \cup t.cache : o \in s.heap => o \in s.merged \/ o \in s.cache
  PROVE  Sound(t)
<1>1. /\ s \in States /\ Alive(s) /\ Owned(s) /\ Apart(s) /\ Stocked(s) /\ Distinct(s) /\ Hung(s) /\ Tidy(s.tree)
  BY DEF Sound
<1>2. /\ \A k \in Slots : Models(t, k) = Models(s, k) /\ Merges(t, k) = Merges(s, k)
      /\ t.tree = s.tree /\ t.item = s.item
      /\ \A o : o[1] \notin CustomFiles => (o \in t.merged <=> o \in s.merged)
  BY DEF Stored, Models, Merges
<1>3. /\ Distinct(t) /\ Tidy(t.tree)
  BY <1>1, <1>2 DEF Distinct
<1>4. Hung(t)
  <2>1. \A i \in DOMAIN s.tree : s.tree[i].slot \in Slots
    BY <1>1, Types
  <2> QED
    BY <1>1, <1>2, <2>1 DEF Hung
<1>5. /\ \A o \in Customs(s) \cup s.cache : \A k \in Slots : o \notin Models(s, k) /\ o \notin Merges(s, k)
      /\ \A o \in s.cache : o[1] \in CustomFiles
      /\ \A o \in t.cache : o[1] \in CustomFiles
  BY Backstage DEF Stocked
<1>6. Alive(t)
  <2>1. \A k \in Slots : Models(s, k) \subseteq s.heap /\ Merges(s, k) \subseteq s.heap
    BY <1>1 DEF Alive
  <2> QED
    BY <1>2, <1>5, <2>1 DEF Alive
<1>7. Owned(t)
  <2>1. ASSUME NEW o \in t.heap, o \notin t.merged, o \notin t.cache
        PROVE  \E k \in Slots : o \in Models(t, k) \/ o \in Merges(t, k)
    <3>1. o \in s.heap /\ o \notin Customs(s) /\ o \notin s.cache
      BY <2>1
    <3>2. o \notin s.merged
      BY <1>2, <2>1, <3>1 DEF Customs
    <3>3. \E k \in Slots : o \in Models(s, k) \/ o \in Merges(s, k)
      BY <1>1, <3>1, <3>2 DEF Owned
    <3> QED
      BY <1>2, <3>3
  <2> QED
    BY <2>1 DEF Owned
<1>8. Apart(t)
  <2>1. \A k, l \in Slots : \A o : /\ k # l => /\ ~(o \in Models(t, k) /\ o \in Models(t, l))
                                               /\ ~(o \in Merges(t, k) /\ o \in Merges(t, l))
                                   /\ ~(o \in Models(t, k) /\ o \in Merges(t, l))
    BY <1>1, <1>2 DEF Apart
  <2>2. ASSUME NEW k \in Slots, NEW o \in Models(t, k) PROVE o \notin t.merged /\ o \notin t.cache
    <3>1. o \in s.heap /\ o \notin s.merged /\ o \notin s.cache
      BY <1>1, <1>2 DEF Apart, Alive
    <3> QED
      BY <3>1
  <2>3. ASSUME NEW k \in Slots, NEW o \in Merges(t, k) PROVE o \notin t.cache /\ o[1] \notin CustomFiles
    BY <1>1, <1>2, <1>5 DEF Apart
  <2>4. ASSUME NEW o \in t.merged, o[1] \notin CustomFiles PROVE \E k \in Slots : o \in Merges(t, k)
    BY <1>1, <1>2, <2>4 DEF Apart
  <2> QED
    BY <2>1, <2>2, <2>3, <2>4 DEF Apart
<1> QED
  BY <1>3, <1>4, <1>6, <1>7, <1>8 DEF Sound

(* The cache has a file with the least number. *)
LEMMA LeastCached ==
  ASSUME NEW s, Sound(s), s.cache # {}
  PROVE  (CHOOSE o \in s.cache : \A p \in s.cache : o[1] <= p[1]) \in s.cache
<1>1. \A o \in s.cache : o[1] \in Nat
  BY FileTypes DEF Sound, Stocked
<1>2. PICK m \in {o[1] : o \in s.cache} : \A n \in {o[1] : o \in s.cache} : m <= n
  <2>1. {o[1] : o \in s.cache} \in SUBSET Nat /\ {o[1] : o \in s.cache} # {}
    BY <1>1
  <2> QED
    BY <2>1, Least
<1>3. \E o \in s.cache : \A p \in s.cache : o[1] <= p[1]
  BY <1>2
<1> QED
  BY <1>3

(* makeRoom gives up one object of a full cache. *)
LEMMA RoomMade ==
  ASSUME NEW s, Sound(s), NEW o \in Customs(s)
  PROVE  LET r == [s EXCEPT !.merged = @ \ {o}]
             t == makeRoom(r)
         IN  /\ t \in States /\ t.item = s.item /\ t.tree = s.tree /\ t.custom = s.custom
             /\ t.merged = s.merged \ {o}
             /\ \/ t.heap = s.heap /\ t.cache = s.cache
                \/ \E p \in s.cache : t.heap = s.heap \ {p} /\ t.cache = s.cache \ {p}
             /\ IsFiniteSet(t.cache) /\ Cardinality(t.cache) < MaxCached
<1> DEFINE r == [s EXCEPT !.merged = @ \ {o}]
           t == makeRoom(r)
           p == CHOOSE q \in r.cache : \A h \in r.cache : q[1] <= h[1]
           d == Delete(r, {p})
<1>1. s \in States /\ IsFiniteSet(s.heap) /\ s.cache \subseteq s.heap /\ s.merged \subseteq Objects
      /\ Cardinality(s.cache) <= MaxCached
  BY Types DEF Sound, Alive, Stocked
<1>2. /\ r.heap = s.heap /\ r.item = s.item /\ r.tree = s.tree /\ r.cache = s.cache
      /\ r.custom = s.custom /\ r.merged = s.merged \ {o}
  BY <1>1 DEF States
<1>3. r \in States
  BY <1>1 DEF States
<1>4. IsFiniteSet(s.cache) /\ Cardinality(s.cache) \in Nat /\ MaxCached \in Nat \ {0}
  BY <1>1, FS_Subset, FS_CardinalityType, FilesAssumption
<1>5. t = IF Cardinality(r.cache) < MaxCached THEN r ELSE [d EXCEPT !.cache = @ \ {p}]
  BY DEF makeRoom
<1>6. p = CHOOSE q \in s.cache : \A h \in s.cache : q[1] <= h[1]
  BY <1>2
<1> HIDE DEF r, t, p
<1>7. CASE Cardinality(s.cache) < MaxCached
  BY <1>2, <1>3, <1>4, <1>5, <1>7 DEF t, r
<1>8. CASE ~(Cardinality(s.cache) < MaxCached)
  <2>1. s.cache # {}
    <3>1. Cardinality({}) = 0
      BY FS_EmptySet
    <3> QED
      BY <1>4, <1>8, <3>1
  <2>2. p \in s.cache
    BY <1>6, <2>1, LeastCached
  <2>3. p \in Objects /\ \A i \in DOMAIN s.tree : s.tree[i].model # p
    BY <2>2, Backstage
  <2>4. /\ d \in States /\ d.heap = r.heap \ {p} /\ d.item = r.item /\ d.merged = r.merged
        /\ d.cache = r.cache /\ d.custom = r.custom
    BY <1>3, <2>3, Deleted
  <2>5. d.tree = s.tree
    <3>1. \A i \in DOMAIN r.tree : r.tree[i].model \notin {p}
      BY <1>2, <2>3
    <3> HIDE DEF d
    <3>2. Delete(r, {p}).tree = r.tree
      BY <1>3, <2>3, <3>1, DeletedUndrawn
    <3> QED
      BY <1>2, <3>2 DEF d
  <2>6. t = [d EXCEPT !.cache = @ \ {p}]
    BY <1>2, <1>5, <1>8
  <2> HIDE DEF d
  <2>7. /\ t \in States /\ t.heap = s.heap \ {p} /\ t.item = s.item /\ t.tree = s.tree
        /\ t.custom = s.custom /\ t.merged = s.merged \ {o} /\ t.cache = s.cache \ {p}
    BY <1>2, <2>4, <2>5, <2>6 DEF States
  <2>8. IsFiniteSet(s.cache \ {p}) /\ Cardinality(s.cache \ {p}) = Cardinality(s.cache) - 1
    BY <1>4, <2>2, FS_RemoveElement
  <2>9. Cardinality(t.cache) < MaxCached /\ IsFiniteSet(t.cache)
    BY <1>1, <1>4, <2>7, <2>8
  <2> QED
    BY <2>2, <2>7, <2>9 DEF t, r
<1> QED
  BY <1>7, <1>8

(* A merged model is deleted, or goes to the cache. *)
LEMMA Pooled ==
  ASSUME NEW s, Sound(s), NEW o \in Customs(s), o[1] \notin BrokenFiles
  PROVE  LET t == poolMergedModel([s EXCEPT !.merged = @ \ {o}], o)
         IN  Sound(t) /\ Stored(s, t) /\ Customs(t) = Customs(s) \ {o}
<1> DEFINE r == [s EXCEPT !.merged = @ \ {o}]
           t == poolMergedModel(r, o)
<1>1. s \in States /\ IsFiniteSet(s.heap) /\ Stocked(s) /\ s.merged \subseteq Objects
  BY Types DEF Sound
<1>2. /\ r.heap = s.heap /\ r.item = s.item /\ r.tree = s.tree /\ r.cache = s.cache
      /\ r.custom = s.custom /\ r.merged = s.merged \ {o} /\ r \in States
  BY <1>1 DEF States
<1>3. /\ o \in s.merged /\ o[1] \in CustomFiles /\ o \in s.heap /\ o \in Objects /\ o \notin s.cache
      /\ \A i \in DOMAIN s.tree : s.tree[i].model # o
      /\ \A p \in s.cache : p \in s.heap /\ p \in Objects /\ p \notin s.merged /\ p[1] \in CustomFiles
      /\ \A p \in s.merged : p \in s.heap
  BY Backstage DEF Customs
<1>4. CASE OfFile(s.cache, o[1]) # {}
  <2> DEFINE d == Delete(r, {o})
  <2>1. t = d
    BY <1>2, <1>4 DEF poolMergedModel
  <2> HIDE DEF r, t
  <2>2. /\ d \in States /\ d.heap = r.heap \ {o} /\ d.item = r.item /\ d.merged = r.merged
        /\ d.cache = r.cache /\ d.custom = r.custom
    BY <1>2, <1>3, Deleted
  <2>3. d.tree = s.tree
    <3>1. \A i \in DOMAIN r.tree : r.tree[i].model \notin {o}
      BY <1>2, <1>3
    <3> HIDE DEF d
    <3>2. Delete(r, {o}).tree = r.tree
      BY <1>2, <1>3, <3>1, DeletedUndrawn
    <3> QED
      BY <1>2, <3>2 DEF d
  <2> HIDE DEF d
  <2>4. /\ t \in States /\ t.heap = s.heap \ {o} /\ t.cache = s.cache /\ t.merged = s.merged \ {o}
        /\ t.item = s.item /\ t.tree = s.tree /\ t.custom = s.custom
    BY <1>2, <2>1, <2>2, <2>3
  <2>5. Stored(s, t) /\ Customs(t) = Customs(s) \ {o}
    BY <1>3, <2>4 DEF Stored, Customs
  <2>6. IsFiniteSet(t.heap)
    BY <1>1, <2>4, FS_Subset
  <2>7. Stocked(t)
    BY <1>1, <2>4, <2>5 DEF Stocked
  <2>8. Sound(t)
    BY <1>3, <2>4, <2>5, <2>6, <2>7, StillSound DEF Customs
  <2> QED
    BY <2>5, <2>8 DEF t, r
<1>5. CASE OfFile(s.cache, o[1]) = {}
  <2> DEFINE m == makeRoom(r)
  <2>1. t = [m EXCEPT !.cache = @ \cup {o}]
    BY <1>2, <1>5 DEF poolMergedModel
  <2>2. /\ m \in States /\ m.item = s.item /\ m.tree = s.tree /\ m.custom = s.custom
        /\ m.merged = s.merged \ {o}
        /\ \/ m.heap = s.heap /\ m.cache = s.cache
           \/ \E p \in s.cache : m.heap = s.heap \ {p} /\ m.cache = s.cache \ {p}
        /\ IsFiniteSet(m.cache) /\ Cardinality(m.cache) < MaxCached
    BY RoomMade
  <2> HIDE DEF r, t, m
  <2>3. /\ t \in States /\ t.heap = m.heap /\ t.cache = m.cache \cup {o} /\ t.merged = s.merged \ {o}
        /\ t.item = s.item /\ t.tree = s.tree /\ t.custom = s.custom
    BY <1>3, <2>1, <2>2 DEF States
  <2>4. PICK gone \in SUBSET s.cache : m.heap = s.heap \ gone /\ m.cache = s.cache \ gone
    <3>1. CASE m.heap = s.heap /\ m.cache = s.cache
      <4>1. {} \in SUBSET s.cache /\ s.heap = s.heap \ {} /\ s.cache = s.cache \ {}
        OBVIOUS
      <4> QED
        BY <3>1, <4>1
    <3>2. CASE \E p \in s.cache : m.heap = s.heap \ {p} /\ m.cache = s.cache \ {p}
      <4>1. PICK p \in s.cache : m.heap = s.heap \ {p} /\ m.cache = s.cache \ {p}
        BY <3>2
      <4>2. {p} \in SUBSET s.cache
        OBVIOUS
      <4> QED
        BY <4>1, <4>2
    <3> QED
      BY <2>2, <3>1, <3>2
  <2>5. Stored(s, t) /\ Customs(t) = Customs(s) \ {o}
    BY <1>3, <2>3 DEF Stored, Customs
  <2>6. IsFiniteSet(t.heap)
    BY <1>1, <2>3, <2>4, FS_Subset
  <2>7. Stocked(t)
    <3>1. o \notin m.cache
      BY <1>3, <2>4
    <3>2. Cardinality(t.cache) = Cardinality(m.cache) + 1 /\ Cardinality(m.cache) \in Nat
      <4>1. IsFiniteSet(m.cache)
        BY <2>2
      <4>2. Cardinality(m.cache \cup {o}) = Cardinality(m.cache) + 1 /\ Cardinality(m.cache) \in Nat
        BY <3>1, <4>1, FS_AddElement, FS_CardinalityType
      <4> QED
        BY <2>3, <4>2
    <3>3. Cardinality(t.cache) <= MaxCached
      BY <2>2, <3>2, FilesAssumption
    <3>4. \A p \in s.cache : p[1] # o[1]
      BY <1>5 DEF OfFile
    <3>5. \A p \in t.cache : p = o \/ p \in s.cache
      BY <2>3, <2>4
    <3>6. \A p \in t.cache : p[1] \in CustomFiles /\ p[1] \notin BrokenFiles
      BY <1>1, <1>3, <3>5 DEF Stocked
    <3>7. \A p, q \in t.cache : p[1] = q[1] => p = q
      BY <1>1, <3>4, <3>5 DEF Stocked
    <3> QED
      BY <1>1, <2>5, <3>3, <3>6, <3>7 DEF Stocked
  <2>8. Sound(t)
    <3>1. t.heap = s.heap \ gone /\ t.cache = (s.cache \ gone) \cup {o} /\ o \notin gone
      BY <1>3, <2>3, <2>4
    <3> QED
      BY <1>3, <2>3, <2>4, <2>5, <2>6, <2>7, <3>1, StillSound DEF Customs
  <2> QED
    BY <2>5, <2>8 DEF t, r
<1> QED
  BY <1>4, <1>5

(* WoWModel::unmergeModel by file. *)
LEMMA Unmerged ==
  ASSUME NEW s, Sound(s), NEW f \in CustomFiles, Kinds(s) \cap BrokenFiles = {}
  PROVE  LET t == unmergeFile(s, f) IN Sound(t) /\ Stored(s, t) /\ Kinds(t) = Kinds(s) \ {f}
<1>1. CASE OfFile(s.merged, f) = {}
  <2>1. unmergeFile(s, f) = s
    BY <1>1 DEF unmergeFile
  <2>2. f \notin Kinds(s)
    BY <1>1 DEF Kinds, Customs, OfFile
  <2> QED
    BY <2>1, <2>2 DEF Stored
<1>2. CASE OfFile(s.merged, f) # {}
  <2> DEFINE o == CHOOSE p \in OfFile(s.merged, f) : TRUE
             t == poolMergedModel([s EXCEPT !.merged = @ \ {o}], o)
  <2>1. o \in s.merged /\ o[1] = f
    BY <1>2 DEF OfFile
  <2>2. unmergeFile(s, f) = t
    BY <1>2 DEF unmergeFile
  <2> HIDE DEF o
  <2>3. o \in Customs(s) /\ f \in Kinds(s) /\ o[1] \notin BrokenFiles
    BY <2>1 DEF Customs, Kinds
  <2>4. Sound(t) /\ Stored(s, t) /\ Customs(t) = Customs(s) \ {o}
    BY <2>3, Pooled
  <2> HIDE DEF t
  <2>5. Kinds(t) = Kinds(s) \ {f}
    <3>1. \A p \in Customs(s) : p[1] = f => p = o
      BY <2>1, <2>3 DEF Sound, Stocked
    <3> QED
      BY <2>1, <2>4, <3>1 DEF Kinds
  <2> QED
    BY <2>2, <2>4, <2>5
<1> QED
  BY <1>1, <1>2

(* WoWModel::mergeModel by file. *)
LEMMA Merged ==
  ASSUME NEW s, Sound(s), NEW f \in CustomFiles
  PROVE  LET t == mergeFile(s, f) IN Sound(t) /\ Stored(s, t) /\ Kinds(t) = Kinds(s) \cup ({f} \ BrokenFiles)
<1> DEFINE t == mergeFile(s, f)
<1>1. s \in States /\ IsFiniteSet(s.heap) /\ Stocked(s) /\ s.merged \subseteq Objects /\ s.heap \subseteq Objects
  BY Types DEF Sound
<1>2. /\ \A p \in s.cache : p \in s.heap /\ p \in Objects /\ p \notin s.merged /\ p[1] \in CustomFiles
      /\ \A p \in s.merged : p \in s.heap
  BY Backstage DEF Customs
<1>3. CASE OfFile(s.merged, f) # {}
  <2>1. t = s
    BY <1>3 DEF mergeFile
  <2>2. f \in Kinds(s)
    BY <1>3 DEF Kinds, Customs, OfFile
  <2> HIDE DEF t
  <2>3. Sound(t) /\ Stored(s, t) /\ Kinds(t) = Kinds(s) \cup ({f} \ BrokenFiles)
    BY <2>1, <2>2 DEF Stored
  <2> QED
    BY <2>3 DEF t
<1>4. CASE OfFile(s.merged, f) = {} /\ OfFile(s.cache, f) # {}
  <2> DEFINE o == CHOOSE p \in OfFile(s.cache, f) : TRUE
  <2>1. o \in s.cache /\ o[1] = f
    BY <1>4 DEF OfFile
  <2>2. t = takeCached(s, o)
    BY <1>4 DEF mergeFile
  <2> HIDE DEF o, t
  <2>3. /\ t \in States /\ t.heap = s.heap /\ t.merged = s.merged \cup {o} /\ t.cache = s.cache \ {o}
        /\ t.item = s.item /\ t.tree = s.tree /\ t.custom = s.custom
    BY <1>1, <1>2, <2>1, <2>2 DEF takeCached, States
  <2>4. f \notin BrokenFiles
    BY <1>1, <2>1 DEF Stocked
  <2>5. Stored(s, t) /\ Customs(t) = Customs(s) \cup {o}
    BY <2>1, <2>3 DEF Stored, Customs
  <2>6. Kinds(t) = Kinds(s) \cup ({f} \ BrokenFiles)
    BY <2>1, <2>4, <2>5 DEF Kinds
  <2>7. Stocked(t)
    <3>1. Cardinality(t.cache) <= MaxCached
      <4>1. IsFiniteSet(s.cache)
        BY <1>1, FS_Subset DEF Sound, Alive
      <4>2. Cardinality(t.cache) = Cardinality(s.cache) - 1 /\ Cardinality(s.cache) \in Nat
        BY <2>1, <2>3, <4>1, FS_RemoveElement, FS_CardinalityType
      <4> QED
        BY <1>1, <4>2, FilesAssumption DEF Stocked
    <3>2. \A p \in Customs(s) : p[1] # f
      BY <1>4 DEF OfFile, Customs
    <3>3. \A p, q \in Customs(t) : p[1] = q[1] => p = q
      BY <1>1, <2>1, <2>5, <3>2 DEF Stocked
    <3> QED
      BY <1>1, <2>3, <3>1, <3>3 DEF Stocked
  <2>8. Sound(t)
    BY <1>1, <1>2, <2>1, <2>3, <2>5, <2>7, StillSound DEF Customs
  <2> QED
    BY <2>5, <2>6, <2>8 DEF t
<1>5. CASE OfFile(s.merged, f) = {} /\ OfFile(s.cache, f) = {} /\ f \in BrokenFiles
  <2>1. t = s
    BY <1>5 DEF mergeFile
  <2> HIDE DEF t
  <2>2. Sound(t) /\ Stored(s, t) /\ Kinds(t) = Kinds(s) \cup ({f} \ BrokenFiles)
    BY <1>5, <2>1 DEF Stored
  <2> QED
    BY <2>2 DEF t
<1>6. CASE OfFile(s.merged, f) = {} /\ OfFile(s.cache, f) = {} /\ f \notin BrokenFiles
  <2> DEFINE o == NewObject(s, f)
  <2>1. o \in Objects /\ o[1] = f /\ o \notin s.heap
    BY FileTypes, Fresh1
  <2>2. t = [s EXCEPT !.heap = @ \cup {o}, !.merged = @ \cup {o}]
    BY <1>6 DEF mergeFile
  <2> HIDE DEF o, t
  <2>3. /\ t \in States /\ t.heap = s.heap \cup {o} /\ t.merged = s.merged \cup {o} /\ t.cache = s.cache
        /\ t.item = s.item /\ t.tree = s.tree /\ t.custom = s.custom
    BY <1>1, <2>1, <2>2 DEF States
  <2>4. Stored(s, t) /\ Customs(t) = Customs(s) \cup {o}
    BY <2>1, <2>3 DEF Stored, Customs
  <2>5. Kinds(t) = Kinds(s) \cup ({f} \ BrokenFiles)
    BY <1>6, <2>1, <2>4 DEF Kinds
  <2>6. Stocked(t)
    <3>1. \A p \in Customs(s) : p[1] # f
      BY <1>6 DEF OfFile, Customs
    <3>2. \A p, q \in Customs(t) : p[1] = q[1] => p = q
      BY <1>1, <2>1, <2>4, <3>1 DEF Stocked
    <3> QED
      BY <1>1, <2>3, <3>2 DEF Stocked
  <2>7. IsFiniteSet(t.heap)
    BY <1>1, <2>3, FS_AddElement
  <2>8. Sound(t)
    BY <1>1, <1>2, <2>1, <2>3, <2>4, <2>6, <2>7, StillSound DEF Customs
  <2> QED
    BY <2>4, <2>5, <2>8 DEF t
<1> QED
  BY <1>3, <1>4, <1>5, <1>6

(* The files of the customization, by number. *)
LEMMA CustomList ==
  /\ Len(CustomOrder) \in Nat
  /\ \A i \in 1..Len(CustomOrder) : CustomOrder[i] \in CustomFiles
  /\ CustomFiles = {CustomOrder[i] : i \in 1..Len(CustomOrder)}
<1>1. CustomOrder \in Seq(Nat)
  BY FilesAssumption
<1>2. Len(CustomOrder) \in Nat /\ DOMAIN CustomOrder = 1..Len(CustomOrder)
  BY <1>1
<1> QED
  BY <1>2 DEF CustomFiles, Range

(* What the refresh of the customization may have made of s. *)
Storage(s) == {t \in States : Sound(t) /\ Stored(s, t) /\ Kinds(t) \cap BrokenFiles = {}}

(* f, if it is no longer needed. *)
Unwanted(s, f, files) == {f} \cap (s.custom \ files)

(* A pass drops the file if it is no longer needed. *)
LEMMA OldDropped ==
  ASSUME NEW s, NEW files, NEW t \in Storage(s), NEW f \in CustomFiles
  PROVE  LET u == dropOld(t, f, files)
         IN  u \in Storage(s) /\ Kinds(u) = Kinds(t) \ Unwanted(s, f, files)
<1> DEFINE u == dropOld(t, f, files)
<1>1. Sound(t) /\ Stored(s, t) /\ Kinds(t) \cap BrokenFiles = {} /\ t.custom = s.custom
  BY DEF Storage, Stored
<1>2. CASE f \in s.custom \ files
  <2>1. u = unmergeFile(t, f)
    BY <1>1, <1>2 DEF dropOld
  <2>2. Sound(u) /\ Stored(t, u) /\ Kinds(u) = Kinds(t) \ {f}
    BY <1>1, <2>1, Unmerged
  <2> HIDE DEF u
  <2>3. Stored(s, u)
    BY <1>1, <2>2, StoredOn
  <2>4. u \in Storage(s)
    BY <1>1, <2>2, <2>3 DEF Storage, Sound
  <2> QED
    BY <1>2, <2>2, <2>4 DEF u, Unwanted
<1>3. CASE f \notin s.custom \ files
  BY <1>1, <1>3 DEF dropOld, Unwanted
<1> QED
  BY <1>2, <1>3

(* A pass merges the file if it is newly needed. *)
LEMMA NewMerged ==
  ASSUME NEW s, NEW files, NEW t \in Storage(s), NEW f \in CustomFiles
  PROVE  LET u == mergeNew(t, f, files)
         IN  u \in Storage(s) /\ Kinds(u) = Kinds(t) \cup (({f} \cap (files \ s.custom)) \ BrokenFiles)
<1> DEFINE u == mergeNew(t, f, files)
<1>1. Sound(t) /\ Stored(s, t) /\ Kinds(t) \cap BrokenFiles = {} /\ t.custom = s.custom
  BY DEF Storage, Stored
<1>2. CASE f \in files \ s.custom
  <2>1. u = mergeFile(t, f)
    BY <1>1, <1>2 DEF mergeNew
  <2>2. Sound(u) /\ Stored(t, u) /\ Kinds(u) = Kinds(t) \cup ({f} \ BrokenFiles)
    BY <1>1, <2>1, Merged
  <2> HIDE DEF u
  <2>3. Stored(s, u)
    BY <1>1, <2>2, StoredOn
  <2>4. u \in Storage(s)
    BY <1>1, <2>2, <2>3 DEF Storage, Sound
  <2> QED
    BY <1>2, <2>2, <2>4 DEF u
<1>3. CASE f \notin files \ s.custom
  BY <1>1, <1>3 DEF mergeNew
<1> QED
  BY <1>2, <1>3

(* The passes over the former files. *)
OldPass(s, files) == [i \in 1..Len(CustomOrder) |-> [t \in Storage(s) |-> dropOld(t, CustomOrder[i], files)]]

(* What is dropped is dropped file by file. *)
LEMMA OldLoop ==
  ASSUME NEW s, NEW files, NEW a \in Storage(s)
  PROVE  Ran(Loop(LAMBDA u, f : dropOld(u, f, files), a, CustomOrder), Len(CustomOrder), Storage(s), a, OldPass(s, files))
<1> DEFINE n == Len(CustomOrder)
           D(f) == [i \in 0..Len(CustomOrder) |->
                       IF i = 0 THEN a
                       ELSE CHOOSE t \in {dropOld(u, CustomOrder[i], files) : u \in {f[i - 1]}} : TRUE]
           g == CHOOSE f : f = D(f)
<1>0. a \in Storage(s)
  OBVIOUS
<1>1. n \in Nat
  BY CustomList
<1>2. OldPass(s, files) \in [1..n -> [Storage(s) -> Storage(s)]]
  <2>1. \A i \in 1..n : \A t \in Storage(s) : dropOld(t, CustomOrder[i], files) \in Storage(s)
    BY CustomList, OldDropped
  <2> QED
    BY <2>1 DEF OldPass
<1>3. \A i \in 1..n : \A t \in Storage(s) : OldPass(s, files)[i][t] = dropOld(t, CustomOrder[i], files)
  BY DEF OldPass
<1>4. ASSUME NEW f, NEW i \in 1..n PROVE D(f)[i] = dropOld(f[i - 1], CustomOrder[i], files)
  OBVIOUS
<1>5. ASSUME NEW f PROVE D(f)[0] = a /\ D(f) = [i \in 0..n |-> D(f)[i]]
  BY <1>1
<1>6. Loop(LAMBDA u, f : dropOld(u, f, files), a, CustomOrder) = g[n]
  BY DEF Loop
<1>7. PICK r : Run(r, n, Storage(s), a, OldPass(s, files))
  <2> HIDE DEF n, D
  <2> QED
    BY ONLY <1>0, <1>1, <1>2, Recursion
<1>8. r = D(r)
  <2>1. ASSUME NEW i \in 0..n PROVE r[i] = D(r)[i]
    <3>1. CASE i = 0
      BY <1>5, <1>7, <3>1 DEF Run
    <3>2. CASE i # 0
      <4>1. i \in 1..n /\ i - 1 \in 0..n
        BY <1>1, <3>2
      <4>2. r[i - 1] \in Storage(s) /\ r[i] = OldPass(s, files)[i][r[i - 1]]
        BY <1>7, <4>1 DEF Run
      <4>3. r[i] = dropOld(r[i - 1], CustomOrder[i], files)
        BY <1>3, <4>1, <4>2
      <4> QED
        BY <1>4, <4>1, <4>3
    <3> QED
      BY <3>1, <3>2
  <2>2. D(r) = [i \in 0..n |-> D(r)[i]]
    BY <1>5
  <2> HIDE DEF D, n
  <2>3. r = [i \in 0..n |-> r[i]]
    BY <1>7 DEF Run
  <2> QED
    BY <2>1, <2>2, <2>3
<1>9. g = D(g)
  <2> HIDE DEF D
  <2> QED
    BY <1>8
<1>10. /\ g = [i \in 0..n |-> g[i]] /\ g[0] = a
       /\ \A i \in 1..n : g[i] = dropOld(g[i - 1], CustomOrder[i], files)
  <2>1. D(g)[0] = a /\ D(g) = [i \in 0..n |-> D(g)[i]]
    BY <1>5
  <2> HIDE DEF D, g
  <2> QED
    BY <1>4, <1>9, <2>1
<1> HIDE DEF g, D, n
<1>11. Run(g, n, Storage(s), a, OldPass(s, files))
  <2>1. \A i \in 1..n : g[i - 1] \in Storage(s) => g[i] = OldPass(s, files)[i][g[i - 1]]
    BY <1>3, <1>10
  <2> QED
    BY ONLY <1>0, <1>1, <1>2, <1>10, <2>1, IsRun
<1> QED
  BY <1>6, <1>11 DEF Ran, n

(* The passes over the files now wanted. *)
NewPass(s, files) == [i \in 1..Len(CustomOrder) |-> [t \in Storage(s) |-> mergeNew(t, CustomOrder[i], files)]]

(* What is merged is merged file by file. *)
LEMMA NewLoop ==
  ASSUME NEW s, NEW files, NEW a \in Storage(s)
  PROVE  Ran(Loop(LAMBDA u, f : mergeNew(u, f, files), a, CustomOrder), Len(CustomOrder), Storage(s), a, NewPass(s, files))
<1> DEFINE n == Len(CustomOrder)
           D(f) == [i \in 0..Len(CustomOrder) |->
                       IF i = 0 THEN a
                       ELSE CHOOSE t \in {mergeNew(u, CustomOrder[i], files) : u \in {f[i - 1]}} : TRUE]
           g == CHOOSE f : f = D(f)
<1>0. a \in Storage(s)
  OBVIOUS
<1>1. n \in Nat
  BY CustomList
<1>2. NewPass(s, files) \in [1..n -> [Storage(s) -> Storage(s)]]
  <2>1. \A i \in 1..n : \A t \in Storage(s) : mergeNew(t, CustomOrder[i], files) \in Storage(s)
    BY CustomList, NewMerged
  <2> QED
    BY <2>1 DEF NewPass
<1>3. \A i \in 1..n : \A t \in Storage(s) : NewPass(s, files)[i][t] = mergeNew(t, CustomOrder[i], files)
  BY DEF NewPass
<1>4. ASSUME NEW f, NEW i \in 1..n PROVE D(f)[i] = mergeNew(f[i - 1], CustomOrder[i], files)
  OBVIOUS
<1>5. ASSUME NEW f PROVE D(f)[0] = a /\ D(f) = [i \in 0..n |-> D(f)[i]]
  BY <1>1
<1>6. Loop(LAMBDA u, f : mergeNew(u, f, files), a, CustomOrder) = g[n]
  BY DEF Loop
<1>7. PICK r : Run(r, n, Storage(s), a, NewPass(s, files))
  <2> HIDE DEF n, D
  <2> QED
    BY ONLY <1>0, <1>1, <1>2, Recursion
<1>8. r = D(r)
  <2>1. ASSUME NEW i \in 0..n PROVE r[i] = D(r)[i]
    <3>1. CASE i = 0
      BY <1>5, <1>7, <3>1 DEF Run
    <3>2. CASE i # 0
      <4>1. i \in 1..n /\ i - 1 \in 0..n
        BY <1>1, <3>2
      <4>2. r[i - 1] \in Storage(s) /\ r[i] = NewPass(s, files)[i][r[i - 1]]
        BY <1>7, <4>1 DEF Run
      <4>3. r[i] = mergeNew(r[i - 1], CustomOrder[i], files)
        BY <1>3, <4>1, <4>2
      <4> QED
        BY <1>4, <4>1, <4>3
    <3> QED
      BY <3>1, <3>2
  <2>2. D(r) = [i \in 0..n |-> D(r)[i]]
    BY <1>5
  <2> HIDE DEF D, n
  <2>3. r = [i \in 0..n |-> r[i]]
    BY <1>7 DEF Run
  <2> QED
    BY <2>1, <2>2, <2>3
<1>9. g = D(g)
  <2> HIDE DEF D
  <2> QED
    BY <1>8
<1>10. /\ g = [i \in 0..n |-> g[i]] /\ g[0] = a
       /\ \A i \in 1..n : g[i] = mergeNew(g[i - 1], CustomOrder[i], files)
  <2>1. D(g)[0] = a /\ D(g) = [i \in 0..n |-> D(g)[i]]
    BY <1>5
  <2> HIDE DEF D, g
  <2> QED
    BY <1>4, <1>9, <2>1
<1> HIDE DEF g, D, n
<1>11. Run(g, n, Storage(s), a, NewPass(s, files))
  <2>1. \A i \in 1..n : g[i - 1] \in Storage(s) => g[i] = NewPass(s, files)[i][g[i - 1]]
    BY <1>3, <1>10
  <2> QED
    BY ONLY <1>0, <1>1, <1>2, <1>10, <2>1, IsRun
<1> QED
  BY <1>6, <1>11 DEF Ran, n

(* CharDetails::refreshSkinnedModels leaves just the wanted files that load. *)
LEMMA Refreshed ==
  ASSUME NEW s, Sound(s), Kinds(s) = s.custom \ BrokenFiles, NEW files \in SUBSET CustomFiles
  PROVE  LET t == refreshSkinnedModels(s, files)
         IN  /\ Sound(t) /\ t.item = s.item /\ t.tree = s.tree
             /\ \A o : o[1] \notin CustomFiles => (o \in t.merged <=> o \in s.merged)
             /\ t.custom = files /\ Kinds(t) = files \ BrokenFiles
<1> DEFINE n == Len(CustomOrder)
           V == Storage(s)
           a == Loop(LAMBDA u, f : dropOld(u, f, files), s, CustomOrder)
           b == Loop(LAMBDA u, f : mergeNew(u, f, files), a, CustomOrder)
           D(m) == {CustomOrder[i] : i \in 1..m} \cap (s.custom \ files)
           N(m) == ({CustomOrder[i] : i \in 1..m} \cap (files \ s.custom)) \ BrokenFiles
           P == [m \in 0..n |-> {t \in V : Kinds(t) = Kinds(s) \ D(m)}]
           Q == [m \in 0..n |-> {t \in V : Kinds(t) = Kinds(a) \cup N(m)}]
           F == OldPass(s, files)
           G == NewPass(s, files)
<1>1. n \in Nat /\ (\A i \in 1..n : CustomOrder[i] \in CustomFiles) /\ CustomFiles = {CustomOrder[i] : i \in 1..n}
  BY CustomList
<1>2. s \in V
  BY DEF Storage, Stored, Sound
<1>3. refreshSkinnedModels(s, files) = [b EXCEPT !.custom = files]
  BY DEF refreshSkinnedModels
<1>4. Ran(a, n, V, s, F)
  BY <1>2, OldLoop
<1>5. /\ \A i \in 1..n : \A t \in V : F[i][t] = dropOld(t, CustomOrder[i], files)
      /\ \A i \in 1..n : \A t \in V : G[i][t] = mergeNew(t, CustomOrder[i], files)
  BY DEF OldPass, NewPass
<1>6. /\ s \in P[0] /\ \A m \in 0..n : \A t : t \in P[m] <=> t \in V /\ Kinds(t) = Kinds(s) \ D(m)
  BY <1>1, <1>2
<1> HIDE DEF a, F, P, V
<1>7. ASSUME NEW i \in 1..n, NEW t \in V, t \in P[i - 1] PROVE F[i][t] \in P[i]
  <2> DEFINE f == CustomOrder[i]
             u == dropOld(t, f, files)
  <2>1. i \in 0..n /\ i - 1 \in 0..n /\ f \in CustomFiles
    BY <1>1
  <2> HIDE DEF b, Q
  <2>2. u \in V /\ Kinds(u) = Kinds(t) \ ({f} \cap (s.custom \ files))
    <3>1. t \in Storage(s)
      BY DEF V
    <3> HIDE DEF f
    <3>2. u \in Storage(s) /\ Kinds(u) = Kinds(t) \ Unwanted(s, f, files)
      BY <2>1, <3>1, OldDropped
    <3> QED
      BY <3>2 DEF V, Unwanted
  <2>3. D(i) = D(i - 1) \cup ({f} \cap (s.custom \ files))
    <3>1. 1..i = 1..(i - 1) \cup {i}
      BY <1>1
    <3> QED
      BY <3>1
  <2>4. Kinds(t) = Kinds(s) \ D(i - 1)
    BY <1>6, <1>7, <2>1
  <2> HIDE DEF u, D
  <2>5. Kinds(u) = Kinds(s) \ D(i)
    BY <2>2, <2>3, <2>4
  <2> QED
    BY <1>5, <1>6, <2>1, <2>2, <2>5 DEF u
<1>8. a \in V /\ a \in P[n]
  <2>1. \A i \in 1..n : \A t \in V : t \in P[i - 1] => F[i][t] \in P[i]
    BY <1>7
  <2>2. s \in P[0]
    BY <1>6
  <2> HIDE DEF D
  <2> QED
    BY ONLY <1>1, <1>4, <2>1, <2>2, Along
<1>9. Kinds(a) = (s.custom \cap files) \ BrokenFiles
  <2>1. n \in 0..n
    BY <1>1
  <2>2. Kinds(a) = Kinds(s) \ D(n)
    BY <1>6, <1>8, <2>1
  <2>3. s.custom \subseteq CustomFiles
    BY Types DEF Sound
  <2>4. D(n) = s.custom \ files
    BY <1>1, <2>3
  <2> HIDE DEF D
  <2> QED
    BY <2>2, <2>4
<1>10. Ran(b, n, V, a, G)
  <2>1. a \in Storage(s)
    BY <1>8 DEF V
  <2> QED
    BY <2>1, NewLoop DEF V
<1>11. /\ a \in Q[0] /\ \A m \in 0..n : \A t : t \in Q[m] <=> t \in V /\ Kinds(t) = Kinds(a) \cup N(m)
  BY <1>1, <1>8
<1> HIDE DEF b, G, Q
<1>12. ASSUME NEW i \in 1..n, NEW t \in V, t \in Q[i - 1] PROVE G[i][t] \in Q[i]
  <2> DEFINE f == CustomOrder[i]
             u == mergeNew(t, f, files)
  <2>1. i \in 0..n /\ i - 1 \in 0..n /\ f \in CustomFiles
    BY <1>1
  <2>2. u \in V /\ Kinds(u) = Kinds(t) \cup (({f} \cap (files \ s.custom)) \ BrokenFiles)
    <3>1. t \in Storage(s)
      BY DEF V
    <3> HIDE DEF f
    <3>2. u \in Storage(s) /\ Kinds(u) = Kinds(t) \cup (({f} \cap (files \ s.custom)) \ BrokenFiles)
      BY <2>1, <3>1, NewMerged
    <3> QED
      BY <3>2 DEF V
  <2>3. N(i) = N(i - 1) \cup (({f} \cap (files \ s.custom)) \ BrokenFiles)
    <3>1. 1..i = 1..(i - 1) \cup {i}
      BY <1>1
    <3> QED
      BY <3>1
  <2>4. Kinds(t) = Kinds(a) \cup N(i - 1)
    BY <1>11, <1>12, <2>1
  <2> HIDE DEF u, N
  <2>5. Kinds(u) = Kinds(a) \cup N(i)
    BY <2>2, <2>3, <2>4
  <2> QED
    BY <1>5, <1>11, <2>1, <2>2, <2>5 DEF u
<1>13. b \in V /\ b \in Q[n]
  <2>1. \A i \in 1..n : \A t \in V : t \in Q[i - 1] => G[i][t] \in Q[i]
    BY <1>12
  <2> QED
    BY ONLY <1>1, <1>10, <1>11, <2>1, Along
<1>14. Kinds(b) = files \ BrokenFiles
  <2>1. n \in 0..n
    BY <1>1
  <2>2. Kinds(b) = Kinds(a) \cup N(n)
    BY <1>11, <1>13, <2>1
  <2>3. N(n) = (files \ s.custom) \ BrokenFiles
    BY <1>1
  <2> HIDE DEF N
  <2> QED
    BY <1>9, <2>2, <2>3
<1>15. b \in States /\ Sound(b) /\ Stored(s, b)
  BY <1>13 DEF V, Storage
<1> DEFINE t == [b EXCEPT !.custom = files]
<1>16. /\ t \in States /\ t.heap = b.heap /\ t.item = b.item /\ t.tree = b.tree /\ t.merged = b.merged
       /\ t.cache = b.cache /\ t.custom = files
  BY <1>15 DEF States
<1> HIDE DEF t
<1>17. Customs(t) = Customs(b) /\ \A k \in Slots : Models(t, k) = Models(b, k) /\ Merges(t, k) = Merges(b, k)
  BY <1>16 DEF Customs, Models, Merges
<1>18. Sound(t)
  <2>1. Alive(t) /\ Owned(t) /\ Apart(t)
    BY <1>15, <1>16, <1>17 DEF Sound, Alive, Owned, Apart
  <2>2. Stocked(t) /\ Distinct(t)
    BY <1>15, <1>16, <1>17 DEF Sound, Stocked, Distinct
  <2>3. Hung(t)
    <3>1. \A i \in DOMAIN b.tree : b.tree[i].slot \in Slots
      BY <1>15, Types
    <3> QED
      BY <1>15, <1>16, <1>17, <3>1 DEF Sound, Hung
  <2> QED
    BY <1>15, <1>16, <2>1, <2>2, <2>3 DEF Sound
<1> QED
  BY <1>3, <1>14, <1>15, <1>16, <1>17, <1>18 DEF Stored, Kinds, t

(***************************************************************************)
(* WoWItem::refresh.                                                       *)
(***************************************************************************)
Nodes(s, k) == [i \in DOMAIN s.item[k].models |-> [slot |-> k, model |-> s.item[k].models[i]]]

(* The attachments that WoWItem::refresh adds. *)
LEMMA NodeList ==
  ASSUME NEW s, Sound(s), NEW k \in Slots, Slim(s.item[k])
  PROVE  LET q == Nodes(s, k)
         IN  /\ q \in Seq(Atts) /\ Len(q) \in 0..2
             /\ \A i \in 1..Len(q) : q[i].slot = k /\ q[i].model \in Models(s, k) /\ q[i].model # Null
             /\ \A i, j \in 1..Len(q) : q[i].model = q[j].model => i = j
             /\ \A o \in Models(s, k) : \E i \in 1..Len(q) : q[i] = [slot |-> k, model |-> o]
<1> DEFINE m == s.item[k].models
           q == Nodes(s, k)
           n == Len(m)
<1>1. s \in States /\ Distinct(s)
  BY DEF Sound
<1>2. s.item[k] \in WoWItems
  BY <1>1, Types
<1>3. m \in Seq(Objects)
  BY <1>2 DEF WoWItems
<1>4. n \in 0..2 /\ DOMAIN m = 1..n
  <2>1. n \in Nat /\ DOMAIN m = 1..n /\ n <= 2
    BY <1>3 DEF Slim
  <2>2. \A h \in Nat : h <= 2 => h \in 0..2
    OBVIOUS
  <2> HIDE DEF n, m
  <2> QED
    BY ONLY <2>1, <2>2
<1>5. \A i \in 1..n : m[i] \in Objects /\ m[i] \in Models(s, k)
  BY <1>3, <1>4 DEF Models, Range
<1>6. \A o \in Models(s, k) : \E i \in 1..n : o = m[i]
  BY <1>4 DEF Models, Range
<1>7. \A i, j \in 1..n : m[i] = m[j] => i = j
  BY <1>1, <1>4 DEF Distinct
<1>8. q = [i \in 1..n |-> [slot |-> k, model |-> m[i]]]
  BY <1>4 DEF Nodes
<1> HIDE DEF m, q, n
<1>9. q \in [1..n -> Atts]
  BY <1>5, <1>8 DEF Atts
<1>10. q \in Seq(Atts) /\ Len(q) = n
  <2>1. n \in Nat
    BY <1>4
  <2> QED
    BY <1>9, <2>1
<1>11. \A i \in 1..n : q[i].slot = k /\ q[i].model = m[i] /\ q[i] = [slot |-> k, model |-> m[i]]
  BY <1>8
<1>12. Null \notin Objects
  BY FileTypes
<1>13. /\ q \in Seq(Atts) /\ Len(q) \in 0..2
       /\ \A i \in 1..Len(q) : q[i].slot = k /\ q[i].model \in Models(s, k) /\ q[i].model # Null
       /\ \A i, j \in 1..Len(q) : q[i].model = q[j].model => i = j
  BY <1>4, <1>5, <1>7, <1>10, <1>11, <1>12
<1>14. \A o \in Models(s, k) : \E i \in 1..Len(q) : q[i] = [slot |-> k, model |-> o]
  BY <1>6, <1>10, <1>11
<1> QED
  BY <1>13, <1>14 DEF q

(* The attachments of a slot that are added to what delSlot has left. *)
LEMMA Rehung ==
  ASSUME NEW u, Tidy(u), NEW k \in Slots, NEW q \in Seq(Atts), Len(q) \in 0..2,
         \A i, j \in DOMAIN u : u[i].slot = k /\ u[j].slot = k => i = j,
         \A i \in 1..Len(q) : q[i].slot = k,
         \A i, j \in 1..Len(q) : q[i].model = q[j].model => i = j
  PROVE  /\ Tidy(u \o q)
         /\ \A p \in DOMAIN (u \o q) : (\E i \in DOMAIN u : (u \o q)[p] = u[i]) \/ (\E i \in 1..Len(q) : (u \o q)[p] = q[i])
         /\ \A i \in DOMAIN u : \E p \in DOMAIN (u \o q) : (u \o q)[p] = u[i]
         /\ \A i \in 1..Len(q) : \E p \in DOMAIN (u \o q) : (u \o q)[p] = q[i]
<1> DEFINE t == u \o q
           a == Len(u)
           n == Len(q)
<1>1. u \in Seq(Atts) /\ FirstTwice(u) /\ Few(u)
  BY DEF Tidy
<1>2. a \in Nat /\ DOMAIN u = 1..a /\ n \in 0..2
  BY <1>1
<1>3. t \in Seq(Atts) /\ Len(t) = a + n /\ DOMAIN t = 1..(a + n)
  BY <1>1
<1>4. (\A i \in 1..a : t[i] = u[i]) /\ \A i \in 1..n : t[a + i] = q[i]
  BY <1>1, <1>2
<1> HIDE DEF t, a, n
<1>5. ASSUME NEW p \in 1..(a + n) PROVE p \in 1..a \/ (p - a \in 1..n /\ p > a /\ t[p] = q[p - a])
  <2>1. CASE p <= a
    BY <1>2, <2>1
  <2>2. CASE p > a
    <3>1. p - a \in 1..n /\ a + (p - a) = p
      BY <1>2, <2>2
    <3> QED
      BY <1>4, <2>2, <3>1
  <2> QED
    BY <1>2, <2>1, <2>2
<1>6. \A i \in 1..n : q[i].slot = k
  BY DEF n
<1>7. \A i, j \in 1..n : q[i].model = q[j].model => i = j
  BY DEF n
<1>8. \A i, j \in 1..a : u[i].slot = k /\ u[j].slot = k => i = j
  BY <1>2
<1>9. FirstTwice(t)
  <2>1. SUFFICES ASSUME NEW i \in 1..(a + n), NEW j \in 1..(a + n), i < j, t[i].slot = t[j].slot,
                        t[i].model = t[j].model, t[i].model # Null, NEW h \in 1..(i - 1),
                        t[h].slot = t[i].slot
                 PROVE  FALSE
    BY <1>3 DEF FirstTwice
  <2>2. h \in 1..(a + n) /\ h < i
    BY <1>2
  <2>3. CASE j \in 1..a
    <3>1. i \in 1..a /\ h \in 1..a
      BY <1>2, <2>1, <2>2, <2>3
    <3>2. t[i] = u[i] /\ t[j] = u[j] /\ t[h] = u[h]
      BY <1>4, <2>3, <3>1
    <3> QED
      BY <1>1, <1>2, <2>1, <2>3, <3>1, <3>2 DEF FirstTwice
  <2>4. CASE j \notin 1..a
    <3>1. j - a \in 1..n /\ t[j] = q[j - a]
      BY <1>5, <2>4
    <3>2. t[j].slot = k
      BY <1>6, <3>1
    <3>3. CASE i \in 1..a
      <4>1. h \in 1..a
        BY <1>2, <2>2, <3>3
      <4>2. u[i].slot = k /\ u[h].slot = k
        BY <1>4, <2>1, <3>2, <3>3, <4>1
      <4> QED
        BY <1>8, <2>2, <3>3, <4>1, <4>2
    <3>4. CASE i \notin 1..a
      <4>1. i - a \in 1..n /\ t[i] = q[i - a]
        BY <1>5, <3>4
      <4>2. i - a = j - a
        BY <1>7, <2>1, <3>1, <4>1
      <4> QED
        BY <1>2, <2>1, <4>2
    <3> QED
      BY <3>3, <3>4
  <2> QED
    BY <2>3, <2>4
<1>10. Few(t)
  <2>1. SUFFICES ASSUME NEW b \in 1..(a + n), NEW c \in 1..(a + n), NEW d \in 1..(a + n), NEW e \in 1..(a + n),
                        b < c, c < d, d < e,
                        t[b].slot = t[c].slot, t[c].slot = t[d].slot, t[d].slot = t[e].slot
                 PROVE  FALSE
    BY <1>3 DEF Few
  <2>2. CASE e \in 1..a
    <3>1. b \in 1..a /\ c \in 1..a /\ d \in 1..a
      BY <1>2, <2>1, <2>2
    <3>2. t[b] = u[b] /\ t[c] = u[c] /\ t[d] = u[d] /\ t[e] = u[e]
      BY <1>4, <2>2, <3>1
    <3> QED
      BY <1>1, <1>2, <2>1, <2>2, <3>1, <3>2 DEF Few
  <2>3. CASE e \notin 1..a
    <3>1. t[e].slot = k
      BY <1>5, <1>6, <2>3
    <3>2. c \notin 1..a
      <4>1. SUFFICES ASSUME c \in 1..a PROVE FALSE
        OBVIOUS
      <4>2. b \in 1..a
        BY <1>2, <2>1, <4>1
      <4>3. u[b].slot = k /\ u[c].slot = k
        BY <1>4, <2>1, <3>1, <4>1, <4>2
      <4> QED
        BY <1>8, <2>1, <4>1, <4>2, <4>3
    <3>3. c > a /\ e <= a + 2
      BY <1>2, <3>2
    <3> QED
      BY <1>2, <2>1, <3>3
  <2> QED
    BY <2>2, <2>3
<1>11. Tidy(t)
  BY <1>3, <1>9, <1>10 DEF Tidy
<1>12. \A p \in DOMAIN t : (\E i \in DOMAIN u : t[p] = u[i]) \/ (\E i \in 1..n : t[p] = q[i])
  BY <1>2, <1>3, <1>4, <1>5
<1>13. /\ \A i \in DOMAIN u : \E p \in DOMAIN t : t[p] = u[i]
       /\ \A i \in 1..n : \E p \in DOMAIN t : t[p] = q[i]
  <2>1. \A i \in 1..a : i \in 1..(a + n)
    BY <1>2
  <2>2. \A i \in 1..n : a + i \in 1..(a + n)
    BY <1>2
  <2> QED
    BY <1>2, <1>3, <1>4, <2>1, <2>2
<1> QED
  BY <1>11, <1>12, <1>13 DEF t, n

(* Slot k is drawn: its models are attached and its model is merged. *)
Attached(s, k) == /\ \A o \in Models(s, k) : \E i \in DOMAIN s.tree : s.tree[i] = [slot |-> k, model |-> o]
                  /\ Merges(s, k) \subseteq s.merged

(* WoWItem::refresh draws its slot, and whatever other slot was drawn still is. *)
LEMMA Reattached ==
  ASSUME NEW s, Sound(s), NEW k \in Slots, Slim(s.item[k])
  PROVE  LET t == refreshItem(s, k)
         IN  /\ Sound(t) /\ t.item = s.item /\ Aside(s, t) /\ Attached(t, k)
             /\ \A l \in Slots : l # k /\ Attached(s, l) => Attached(t, l)
<1> DEFINE t == refreshItem(s, k)
           u == delSlot(s.tree, k)
           q == Nodes(s, k)
<1>1. s \in States /\ Alive(s) /\ Owned(s) /\ Apart(s) /\ Stocked(s) /\ Distinct(s) /\ Hung(s) /\ Tidy(s.tree)
      /\ IsFiniteSet(s.heap)
  BY DEF Sound
<1>2. CASE s.item[k].id = NoItem
  <2>1. t = s
    BY <1>2 DEF refreshItem
  <2>2. Models(s, k) = {} /\ Merges(s, k) = {}
    <3>1. s.item[k].models = <<>> /\ s.item[k].merged = Null
      BY <1>2 DEF Slim
    <3> QED
      BY <3>1 DEF Models, Merges, Range
  <2> HIDE DEF t
  <2>3. Sound(t) /\ t.item = s.item /\ Aside(s, t) /\ Attached(t, k)
    BY <2>1, <2>2 DEF Aside, Attached
  <2> QED
    BY <2>1, <2>3 DEF t
<1>3. CASE s.item[k].id # NoItem
  <2>1. t = [s EXCEPT !.merged = @ \cup Merges(s, k), !.tree = u \o q]
    BY <1>3 DEF refreshItem, Nodes, Merges
  <2>2. /\ Tidy(u) /\ Range(u) \subseteq Range(s.tree)
        /\ \A a \in Range(s.tree) : a.slot # k => a \in Range(u)
        /\ \A i, j \in DOMAIN u : u[i].slot = k /\ u[j].slot = k => i = j
    BY <1>1, SlotGone
  <2>3. /\ q \in Seq(Atts) /\ Len(q) \in 0..2
        /\ \A i \in 1..Len(q) : q[i].slot = k /\ q[i].model \in Models(s, k) /\ q[i].model # Null
        /\ \A i, j \in 1..Len(q) : q[i].model = q[j].model => i = j
        /\ \A o \in Models(s, k) : \E i \in 1..Len(q) : q[i] = [slot |-> k, model |-> o]
    BY NodeList
  <2> DEFINE v == u \o q
  <2> HIDE DEF t, u, q
  <2>4. /\ Tidy(v)
        /\ \A p \in DOMAIN v : (\E i \in DOMAIN u : v[p] = u[i]) \/ (\E i \in 1..Len(q) : v[p] = q[i])
        /\ \A i \in DOMAIN u : \E p \in DOMAIN v : v[p] = u[i]
        /\ \A i \in 1..Len(q) : \E p \in DOMAIN v : v[p] = q[i]
    <3>1. \A i \in 1..Len(q) : q[i].slot = k
      BY <2>3
    <3> QED
      BY <2>2, <2>3, <3>1, Rehung DEF v
  <2> HIDE DEF v
  <2>5. Merges(s, k) \subseteq Objects /\ s.merged \subseteq Objects /\ v \in Seq(Atts)
    BY <1>1, <2>4, Types DEF Tidy
  <2>6. /\ t \in States /\ t.heap = s.heap /\ t.item = s.item /\ t.tree = v /\ t.cache = s.cache
        /\ t.custom = s.custom /\ t.merged = s.merged \cup Merges(s, k)
    BY <1>1, <2>1, <2>5 DEF States, v
  <2>7. \A l \in Slots : Models(t, l) = Models(s, l) /\ Merges(t, l) = Merges(s, l)
    BY <2>6 DEF Models, Merges
  <2>8. \A o \in Merges(s, k) : o \notin s.cache /\ o[1] \notin CustomFiles /\ o \in s.heap
    BY <1>1 DEF Apart, Alive
  <2>9. Customs(t) = Customs(s)
    BY <2>6, <2>8 DEF Customs
  <2>10. Hung(t)
    <3>1. ASSUME NEW p \in DOMAIN v, v[p].model # Null
          PROVE  v[p].slot \in Slots /\ v[p].model \in Models(s, v[p].slot)
      <4>1. CASE \E i \in DOMAIN u : v[p] = u[i]
        <5>1. PICK j \in DOMAIN s.tree : v[p] = s.tree[j]
          BY <2>2, <4>1 DEF Range
        <5>2. s.tree[j].slot \in Slots
          BY <1>1, Types
        <5> QED
          BY <1>1, <3>1, <5>1, <5>2 DEF Hung
      <4>2. CASE \E i \in 1..Len(q) : v[p] = q[i]
        BY <2>3, <4>2
      <4> QED
        BY <2>4, <4>1, <4>2
    <3> QED
      BY <2>6, <2>7, <3>1 DEF Hung
  <2>11. Apart(t)
    <3>1. \A l, m \in Slots : \A o : /\ l # m => /\ ~(o \in Models(t, l) /\ o \in Models(t, m))
                                                 /\ ~(o \in Merges(t, l) /\ o \in Merges(t, m))
                                     /\ ~(o \in Models(t, l) /\ o \in Merges(t, m))
      BY <1>1, <2>7 DEF Apart
    <3>2. ASSUME NEW l \in Slots, NEW o \in Models(t, l) PROVE o \notin t.merged /\ o \notin t.cache
      <4>1. o \in Models(s, l) /\ o \notin Merges(s, k)
        BY <2>7, <3>1
      <4>2. o \notin s.merged /\ o \notin s.cache
        BY <1>1, <4>1 DEF Apart
      <4> QED
        BY <2>6, <4>1, <4>2
    <3>3. ASSUME NEW l \in Slots, NEW o \in Merges(t, l) PROVE o \notin t.cache /\ o[1] \notin CustomFiles
      BY <1>1, <2>6, <2>7 DEF Apart
    <3>4. ASSUME NEW o \in t.merged
          PROVE  o \notin t.cache /\ (o[1] \notin CustomFiles => \E l \in Slots : o \in Merges(t, l))
      <4>1. CASE o \in s.merged
        BY <1>1, <2>6, <2>7, <4>1 DEF Apart
      <4>2. CASE o \in Merges(s, k)
        BY <2>6, <2>7, <2>8, <4>2
      <4> QED
        BY <2>6, <4>1, <4>2
    <3> QED
      BY <3>1, <3>2, <3>3, <3>4 DEF Apart
  <2>12. Alive(t) /\ Owned(t)
    <3>1. Alive(t)
      BY <1>1, <2>6, <2>7, <2>8 DEF Alive
    <3>2. Owned(t)
      BY <1>1, <2>6, <2>7 DEF Owned
    <3> QED
      BY <3>1, <3>2
  <2>13. Stocked(t) /\ Distinct(t)
    BY <1>1, <2>6, <2>9 DEF Stocked, Distinct
  <2>14. Sound(t) /\ Aside(s, t)
    BY <1>1, <2>4, <2>6, <2>9, <2>10, <2>11, <2>12, <2>13 DEF Sound, Aside
  <2>15. Attached(t, k)
    <3>1. ASSUME NEW o \in Models(s, k) PROVE \E p \in DOMAIN v : v[p] = [slot |-> k, model |-> o]
      <4>1. PICK i \in 1..Len(q) : q[i] = [slot |-> k, model |-> o]
        BY <2>3
      <4>2. PICK p \in DOMAIN v : v[p] = q[i]
        BY <2>4
      <4> QED
        BY <4>1, <4>2
    <3> QED
      BY <2>6, <2>7, <3>1 DEF Attached
  <2>16. ASSUME NEW l \in Slots, l # k, Attached(s, l) PROVE Attached(t, l)
    <3>1. ASSUME NEW o \in Models(s, l) PROVE \E p \in DOMAIN v : v[p] = [slot |-> l, model |-> o]
      <4>1. PICK i \in DOMAIN s.tree : s.tree[i] = [slot |-> l, model |-> o]
        BY <2>16, <3>1 DEF Attached
      <4>2. s.tree[i] \in Range(s.tree) /\ s.tree[i].slot # k
        BY <2>16, <4>1 DEF Range
      <4>3. \E j \in DOMAIN u : u[j] = s.tree[i]
        BY <2>2, <4>2 DEF Range
      <4> QED
        BY <2>4, <4>1, <4>3
    <3>2. Merges(s, l) \subseteq s.merged
      BY <2>16 DEF Attached
    <3> QED
      BY <2>6, <2>7, <3>1, <3>2 DEF Attached
  <2> QED
    BY <2>6, <2>14, <2>15, <2>16 DEF t
<1> QED
  BY <1>2, <1>3

(* What the refresh of the items may have made of s. *)
Refreshing(s) == {t \in States : Sound(t) /\ t.item = s.item /\ Aside(s, t)}
Slims(s) == \A k \in Slots : Slim(s.item[k])

(* A pass draws its slot. *)
LEMMA ItemRefreshed ==
  ASSUME NEW s, Slims(s), NEW t \in Refreshing(s), NEW k \in Slots
  PROVE  LET u == refreshItem(t, k)
         IN  /\ u \in Refreshing(s) /\ Attached(u, k)
             /\ \A l \in Slots : l # k /\ Attached(t, l) => Attached(u, l)
<1> DEFINE u == refreshItem(t, k)
<1>1. Sound(t) /\ t.item = s.item /\ Aside(s, t) /\ Slim(t.item[k])
  BY DEF Refreshing, Slims
<1>2. /\ Sound(u) /\ u.item = t.item /\ Aside(t, u) /\ Attached(u, k)
      /\ \A l \in Slots : l # k /\ Attached(t, l) => Attached(u, l)
  BY <1>1, Reattached
<1> HIDE DEF u
<1>3. Aside(s, u)
  BY <1>1, <1>2, AsideOn
<1>4. u \in Refreshing(s)
  BY <1>1, <1>2, <1>3 DEF Refreshing, Sound
<1> QED
  BY <1>2, <1>4 DEF u

(* The passes of the refresh over the slots. *)
RefreshPass(s, os) == [i \in 1..Len(os) |-> [t \in Refreshing(s) |-> refreshItem(t, os[i])]]

(* The slots are refreshed one after the other. *)
LEMMA ItemLoop ==
  ASSUME NEW s, Slims(s), NEW a \in Refreshing(s), NEW os \in Orders
  PROVE  Ran(Loop(refreshItem, a, os), Len(os), Refreshing(s), a, RefreshPass(s, os))
<1> DEFINE n == Len(os)
           D(f) == [i \in 0..Len(os) |->
                       IF i = 0 THEN a
                       ELSE CHOOSE t \in {refreshItem(u, os[i]) : u \in {f[i - 1]}} : TRUE]
           g == CHOOSE f : f = D(f)
<1>0. a \in Refreshing(s)
  OBVIOUS
<1>1. n \in Nat
  BY OrderList
<1>2. RefreshPass(s, os) \in [1..n -> [Refreshing(s) -> Refreshing(s)]]
  <2>1. \A i \in 1..n : \A t \in Refreshing(s) : refreshItem(t, os[i]) \in Refreshing(s)
    BY OrderList, ItemRefreshed
  <2> QED
    BY <2>1 DEF RefreshPass
<1>3. \A i \in 1..n : \A t \in Refreshing(s) : RefreshPass(s, os)[i][t] = refreshItem(t, os[i])
  BY DEF RefreshPass
<1>4. ASSUME NEW f, NEW i \in 1..n PROVE D(f)[i] = refreshItem(f[i - 1], os[i])
  OBVIOUS
<1>5. ASSUME NEW f PROVE D(f)[0] = a /\ D(f) = [i \in 0..n |-> D(f)[i]]
  BY <1>1
<1>6. Loop(refreshItem, a, os) = g[n]
  BY DEF Loop
<1>7. PICK r : Run(r, n, Refreshing(s), a, RefreshPass(s, os))
  <2> HIDE DEF n, D
  <2> QED
    BY ONLY <1>0, <1>1, <1>2, Recursion
<1>8. r = D(r)
  <2>1. ASSUME NEW i \in 0..n PROVE r[i] = D(r)[i]
    <3>1. CASE i = 0
      BY <1>5, <1>7, <3>1 DEF Run
    <3>2. CASE i # 0
      <4>1. i \in 1..n /\ i - 1 \in 0..n
        BY <1>1, <3>2
      <4>2. r[i - 1] \in Refreshing(s) /\ r[i] = RefreshPass(s, os)[i][r[i - 1]]
        BY <1>7, <4>1 DEF Run
      <4>3. r[i] = refreshItem(r[i - 1], os[i])
        BY <1>3, <4>1, <4>2
      <4> QED
        BY <1>4, <4>1, <4>3
    <3> QED
      BY <3>1, <3>2
  <2>2. D(r) = [i \in 0..n |-> D(r)[i]]
    BY <1>5
  <2> HIDE DEF D, n
  <2>3. r = [i \in 0..n |-> r[i]]
    BY <1>7 DEF Run
  <2> QED
    BY <2>1, <2>2, <2>3
<1>9. g = D(g)
  <2> HIDE DEF D
  <2> QED
    BY <1>8
<1>10. /\ g = [i \in 0..n |-> g[i]] /\ g[0] = a
       /\ \A i \in 1..n : g[i] = refreshItem(g[i - 1], os[i])
  <2>1. D(g)[0] = a /\ D(g) = [i \in 0..n |-> D(g)[i]]
    BY <1>5
  <2> HIDE DEF D, g
  <2> QED
    BY <1>4, <1>9, <2>1
<1> HIDE DEF g, D, n
<1>11. Run(g, n, Refreshing(s), a, RefreshPass(s, os))
  <2>1. \A i \in 1..n : g[i - 1] \in Refreshing(s) => g[i] = RefreshPass(s, os)[i][g[i - 1]]
    BY <1>3, <1>10
  <2> QED
    BY ONLY <1>0, <1>1, <1>2, <1>10, <2>1, IsRun
<1> QED
  BY <1>6, <1>11 DEF Ran, n

(***************************************************************************)
(* The invariant: what is worn is sound, drawn and as it was chosen.       *)
(***************************************************************************)
Ready(s, files) == /\ Fine(s) /\ s.custom = files /\ Kinds(s) = files \ BrokenFiles
                   /\ \A k \in Slots : Attached(s, k)

(* WoWModel::refresh draws every slot and the wanted files. *)
LEMMA AllRefreshed ==
  ASSUME NEW s, Fine(s), Kinds(s) = s.custom \ BrokenFiles, NEW files \in SUBSET CustomFiles, NEW os \in Orders
  PROVE  LET t == refresh(s, files, os) IN Ready(t, files) /\ t.item = s.item
<1> DEFINE a == refreshSkinnedModels(s, files)
           n == Len(os)
           x == refresh(s, files, os)
           V == Refreshing(a)
           F == RefreshPass(a, os)
           P == [m \in 0..n |-> {t \in V : \A j \in 1..m : Attached(t, os[j])}]
<1>1. Sound(a) /\ a.item = s.item /\ a.custom = files /\ Kinds(a) = files \ BrokenFiles
  BY Refreshed DEF Fine
<1>2. n \in Nat /\ (\A i \in 1..n : os[i] \in Slots) /\ Slots = {os[i] : i \in 1..n}
  BY OrderList
<1>3. x = Loop(refreshItem, a, os)
  BY DEF refresh
<1> HIDE DEF a, x
<1>4. Slims(a) /\ a \in V
  BY <1>1 DEF Slims, Fine, Refreshing, Sound, Aside
<1>5. Ran(x, n, V, a, F)
  BY <1>3, <1>4, ItemLoop
<1>6. \A i \in 1..n : \A t \in V : F[i][t] = refreshItem(t, os[i])
  BY DEF RefreshPass
<1>7. /\ a \in P[0]
      /\ \A m \in 0..n : \A t : t \in P[m] <=> t \in V /\ \A j \in 1..m : Attached(t, os[j])
  BY <1>2, <1>4
<1> HIDE DEF n, V, F, P
<1>8. ASSUME NEW i \in 1..n, NEW t \in V, t \in P[i - 1] PROVE F[i][t] \in P[i]
  <2> DEFINE k == os[i]
             u == refreshItem(t, k)
  <2>1. i \in 0..n /\ i - 1 \in 0..n /\ k \in Slots
    BY <1>2
  <2>2. \A j \in 1..(i - 1) : Attached(t, os[j])
    BY <1>7, <1>8, <2>1
  <2> HIDE DEF k
  <2>3. /\ u \in V /\ Attached(u, k)
        /\ \A l \in Slots : l # k /\ Attached(t, l) => Attached(u, l)
    BY <1>4, <2>1, ItemRefreshed DEF V
  <2> HIDE DEF u
  <2>4. ASSUME NEW j \in 1..i PROVE Attached(u, os[j])
    <3>1. os[j] \in Slots /\ (j = i \/ j \in 1..(i - 1))
      BY <1>2
    <3> QED
      BY <2>2, <2>3, <3>1 DEF k
  <2> QED
    BY <1>6, <1>7, <2>1, <2>3, <2>4 DEF u, k
<1>9. x \in V /\ x \in P[n]
  <2>1. \A i \in 1..n : \A t \in V : t \in P[i - 1] => F[i][t] \in P[i]
    BY <1>8
  <2>2. a \in P[0]
    BY <1>7
  <2> QED
    BY ONLY <1>2, <1>5, <2>1, <2>2, Along
<1>10. \A k \in Slots : Attached(x, k)
  <2>1. n \in 0..n
    BY <1>2
  <2>2. \A j \in 1..n : Attached(x, os[j])
    BY <1>7, <1>9, <2>1
  <2> QED
    BY <1>2, <2>2
<1>11. Sound(x) /\ x.item = s.item /\ Aside(a, x)
  BY <1>1, <1>9 DEF V, Refreshing
<1>12. Fine(x) /\ x.custom = files /\ Kinds(x) = Kinds(a)
  BY <1>1, <1>11 DEF Fine, Aside, Kinds
<1> QED
  BY <1>1, <1>10, <1>11, <1>12 DEF Ready, x

(* The invariant of the specification. *)
EquipInv == /\ Ready(Now, wanted) /\ wanted \in SUBSET CustomFiles /\ order \in Orders
            /\ loaded # Null => \A k \in Slots : Came(loaded.new, loaded.file[k], item[k])

(* What is on a character before its refresh. *)
Dressed(s) == Fine(s) /\ Kinds(s) = s.custom \ BrokenFiles

(* What the slots do leaves the customization alone. *)
LEMMA DressedOn ==
  ASSUME NEW s, Dressed(s), NEW t, Fine(t), Aside(s, t) PROVE Dressed(t)
  BY DEF Dressed, Aside, Kinds

(* The variables are the parts of Now. *)
LEMMA NowIs ==
  ASSUME NEW t \in States, heap = t.heap, item = t.item, tree = t.tree,
         merged = t.merged, cache = t.cache, custom = t.custom
  PROVE  Now = t
<1>1. t = [heap |-> t.heap, item |-> t.item, tree |-> t.tree, merged |-> t.merged,
           cache |-> t.cache, custom |-> t.custom]
  BY DEF States
<1> QED
  BY <1>1 DEF Now

(* A new character is refreshed. *)
LEMMA Begun ==
  ASSUME NEW s, Dressed(s), wanted \in SUBSET CustomFiles, order \in Orders,
         Become(refresh(s, wanted, order)),
         loaded # Null => \A k \in Slots : Came(loaded.new, loaded.file[k], s.item[k])
  PROVE  EquipInv
<1> DEFINE t == refresh(s, wanted, order)
<1>1. Ready(t, wanted) /\ t.item = s.item
  BY AllRefreshed DEF Dressed
<1>2. t \in States
  BY <1>1 DEF Ready, Fine, Sound
<1>3. /\ heap = t.heap /\ item = t.item /\ tree = t.tree
      /\ merged = t.merged /\ cache = t.cache /\ custom = t.custom
  BY DEF Become
<1> HIDE DEF t
<1>4. Now = t
  BY <1>2, <1>3, NowIs
<1> QED
  BY <1>1, <1>3, <1>4 DEF EquipInv

(* A handler refreshes the character that it leaves. *)
LEMMA Left ==
  ASSUME NEW s, Dressed(s), NEW files \in SUBSET CustomFiles, order \in Orders, NEW l,
         LeaveWith(s, files, l),
         l # Null => \A k \in Slots : Came(l.new, l.file[k], s.item[k])
  PROVE  EquipInv'
<1> DEFINE t == refresh(s, files, order)
<1>1. Ready(t, files) /\ t.item = s.item
  BY AllRefreshed DEF Dressed
<1>2. t \in States
  BY <1>1 DEF Ready, Fine, Sound
<1>3. /\ heap' = t.heap /\ item' = t.item /\ tree' = t.tree
      /\ merged' = t.merged /\ cache' = t.cache /\ custom' = t.custom
      /\ wanted' = files /\ loaded' = l /\ order' = order
  BY DEF LeaveWith
<1> HIDE DEF t
<1>4. Now' = t
  <2>1. t = [heap |-> t.heap, item |-> t.item, tree |-> t.tree, merged |-> t.merged,
             cache |-> t.cache, custom |-> t.custom]
    BY <1>2 DEF States
  <2> QED
    BY <1>3, <2>1 DEF Now
<1>5. Ready(Now', wanted')
  BY <1>1, <1>3, <1>4
<1> QED
  BY <1>1, <1>3, <1>5 DEF EquipInv

(* A new character is as its picker, file, import or NPC makes it. *)
LEMMA InitInv == Init => EquipInv
<1> SUFFICES ASSUME Init PROVE EquipInv
  OBVIOUS
<1>1. wanted \in SUBSET CustomFiles /\ order \in Orders
  BY DEF Init
<1>2. Fine(Fresh) /\ Dressed(Fresh)
  <2>1. Fresh.custom = {}
    BY DEF Fresh
  <2> QED
    BY <2>1, FreshFine DEF Dressed, Kinds
<1>3. \A k \in Slots : Fresh.item[k].id = NpcItem /\ Fresh.item[k].look = NoLook
  BY DEF Fresh, NewItem
<1>4. CASE loaded = Null /\ Become(refresh(Fresh, wanted, order))
  BY <1>1, <1>2, <1>4, Begun
<1>5. CASE \E f \in SavedFiles : /\ loaded = [file |-> f, new |-> TRUE]
                                 /\ Become(refresh(wearSaved(Fresh, f, order), wanted, order))
  <2>1. PICK f \in SavedFiles : /\ loaded = [file |-> f, new |-> TRUE]
                                /\ Become(refresh(wearSaved(Fresh, f, order), wanted, order))
    BY <1>5
  <2> DEFINE t == wearSaved(Fresh, f, order)
  <2>2. Fine(t) /\ Aside(Fresh, t) /\ \A k \in Slots : Came(TRUE, f[k], t.item[k])
    BY <1>1, <1>2, <1>3, SavedWorn
  <2> HIDE DEF t
  <2>3. Dressed(t)
    BY <1>2, <2>2, DressedOn
  <2>4. Become(refresh(t, wanted, order))
    BY <2>1 DEF t
  <2>5. \A k \in Slots : Came(loaded.new, loaded.file[k], t.item[k])
    BY <2>1, <2>2
  <2> QED
    BY <1>1, <2>3, <2>4, <2>5, Begun
<1>6. CASE \E w \in Imports : /\ loaded = Null
                              /\ Become(refresh(wearImported(Fresh, w, order), wanted, order))
  <2>1. PICK w \in Imports : /\ loaded = Null
                             /\ Become(refresh(wearImported(Fresh, w, order), wanted, order))
    BY <1>6
  <2>2. Dressed(wearImported(Fresh, w, order))
    BY <1>1, <1>2, ImportWorn, DressedOn
  <2> QED
    BY <1>1, <2>1, <2>2, Begun
<1>7. CASE loaded = Null /\ Become(refresh(wearNpc(Fresh, order), wanted, order))
  <2>1. Dressed(wearNpc(Fresh, order))
    BY <1>1, <1>2, <1>3, NpcWorn, DressedOn
  <2> QED
    BY <1>1, <1>7, <2>1, Begun
<1> QED
  BY <1>4, <1>5, <1>6, <1>7 DEF Init

(* What a handler does to one slot leaves the rest as it was. *)
LEMMA OneTurned ==
  ASSUME NEW s, Dressed(s), NEW t, NEW k, Fine(t), Turned(s, t, k) PROVE Dressed(t)
  BY DEF Dressed, Turned, Kinds

(* Every handler keeps the invariant. *)
LEMMA StepInv == EquipInv /\ [Next]_vars => EquipInv'
<1> SUFFICES ASSUME EquipInv, [Next]_vars PROVE EquipInv'
  OBVIOUS
<1>1. Dressed(Now) /\ Fine(Now) /\ wanted \in SUBSET CustomFiles /\ order \in Orders
  BY DEF EquipInv, Ready, Dressed
<1>2. Now.item = item
  BY DEF Now
<1>3. ASSUME NEW s, Dressed(s), Leave(s) PROVE EquipInv'
  BY <1>1, <1>3, Left DEF Leave
<1>4. CASE ClearEquipment
  <2>1. Dressed(Clear(Now, order))
    BY <1>1, Cleared, DressedOn
  <2> QED
    BY <1>3, <1>4, <2>1 DEF ClearEquipment
<1>5. CASE WearOutfit
  <2>1. PICK o \in Outfits : Leave(wearOutfit(Now, o, order))
    BY <1>5 DEF WearOutfit
  <2>2. Dressed(wearOutfit(Now, o, order))
    BY <1>1, OutfitWorn, DressedOn
  <2> QED
    BY <1>3, <2>1, <2>2
<1>6. CASE Import
  <2>1. PICK w \in Imports : Leave(wearImported(Now, w, order))
    BY <1>6 DEF Import
  <2>2. Dressed(wearImported(Now, w, order))
    BY <1>1, ImportWorn, DressedOn
  <2> QED
    BY <1>3, <2>1, <2>2
<1>7. CASE LoadChar
  <2>1. PICK f \in SavedFiles :
           LeaveWith(wearSaved(Clear(Now, order), f, order), wanted, [file |-> f, new |-> FALSE])
    BY <1>7 DEF LoadChar
  <2> DEFINE c == Clear(Now, order)
             t == wearSaved(c, f, order)
             l == [file |-> f, new |-> FALSE]
  <2>2. Fine(c) /\ Aside(Now, c) /\ \A k \in Slots : c.item[k].id = NoItem
    BY <1>1, Cleared
  <2>3. LeaveWith(t, wanted, l)
    BY <2>1
  <2> HIDE DEF c
  <2>4. Dressed(c)
    BY <1>1, <2>2, DressedOn
  <2>5. Fine(t) /\ Aside(c, t) /\ \A k \in Slots : Came(FALSE, f[k], t.item[k])
    BY <1>1, <2>2, SavedWorn
  <2> HIDE DEF t
  <2>6. Dressed(t)
    BY <2>4, <2>5, DressedOn
  <2>7. l.new = FALSE /\ l.file = f
    OBVIOUS
  <2> HIDE DEF l
  <2>8. \A k \in Slots : Came(l.new, l.file[k], t.item[k])
    BY <2>5, <2>7
  <2> QED
    BY <1>1, <2>3, <2>6, <2>8, Left
<1>8. CASE Customize
  <2>1. PICK files \in SUBSET CustomFiles : LeaveWith(Now, files, Null)
    BY <1>8 DEF Customize
  <2> QED
    BY <1>1, <2>1, Left
<1>9. ASSUME NEW k \in Slots, ClearSlot(k) PROVE EquipInv'
  <2>1. Dressed(setId(Now, k, NoItem))
    BY <1>1, InSlot, IdSet, OneTurned
  <2> QED
    BY <1>3, <1>9, <2>1 DEF ClearSlot
<1>10. ASSUME NEW k \in Slots, PickItem(k) PROVE EquipInv'
  <2>1. PICK i \in Worn(k) : Leave(setId(Now, k, i))
    BY <1>10 DEF PickItem
  <2>2. Dressed(setId(Now, k, i))
    BY <1>1, IdSet, OneTurned
  <2> QED
    BY <1>3, <2>1, <2>2
<1>11. ASSUME NEW k \in Slots, ChangeLevel(k) PROVE EquipInv'
  <2>1. PICK n \in 0..Len(item[k].levels) - 1 : Leave(setLevel(Now, k, n))
    BY <1>11 DEF ChangeLevel
  <2>2. /\ Clad(k, item[k]) /\ item[k].levels \in Seq(Looks) /\ Len(item[k].levels) \in Nat
    BY <1>1, <1>2, Slots1
  <2>3. item[k].levels # <<>> /\ n \in Nat /\ n < Len(item[k].levels)
    BY <2>1, <2>2
  <2>4. PICK i \in Worn(k) \ {NoItem} : item[k].levels = LevelsOf[i]
    BY <2>2, <2>3 DEF Clad
  <2>5. n \in LevelsIn(k)
    BY <2>3, <2>4, OfItem
  <2>6. item[k].id \in Items => n < Len(LevelsOf[item[k].id])
    BY <2>2, <2>3 DEF Clad
  <2>7. Dressed(setLevel(Now, k, n))
    BY <1>1, <1>2, <2>5, <2>6, LevelSet, OneTurned
  <2> QED
    BY <1>3, <2>1, <2>7
<1>12. CASE UNCHANGED vars
  BY <1>12 DEF vars, EquipInv, Now
<1> QED
  BY <1>4, <1>5, <1>6, <1>7, <1>8, <1>9, <1>10, <1>11, <1>12 DEF Next

(* The invariant holds of every state that is reached. *)
THEOREM Invariance == Spec => []EquipInv
  BY InitInv, StepInv, PTL DEF Spec

(* The types of all variables and the saved part of each item; the cache keeps
   its bound (WoWModel::poolMergedModel). *)
THEOREM TypesKept == Spec => []TypeOK
<1>1. EquipInv => TypeOK
  <2> SUFFICES ASSUME EquipInv PROVE TypeOK
    OBVIOUS
  <2>1. Fine(Now) /\ Sound(Now) /\ Now \in States /\ custom = wanted /\ wanted \in SUBSET CustomFiles
    BY DEF EquipInv, Ready, Fine, Sound, Now
  <2>2. /\ Now.heap = heap /\ Now.item = item /\ Now.tree = tree /\ Now.merged = merged
        /\ Now.cache = cache /\ Now.custom = custom
    BY DEF Now
  <2>3. /\ heap \subseteq Objects /\ merged \subseteq Objects /\ cache \subseteq Objects /\ tree \in Seq(Atts)
        /\ custom \subseteq CustomFiles /\ wanted \subseteq CustomFiles
    BY <2>1, <2>2, Types
  <2>4. ASSUME NEW k \in Slots
        PROVE  /\ savedItem(item[k]) \in SavedItems(k) /\ Range(item[k].models) \subseteq Objects
               /\ item[k].merged \in Objects \cup {Null}
    <3>1. Clad(k, item[k]) /\ item[k].models \in Seq(Objects) /\ item[k].merged \in Objects \cup {Null}
      BY <2>1, <2>2, Slots1
    <3>2. Range(item[k].models) \subseteq Objects
      BY <3>1 DEF Range
    <3>3. savedItem(item[k]) \in SavedItems(k)
      BY <3>1 DEF savedItem, SavedItems, Clad
    <3> QED
      BY <3>1, <3>2, <3>3
  <2>5. \A a \in Range(tree) : a.slot \in Slots /\ a.model \in Objects \cup {Null}
    <3>1. \A i \in DOMAIN tree : tree[i].slot \in Slots /\ tree[i].model \in Objects \cup {Null}
      BY <2>1, <2>2, Types
    <3> QED
      BY <3>1 DEF Range
  <2>6. Cardinality(cache) <= MaxCached /\ \A o \in cache : o[1] \in CustomFiles /\ OfFile(cache, o[1]) = {o}
    BY <2>1, <2>2 DEF Sound, Stocked, OfFile
  <2> QED
    BY <2>3, <2>4, <2>5, <2>6 DEF TypeOK
<1> QED
  BY <1>1, Invariance, PTL

(* No attachment, merged model, cached model or item names a model that was
   deleted, though delSlot overlooks some attachments and ~WoWModel clears only
   the last one that names it. *)
THEOREM NamesLive == Spec => []NoDeadModel
<1>1. EquipInv => NoDeadModel
  <2> SUFFICES ASSUME EquipInv PROVE NoDeadModel
    OBVIOUS
  <2>1. Sound(Now)
    BY DEF EquipInv, Ready, Fine
  <2>2. Named(Now) \subseteq Now.heap
    BY <2>1, NamedAlive
  <2>3. Now.heap = heap
    BY DEF Now
  <2> QED
    BY <2>2, <2>3 DEF NoDeadModel
<1> QED
  BY <1>1, Invariance, PTL

(* A model that nothing owns any more was deleted (WoWItem::unload). *)
THEOREM NoLeak == Spec => []NothingLost
<1>1. EquipInv => NothingLost
  <2> SUFFICES ASSUME EquipInv PROVE NothingLost
    OBVIOUS
  <2>1. Owned(Now) /\ \A k \in Slots : Attached(Now, k)
    BY DEF EquipInv, Ready, Fine, Sound
  <2>2. Now.heap = heap /\ Now.merged = merged /\ Now.cache = cache
    BY DEF Now
  <2>3. ASSUME NEW o \in heap PROVE o \in ItemModels(Now) \cup merged \cup cache
    <3>1. (\E k \in Slots : o \in Models(Now, k) \/ o \in Merges(Now, k)) \/ o \in merged \/ o \in cache
      BY <2>1, <2>2 DEF Owned
    <3>2. \A k \in Slots : o \in Models(Now, k) => o \in ItemModels(Now)
      BY DEF Models, ItemModels
    <3>3. \A k \in Slots : o \in Merges(Now, k) => o \in merged
      BY <2>1, <2>2 DEF Attached
    <3> QED
      BY <3>1, <3>2, <3>3
  <2> QED
    BY <2>3 DEF NothingLost
<1> QED
  BY <1>1, Invariance, PTL

(* An item shows one of the looks of its own rows (WoWItem::setId, setLevel,
   setModifierId, load). *)
THEOREM OwnLook == Spec => []LookIsOwn
<1>1. EquipInv => LookIsOwn
  <2> SUFFICES ASSUME EquipInv, NEW k \in Slots, item[k].id \in Items
               PROVE  item[k].look \in {r[2] : r \in Range(Rows[item[k].id])}
    BY DEF LookIsOwn
  <2>1. Clad(k, item[k])
    BY DEF EquipInv, Ready, Fine, Now
  <2>2. item[k].look \in RowLooks(item[k].id)
    BY <2>1, Levels DEF Clad
  <2> QED
    BY <2>2 DEF RowLooks, Range
<1> QED
  BY <1>1, Invariance, PTL

(* A saved character wears again what it wore (WoWItem::load, save). *)
THEOREM SavedComesBack == Spec => []ReloadShows
<1>1. EquipInv => ReloadShows
  BY DEF EquipInv, ReloadShows, Came
<1> QED
  BY <1>1, Invariance, PTL

(* What is drawn is what is worn: each model of an item is attached and nothing
   else is, and merged are the items' models and one model for every file the
   customization asks for (WoWItem::refresh, WoWModel::refreshMerging). *)
THEOREM DrawnIsWorn == Spec => []WornIsDrawn
<1>1. EquipInv => WornIsDrawn
  <2> DEFINE others == merged \ ItemMerged(Now)
  <2> SUFFICES ASSUME EquipInv PROVE WornIsDrawn
    OBVIOUS
  <2>1. /\ Sound(Now) /\ (\A k \in Slots : Attached(Now, k)) /\ Kinds(Now) = wanted \ BrokenFiles
        /\ Now \in States
    BY DEF EquipInv, Ready, Fine, Sound
  <2>2. Now.heap = heap /\ Now.merged = merged /\ Now.cache = cache /\ Now.tree = tree /\ Now.item = item
    BY DEF Now
  <2>3. /\ \A o : o \in ItemModels(Now) <=> \E k \in Slots : o \in Models(Now, k)
        /\ \A o : o \in ItemMerged(Now) <=> \E k \in Slots : o \in Merges(Now, k)
    BY DEF ItemModels, ItemMerged, Models, Merges
  <2>4. \A o : o \in Drawn(Now) <=> o # Null /\ \E i \in DOMAIN tree : o = tree[i].model
    BY <2>2 DEF Drawn
  <2>5. Drawn(Now) \subseteq ItemModels(Now)
    <3>1. ASSUME NEW i \in DOMAIN tree, tree[i].model # Null PROVE \E k \in Slots : tree[i].model \in Models(Now, k)
      <4>1. tree[i].slot \in Slots
        BY <2>1, <2>2, Types
      <4> QED
        BY <2>1, <2>2, <3>1, <4>1 DEF Sound, Hung
    <3> QED
      BY <2>3, <2>4, <3>1
  <2>6. ItemModels(Now) \subseteq Drawn(Now)
    <3>1. ASSUME NEW k \in Slots, NEW o \in Models(Now, k) PROVE o # Null /\ \E i \in DOMAIN tree : o = tree[i].model
      <4>1. PICK i \in DOMAIN tree : tree[i] = [slot |-> k, model |-> o]
        BY <2>1, <2>2 DEF Attached
      <4>2. o \in Objects
        BY <2>1, Types
      <4> QED
        BY <4>1, <4>2, FileTypes
    <3> QED
      BY <2>3, <2>4, <3>1
  <2>7. ItemMerged(Now) \subseteq merged
    BY <2>1, <2>2, <2>3 DEF Attached
  <2>8. others = Customs(Now)
    <3>1. \A o \in merged : o[1] \notin CustomFiles => o \in ItemMerged(Now)
      BY <2>1, <2>2, <2>3 DEF Sound, Apart
    <3>2. \A o \in ItemMerged(Now) : o[1] \notin CustomFiles
      BY <2>1, <2>3 DEF Sound, Apart
    <3> QED
      BY <2>2, <3>1, <3>2 DEF Customs
  <2> HIDE DEF others
  <2>9. {o[1] : o \in others} = wanted \ BrokenFiles
    BY <2>1, <2>8 DEF Kinds
  <2>10. IsFiniteSet(others)
    <3>1. others \subseteq heap /\ IsFiniteSet(heap)
      BY <2>1, <2>2, <2>8 DEF Sound, Alive, Customs
    <3> QED
      BY <3>1, FS_Subset
  <2>11. Cardinality(others) = Cardinality(wanted \ BrokenFiles)
    <3> DEFINE T == {o[1] : o \in others}
               g == [o \in others |-> o[1]]
    <3>1. g \in [others -> T] /\ \A o \in others : g[o] = o[1]
      OBVIOUS
    <3>2. \A o, p \in others : g[o] = g[p] => o = p
      BY <2>1, <2>8, <3>1 DEF Sound, Stocked
    <3>3. \A f \in T : \E o \in others : g[o] = f
      BY <3>1
    <3>4. DOMAIN g = others
      OBVIOUS
    <3> HIDE DEF g, T
    <3>5. g \in Bijection(others, T)
      BY <3>1, <3>2, <3>3, <3>4 DEF Bijection, Injection, Surjection, IsInjective
    <3>6. ExistsBijection(others, T)
      BY <3>5 DEF ExistsBijection
    <3>7. Cardinality(T) = Cardinality(others)
      BY <2>10, <3>6, FS_Bijection
    <3> QED
      BY <2>9, <3>7 DEF T
  <2>12. merged \cap cache = {}
    BY <2>1, <2>2 DEF Sound, Apart
  <2> QED
    BY <2>5, <2>6, <2>7, <2>9, <2>11, <2>12 DEF WornIsDrawn, others
<1> QED
  BY <1>1, Invariance, PTL
=============================================================================
