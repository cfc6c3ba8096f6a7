------------------------- MODULE CharDetailsProofs -------------------------
(***************************************************************************)
(* Theorems about CharDetails.  Every operation is a loop of calls of      *)
(* set(), and set() is a loop itself: Kept says what each pass of them     *)
(* preserves, and a lemma per loop gives the states that it goes through.  *)
(***************************************************************************)
EXTENDS CharDetails, LoopLemmas

(***************************************************************************)
(* The tables.                                                             *)
(***************************************************************************)
LEMMA OptionList == /\ OptionIDs \in Seq(Nat) /\ Len(OptionIDs) \in Nat
                    /\ Options \subseteq Nat
                    /\ \A i \in 1..Len(OptionIDs) : OptionIDs[i] \in Options
                    /\ \A o \in Options : \E i \in 1..Len(OptionIDs) : OptionIDs[i] = o
  BY TablesAssumption DEF Options, Range

LEMMA ChoiceLists == \A o \in Options : /\ ChoicesOf[o] \in Seq(Nat \ {None})
                                        /\ Range(ChoicesOf[o]) \subseteq AllChoices
                                        /\ Range(ChoicesOf[o]) \subseteq Nat \ {None}
  BY TablesAssumption DEF AllChoices, Range

LEMMA Choices == /\ AllChoices \subseteq Nat /\ None \notin AllChoices /\ Unset \notin AllChoices
                 /\ AllChoices \subseteq Int
<1>1. \A c \in AllChoices : c \in Nat \ {None}
  BY ChoiceLists DEF AllChoices
<1> QED
  BY <1>1 DEF None, Unset

LEMMA Owner == \A c \in AllChoices : /\ OptionOf[c] \in Options
                                     /\ c \in Range(ChoicesOf[OptionOf[c]])
                                     /\ \A o \in Options : c \in Range(ChoicesOf[o]) => OptionOf[c] = o
<1> SUFFICES ASSUME NEW c \in AllChoices
             PROVE  /\ OptionOf[c] \in Options
                    /\ c \in Range(ChoicesOf[OptionOf[c]])
                    /\ \A o \in Options : c \in Range(ChoicesOf[o]) => OptionOf[c] = o
  OBVIOUS
<1>1. \E o \in Options : c \in Range(ChoicesOf[o])
  BY DEF AllChoices
<1>2. OptionOf[c] \in Options /\ c \in Range(ChoicesOf[OptionOf[c]])
  BY <1>1 DEF OptionOf
<1> QED
  BY <1>2, TablesAssumption

LEMMA ElementTypes == \A e \in Elements : /\ e.choice \in AllChoices
                                          /\ e.related \in AllChoices \cup {None}
                                          /\ e.related # e.choice
  BY TablesAssumption

LEMMA RowsOf == \A c, r \in AllChoices \cup {None} : \A e :
                   e \in Rows[c][r] <=> e \in Elements /\ e.choice = c /\ e.related = r
<1> SUFFICES ASSUME NEW c \in AllChoices \cup {None}, NEW r \in AllChoices \cup {None}
             PROVE  Rows[c][r] = {e \in Elements : e.choice = c /\ e.related = r}
  OBVIOUS
<1> QED
  BY DEF Rows

LEMMA LinksOf == \A o \in Options : /\ Links[o] \subseteq Options \ {o}
                                    /\ \A e \in Elements :
                                          e.related # None /\ OptionOf[e.choice] = o /\ OptionOf[e.related] # o
                                          => OptionOf[e.related] \in Links[o]
<1> SUFFICES ASSUME NEW o \in Options
             PROVE  /\ Links[o] \subseteq Options \ {o}
                    /\ \A e \in Elements :
                          e.related # None /\ OptionOf[e.choice] = o /\ OptionOf[e.related] # o
                          => OptionOf[e.related] \in Links[o]
  OBVIOUS
<1>1. Links[o] = {OptionOf[e.related] :
                 e \in {x \in Elements : x.related # None /\ OptionOf[x.choice] = o}} \ {o}
  BY DEF Links
<1>2. \A e \in Elements : e.related # None => OptionOf[e.related] \in Options
  BY ElementTypes, Owner
<1> QED
  BY <1>1, <1>2

LEMMA Parents == \A l \in BOOLEAN : \A o, p \in Options :
                    /\ getParentOptions(l, o) \subseteq Options \ {o}
                    /\ p \in getChildOptions(l, o) <=> o \in getParentOptions(l, p)
                    /\ getParentOptions(l, o) \subseteq Links[o]
  BY LinksOf DEF getParentOptions, getChildOptions

LEMMA Gates == \A c \in AllChoices \cup {None, Unset}, o \in Options :
                  /\ Compatible(c, o) \subseteq Range(ChoicesOf[o])
                  /\ None \notin Compatible(c, o) /\ Unset \notin Compatible(c, o)
<1>1. \A o \in Options : None \notin Range(ChoicesOf[o]) /\ Unset \notin Range(ChoicesOf[o])
  BY ChoiceLists, Choices
<1> QED
  BY <1>1 DEF Compatible

\* A nonempty list of available places has a first one.
LEMMA Available ==
  \A d \in BOOLEAN, o \in Options : AvailableAt(d, o) # {} =>
     /\ FirstAvailable(d, o) \in Range(ChoicesOf[o])
     /\ isChoiceAvailable(d, FirstAvailable(d, o))
<1> SUFFICES ASSUME NEW d \in BOOLEAN, NEW o \in Options, AvailableAt(d, o) # {}
             PROVE  /\ FirstAvailable(d, o) \in Range(ChoicesOf[o])
                    /\ isChoiceAvailable(d, FirstAvailable(d, o))
  OBVIOUS
<1>1. AvailableAt(d, o) \in SUBSET Nat
  BY ChoiceLists DEF AvailableAt
<1>2. \E i \in AvailableAt(d, o) : \A j \in AvailableAt(d, o) : i <= j
  BY <1>1, Least
<1>3. PICK i \in AvailableAt(d, o) : FirstAvailable(d, o) = ChoicesOf[o][i]
  BY <1>2 DEF FirstAvailable
<1> QED
  BY <1>3 DEF AvailableAt, Range
(***************************************************************************)
(* States, and what one application of a choice does to them.              *)
(***************************************************************************)
Whats == {e.what : e \in Elements}
Views == [textures : SUBSET Elements, files : SUBSET Whats, geosets : SUBSET Whats]
States == [cur : [Options -> Int], bucket : [Options -> SUBSET Elements], dh : BOOLEAN,
           linked : BOOLEAN, view : Views, batch : BOOLEAN]

Chosable(o) == Range(ChoicesOf[o]) \cup {None, Unset}
\* A bucket holds elements of its option's choice, and of the options linked
\* to it those that its choice, or the want of one, gates.
Suits(s, e, o) == \/ e.related = None /\ e.choice = s.cur[o]
                  \/ e.related = s.cur[o] /\ o \in Links[OptionOf[e.choice]]
Good == {s \in States : /\ \A o \in Options : s.cur[o] \in Chosable(o)
                        /\ \A o \in Options : \A e \in s.bucket[o] : Suits(s, e, o)}

(* The view of a state depends on its choices and its buckets only. *)
LEMMA ViewTyped == \A s \in States : ViewOf(s) \in Views
<1> SUFFICES ASSUME NEW s \in States PROVE ViewOf(s) \in Views
  OBVIOUS
<1>1. Collected(s.bucket) \subseteq Elements
  BY DEF Collected, States
<1>2. ShownGeosets(s) \subseteq Whats
  BY DEF ShownGeosets, Whats
<1>3. {e.what : e \in {x \in Collected(s.bucket) : x.kind = "model"}} \subseteq Whats
  BY <1>1 DEF Whats
<1> QED
  BY <1>1, <1>2, <1>3 DEF ViewOf, Views

LEMMA Viewed == \A s, t \in States : s.cur = t.cur /\ s.bucket = t.bucket => ViewOf(s) = ViewOf(t)
  BY DEF ViewOf, ShownGeosets, ActiveChoices

LEMMA Refreshed ==
  ASSUME NEW s \in States
  PROVE  /\ Refresh(s) \in States
         /\ Refresh(s).cur = s.cur /\ Refresh(s).bucket = s.bucket /\ Refresh(s).dh = s.dh
         /\ Refresh(s).linked = s.linked /\ Refresh(s).batch = s.batch
         /\ Refresh(s).view = ViewOf(Refresh(s))
         /\ s \in Good => Refresh(s) \in Good
<1>1. /\ Refresh(s) \in States
      /\ Refresh(s).cur = s.cur /\ Refresh(s).bucket = s.bucket /\ Refresh(s).dh = s.dh
      /\ Refresh(s).linked = s.linked /\ Refresh(s).batch = s.batch
      /\ Refresh(s).view = ViewOf(s)
  BY ViewTyped DEF Refresh, States
<1>2. ViewOf(Refresh(s)) = ViewOf(s)
  BY <1>1, Viewed
<1> QED
  BY <1>1, <1>2 DEF Good, Suits

LEMMA Announced ==
  ASSUME NEW s \in States
  PROVE  /\ Announce(s) \in States
         /\ Announce(s).cur = s.cur /\ Announce(s).bucket = s.bucket /\ Announce(s).dh = s.dh
         /\ Announce(s).linked = s.linked /\ Announce(s).batch = s.batch
         /\ ~s.batch => Announce(s).view = ViewOf(Announce(s))
         /\ s \in Good => Announce(s) \in Good
<1>1. CASE s.batch
  BY <1>1 DEF Announce
<1>2. CASE ~s.batch
  <2>1. Announce(s) = Refresh(Refresh(s)) /\ Refresh(s) \in States
    BY <1>2, Refreshed DEF Announce
  <2> QED
    BY <2>1, Refreshed
<1> QED
  BY <1>1, <1>2

Value(s, k) == IF s.cur[k] = Unset THEN None ELSE s.cur[k]

LEMMA Applied ==
  ASSUME NEW s \in Good, NEW o \in Options, NEW c \in Range(ChoicesOf[o]) \cup {None}
  PROVE  LET t == ApplyChoice(s, o, c)
             parents == getParentOptions(s.linked, o)
             children == getChildOptions(s.linked, o)
         IN  /\ t \in States
             /\ t.dh = s.dh /\ t.linked = s.linked /\ t.batch = s.batch
             /\ t.cur[o] = c
             /\ \A p \in Options \ {o} : /\ t.cur[p] = s.cur[p] \/ (s.cur[p] = Unset /\ t.cur[p] = None)
                                         /\ t.cur[p] \in Chosable(p)
                                         /\ p \in parents => t.cur[p] # Unset
             /\ \A e : e \in t.bucket[o] <=>
                          /\ e \in Elements
                          /\ \/ e.choice = c /\ e.related = None
                             \/ e.related = c /\ \E k \in children : e.choice = Value(t, k)
             /\ \A p \in Options \ {o} : \A e :
                   e \in t.bucket[p] <=> \/ e \in s.bucket[p]
                                         \/ p \in parents /\ e \in Elements /\ e.choice = c /\ e.related = t.cur[p]
<1> DEFINE t == ApplyChoice(s, o, c)
           parents == getParentOptions(s.linked, o)
           children == getChildOptions(s.linked, o)
           current == [p \in Options |->
                          IF p = o THEN c
                          ELSE IF p \in parents /\ s.cur[p] = Unset THEN None
                          ELSE s.cur[p]]
           buckets == [p \in Options |->
                          IF p = o THEN OwnBucket(s, o, c, current)
                          ELSE IF p \in parents THEN s.bucket[p] \cup Rows[c][current[p]]
                          ELSE s.bucket[p]]
<1>1. t = [s EXCEPT !.cur = current, !.bucket = buckets]
  BY DEF ApplyChoice
<1>2. c \in AllChoices \cup {None} /\ c \in Int /\ None \in Int /\ None # Unset
  BY ChoiceLists, Choices DEF None, Unset
<1>3. \A p \in Options : s.cur[p] \in Chosable(p) /\ s.cur[p] \in Int
  BY DEF Good, States
<1>4. \A p \in Options : current[p] \in Chosable(p) /\ current[p] \in Int
  BY <1>2, <1>3 DEF Chosable
<1>5. \A p \in Options : Chosable(p) \subseteq AllChoices \cup {None, Unset}
  BY ChoiceLists DEF Chosable
<1>6. \A p \in parents : current[p] # Unset /\ current[p] \in AllChoices \cup {None}
  <2>1. parents \subseteq Options \ {o}
    BY Parents DEF Good, States
  <2> QED
    BY <2>1, <1>2, <1>4, <1>5
<1>7. \A e : e \in OwnBucket(s, o, c, current) <=>
               /\ e \in Elements
               /\ \/ e.choice = c /\ e.related = None
                  \/ e.related = c /\ \E k \in children :
                        e.choice = IF current[k] = Unset THEN None ELSE current[k]
  <2>1. children \subseteq Options
    BY DEF getChildOptions
  <2> HIDE DEF current, children
  <2>2. \A k \in children : (IF current[k] = Unset THEN None ELSE current[k]) \in AllChoices \cup {None}
    BY <2>1, <1>4, <1>5
  <2>3. OwnBucket(s, o, c, current) =
           Rows[c][None] \cup UNION {Rows[IF current[k] = Unset THEN None ELSE current[k]][c] : k \in children}
    BY DEF OwnBucket, children
  <2>4. \A e : e \in Rows[c][None] <=> e \in Elements /\ e.choice = c /\ e.related = None
    BY <1>2, RowsOf
  <2>6. \A v \in AllChoices \cup {None} : \A e : e \in Rows[v][c] <=> e \in Elements /\ e.choice = v /\ e.related = c
    BY <1>2, RowsOf
  <2>5. \A k \in children : \A e : e \in Rows[IF current[k] = Unset THEN None ELSE current[k]][c] <=>
                    e \in Elements /\ e.choice = (IF current[k] = Unset THEN None ELSE current[k]) /\ e.related = c
    BY <2>2, <2>6
  <2> QED
    BY <2>3, <2>4, <2>5
<1>8. \A p \in Options \ {o} : \A e :
         e \in buckets[p] <=> \/ e \in s.bucket[p]
                              \/ p \in parents /\ e \in Elements /\ e.choice = c /\ e.related = current[p]
  <2>1. \A p \in parents : \A e : e \in Rows[c][current[p]] <=> e \in Elements /\ e.choice = c /\ e.related = current[p]
    <3>1. \A v \in AllChoices \cup {None} : \A e : e \in Rows[c][v] <=> e \in Elements /\ e.choice = c /\ e.related = v
      BY <1>2, RowsOf
    <3> HIDE DEF current, parents
    <3> QED
      BY <1>6, <3>1
  <2> HIDE DEF current, parents
  <2> QED
    BY <2>1
<1>9. current \in [Options -> Int] /\ buckets \in [Options -> SUBSET Elements]
  <2>1. current \in [Options -> Int]
    BY <1>4
  <2>2. \A p \in Options : buckets[p] \subseteq Elements
    <3>1. buckets[o] \subseteq Elements
      <4> HIDE DEF current
      <4> QED
        BY <1>7
    <3>2. \A p \in Options \ {o} : buckets[p] \subseteq Elements
      <4> HIDE DEF buckets
      <4> QED
        BY <1>8 DEF Good, States
    <3> QED
      BY <3>1, <3>2
  <2> QED
    BY <2>1, <2>2
<1>10. /\ current[o] = c
       /\ \A p \in Options \ {o} : /\ current[p] = s.cur[p] \/ (s.cur[p] = Unset /\ current[p] = None)
       /\ buckets[o] = OwnBucket(s, o, c, current)
  <2>1. buckets[o] = OwnBucket(s, o, c, current)
    <3> HIDE DEF current, parents
    <3> QED
      OBVIOUS
  <2>2. current[o] = c
    OBVIOUS
  <2>3. \A p \in Options \ {o} : current[p] = s.cur[p] \/ (s.cur[p] = Unset /\ current[p] = None)
    <3>1. ASSUME NEW p \in Options \ {o}
          PROVE  current[p] = IF p \in parents /\ s.cur[p] = Unset THEN None ELSE s.cur[p]
      <4> HIDE DEF parents
      <4> QED
        OBVIOUS
    <3> HIDE DEF parents, current
    <3> QED
      BY <3>1
  <2> HIDE DEF current, buckets
  <2> QED
    BY <2>1, <2>2, <2>3
<1> HIDE DEF current, buckets, t
<1>11. /\ t \in States /\ t.dh = s.dh /\ t.linked = s.linked /\ t.batch = s.batch
       /\ t.cur = current /\ t.bucket = buckets
  BY <1>1, <1>9 DEF Good, States
<1>12. \A k : Value(t, k) = IF current[k] = Unset THEN None ELSE current[k]
  BY <1>11 DEF Value
<1> HIDE DEF parents, children
<1>13. /\ t.cur[o] = c
       /\ \A p \in Options \ {o} : /\ t.cur[p] = s.cur[p] \/ (s.cur[p] = Unset /\ t.cur[p] = None)
                                   /\ t.cur[p] \in Chosable(p)
                                   /\ p \in parents => t.cur[p] # Unset
  BY <1>10, <1>11, <1>4, <1>6
<1>14. \A e : e \in t.bucket[o] <=>
                 /\ e \in Elements
                 /\ \/ e.choice = c /\ e.related = None
                    \/ e.related = c /\ \E k \in children : e.choice = Value(t, k)
  BY <1>7, <1>10, <1>11, <1>12
<1>15. \A p \in Options \ {o} : \A e :
          e \in t.bucket[p] <=> \/ e \in s.bucket[p]
                                \/ p \in parents /\ e \in Elements /\ e.choice = c /\ e.related = t.cur[p]
  BY <1>8, <1>11
<1> QED
  BY <1>11, <1>13, <1>14, <1>15 DEF t, parents, children
(***************************************************************************)
(* What set() keeps.  Placed says that the elements which the choices call *)
(* for and whose home is in S are in the bucket of their home: the option  *)
(* that gates the element, or else its own.                                *)
(***************************************************************************)
Home(e) == OptionOf[IF e.related = None THEN e.choice ELSE e.related]
Called(s, e) == /\ s.cur[OptionOf[e.choice]] = e.choice
                /\ e.related # None => s.cur[OptionOf[e.related]] = e.related
                /\ isChoiceAvailable(s.dh, e.choice)
                /\ e.related = None \/ isChoiceAvailable(s.dh, e.related)
Placed(s, S) == s.linked => \A e \in Elements : Called(s, e) /\ Home(e) \in S => e \in s.bucket[Home(e)]

Same(s, t) == t.dh = s.dh /\ t.linked = s.linked /\ t.batch = s.batch
Grown(s, t) == \A o \in Options : t.cur[o] \in {None, Unset} => s.cur[o] \in {None, Unset}
Kept(s, t) == /\ t \in Good /\ Same(s, t) /\ Grown(s, t)
              /\ \A S \in SUBSET Options : Placed(s, S) => Placed(t, S)

LEMMA KeptSelf == \A s \in Good : Kept(s, s)
  BY DEF Kept, Same, Grown

LEMMA KeptOn == \A s, t, u : Kept(s, t) /\ Kept(t, u) => Kept(s, u)
  BY DEF Kept, Same, Grown

LEMMA Homes == \A e \in Elements : /\ OptionOf[e.choice] \in Options
                                   /\ e.choice \in Range(ChoicesOf[OptionOf[e.choice]])
                                   /\ e.choice # None /\ e.choice # Unset
                                   /\ Home(e) \in Options
                                   /\ e.related # None => /\ Home(e) = OptionOf[e.related]
                                                          /\ e.related # Unset
                                                          /\ e.related \in Range(ChoicesOf[Home(e)])
                                                          /\ Home(e) # OptionOf[e.choice] => Home(e) \in Links[OptionOf[e.choice]]
                                   /\ e.related = None => Home(e) = OptionOf[e.choice]
<1> SUFFICES ASSUME NEW e \in Elements
             PROVE  /\ OptionOf[e.choice] \in Options
                    /\ e.choice \in Range(ChoicesOf[OptionOf[e.choice]])
                    /\ e.choice # None /\ e.choice # Unset
                    /\ Home(e) \in Options
                    /\ e.related # None => /\ Home(e) = OptionOf[e.related]
                                           /\ e.related # Unset
                                           /\ e.related \in Range(ChoicesOf[Home(e)])
                                           /\ Home(e) # OptionOf[e.choice] => Home(e) \in Links[OptionOf[e.choice]]
                    /\ e.related = None => Home(e) = OptionOf[e.choice]
  OBVIOUS
<1>1. e.choice \in AllChoices /\ e.related \in AllChoices \cup {None}
  BY ElementTypes
<1>2. OptionOf[e.choice] \in Options /\ e.choice \in Range(ChoicesOf[OptionOf[e.choice]])
  BY <1>1, Owner
<1>3. e.related # None => OptionOf[e.related] \in Options /\ e.related \in Range(ChoicesOf[OptionOf[e.related]])
  BY <1>1, Owner
<1>4. e.choice # None /\ e.choice # Unset /\ e.related # Unset
  BY <1>1, Choices DEF None, Unset
<1> QED
  BY <1>2, <1>3, <1>4, LinksOf DEF Home

LEMMA Placing ==
  ASSUME NEW s \in Good, NEW o \in Options, NEW c \in Range(ChoicesOf[o]) \cup {None},
         NEW S \in SUBSET Options, Placed(s, S)
  PROVE  Placed(ApplyChoice(s, o, c), S \cup {o})
<1> DEFINE t == ApplyChoice(s, o, c)
           parents == getParentOptions(s.linked, o)
           children == getChildOptions(s.linked, o)
<1>1. /\ t.dh = s.dh /\ t.linked = s.linked
      /\ t.cur[o] = c
      /\ \A p \in Options \ {o} : t.cur[p] = s.cur[p] \/ (s.cur[p] = Unset /\ t.cur[p] = None)
      /\ \A e \in Elements : \/ e.choice = c /\ e.related = None
                             \/ e.related = c /\ \E k \in children : e.choice = Value(t, k)
                             => e \in t.bucket[o]
      /\ \A p \in Options \ {o} : \A e \in Elements :
            \/ e \in s.bucket[p]
            \/ p \in parents /\ e.choice = c /\ e.related = t.cur[p]
            => e \in t.bucket[p]
  BY Applied
<1> HIDE DEF t
<1>2. SUFFICES ASSUME t.linked, NEW e \in Elements, Called(t, e), Home(e) \in S \cup {o}
               PROVE  e \in t.bucket[Home(e)]
  BY DEF Placed, t
<1> DEFINE k == OptionOf[e.choice]
<1>3. s.linked = TRUE /\ children = {x \in Options : o \in Links[x]} /\ parents = Links[o]
  BY <1>1, <1>2 DEF getParentOptions, getChildOptions, Good, States
<1>4. /\ k \in Options /\ t.cur[k] = e.choice /\ e.choice # None /\ e.choice # Unset
      /\ e.related # None => t.cur[Home(e)] = e.related /\ e.related # Unset
  BY <1>2, Homes DEF Called
<1>5. Value(t, k) = e.choice
  BY <1>4 DEF Value
<1>6. CASE Home(e) = o
  <2>1. CASE e.related = None
    BY <1>1, <1>4, <1>6, <2>1, Homes
  <2>2. CASE e.related # None
    <3>1. e.related = c /\ k # o
      BY <1>1, <1>4, <1>6, <2>2, ElementTypes
    <3>2. k \in children
      BY <1>3, <1>4, <1>6, <2>2, <3>1, Homes
    <3> QED
      BY <1>1, <1>5, <1>6, <3>1, <3>2
  <2> QED
    BY <2>1, <2>2
<1>7. CASE Home(e) # o /\ k = o
  <2>1. e.related # None /\ e.choice = c /\ e.related = t.cur[Home(e)]
    BY <1>1, <1>4, <1>7, Homes
  <2>2. Home(e) \in parents
    BY <1>3, <1>7, <2>1, Homes
  <2> QED
    BY <1>1, <1>7, <2>1, <2>2, Homes
<1>8. CASE Home(e) # o /\ k # o
  <2>1. Called(s, e)
    <3>1. s.cur[k] = e.choice
      BY <1>1, <1>4, <1>8
    <3>2. e.related # None => s.cur[Home(e)] = e.related
      BY <1>1, <1>4, <1>8, Homes
    <3> QED
      BY <1>1, <1>2, <3>1, <3>2, Homes DEF Called
  <2>2. e \in s.bucket[Home(e)]
    BY <1>2, <1>3, <1>8, <2>1 DEF Placed
  <2> QED
    BY <1>1, <1>8, <2>2, Homes
<1> QED
  BY <1>6, <1>7, <1>8

LEMMA AppliedGood ==
  ASSUME NEW s \in Good, NEW o \in Options, NEW c \in Range(ChoicesOf[o]) \cup {None}
  PROVE  ApplyChoice(s, o, c) \in Good
<1> DEFINE t == ApplyChoice(s, o, c)
           parents == getParentOptions(s.linked, o)
           children == getChildOptions(s.linked, o)
<1>1. /\ t \in States /\ t.cur[o] = c
      /\ \A p \in Options \ {o} : /\ t.cur[p] = s.cur[p] \/ (s.cur[p] = Unset /\ t.cur[p] = None)
                                  /\ t.cur[p] \in Chosable(p)
                                  /\ p \in parents => t.cur[p] # Unset
      /\ \A e : e \in t.bucket[o] =>
                   /\ e \in Elements
                   /\ \/ e.choice = c /\ e.related = None
                      \/ e.related = c /\ \E k \in children : e.choice = Value(t, k)
      /\ \A p \in Options \ {o} : \A e :
            e \in t.bucket[p] => \/ e \in s.bucket[p]
                                 \/ p \in parents /\ e \in Elements /\ e.choice = c /\ e.related = t.cur[p]
  BY Applied
<1> HIDE DEF t
<1>2. \A p \in Options : t.cur[p] \in Chosable(p)
  BY <1>1 DEF Chosable
<1>3. ASSUME NEW e \in t.bucket[o] PROVE Suits(t, e, o)
  <2>0. e \in Elements
    BY <1>1, <1>3
  <2>1. CASE e.choice = c /\ e.related = None
    BY <1>1, <2>0, <2>1 DEF Suits
  <2>2. CASE e.related = c /\ \E k \in children : e.choice = Value(t, k)
    <3>1. PICK k \in children : e.choice = Value(t, k)
      BY <2>2
    <3>2. k \in Options /\ o \in getParentOptions(s.linked, k)
      BY <3>1 DEF getChildOptions
    <3>3. o \in Links[k]
      BY <3>2, Parents DEF Good, States
    <3>4. e.choice \in Chosable(k) /\ e.choice # None /\ e.choice # Unset
      BY <3>1, <3>2, <1>2, <2>0, Homes DEF Value, Chosable
    <3>5. OptionOf[e.choice] = k
      BY <3>2, <3>4, <2>0, ElementTypes, Owner DEF Chosable
    <3> QED
      BY <1>1, <2>2, <3>3, <3>5 DEF Suits
  <2> QED
    BY <1>1, <1>3, <2>1, <2>2
<1>4. ASSUME NEW p \in Options \ {o}, NEW e \in t.bucket[p] PROVE Suits(t, e, p)
  <2>1. CASE e \in s.bucket[p]
    <3>1. Suits(s, e, p) /\ e \in Elements
      BY <1>4, <2>1 DEF Good, States
    <3>2. s.cur[p] # Unset
      BY <3>1, ElementTypes, Homes, Choices DEF Suits, None, Unset
    <3> QED
      BY <1>1, <3>1, <3>2 DEF Suits
  <2>2. CASE p \in parents /\ e \in Elements /\ e.choice = c /\ e.related = t.cur[p]
    <3>1. p \in Links[o] /\ c # None
      BY <2>2, Parents, Homes DEF Good, States
    <3>2. OptionOf[e.choice] = o
      BY <2>2, <3>1, ElementTypes, Owner
    <3> QED
      BY <1>1, <2>2, <3>1, <3>2 DEF Suits
  <2> QED
    BY <1>1, <1>4, <2>1, <2>2
<1> QED
  BY <1>1, <1>2, <1>3, <1>4 DEF Good, t

LEMMA AppliedKeeps ==
  ASSUME NEW s \in Good, NEW o \in Options, NEW c \in Range(ChoicesOf[o])
  PROVE  Kept(s, ApplyChoice(s, o, c))
<1>0. c \notin {None, Unset}
  BY ChoiceLists, Choices
<1>1. Same(s, ApplyChoice(s, o, c)) /\ Grown(s, ApplyChoice(s, o, c))
  <2> DEFINE t == ApplyChoice(s, o, c)
  <2>1. /\ t.dh = s.dh /\ t.linked = s.linked /\ t.batch = s.batch /\ t.cur[o] = c
        /\ \A p \in Options \ {o} : t.cur[p] = s.cur[p] \/ (s.cur[p] = Unset /\ t.cur[p] = None)
    BY Applied
  <2> HIDE DEF t
  <2> QED
    BY <1>0, <2>1 DEF Same, Grown, t
<1>2. \A S \in SUBSET Options : Placed(s, S) => Placed(ApplyChoice(s, o, c), S)
  <2>1. \A S \in SUBSET Options : Placed(s, S) => Placed(ApplyChoice(s, o, c), S \cup {o})
    BY Placing
  <2> QED
    BY <2>1 DEF Placed
<1> QED
  BY <1>1, <1>2, AppliedGood DEF Kept

LEMMA AnnouncedKeeps == \A s \in Good : Kept(s, Announce(s))
<1> SUFFICES ASSUME NEW s \in Good PROVE Kept(s, Announce(s))
  OBVIOUS
<1>1. s \in States
  BY DEF Good
<1>2. Announce(s) \in Good /\ Same(s, Announce(s)) /\ Announce(s).cur = s.cur /\ Announce(s).bucket = s.bucket
  BY <1>1, Announced DEF Same
<1> QED
  BY <1>2 DEF Kept, Placed, Called, Same, Grown
(***************************************************************************)
(* The loops.  Each goes through a run of its passes, and what every pass  *)
(* keeps is kept by the loop.                                              *)
(***************************************************************************)
LEMMA RanKept ==
  ASSUME NEW n \in Nat, NEW V \in SUBSET Good, NEW s \in V, NEW F, NEW x, Ran(x, n, V, s, F),
         \A i \in 1..n : \A t \in V : Kept(t, F[i][t])
  PROVE  Kept(s, x)
<1>1. PICK r : Run(r, n, V, s, F) /\ x = r[n]
  BY DEF Ran
<1> DEFINE P == {i \in 0..n : Kept(s, r[i])}
<1>2. 0 \in P
  BY <1>1, KeptSelf DEF Run
<1>3. ASSUME NEW i \in 1..n, i - 1 \in P PROVE i \in P
  <2>1. r[i] = F[i][r[i - 1]] /\ r[i - 1] \in V /\ Kept(s, r[i - 1])
    BY <1>1, <1>3 DEF Run
  <2>2. Kept(r[i - 1], r[i])
    BY <2>1
  <2> QED
    BY <2>1, <2>2, KeptOn
<1>4. \A i \in 1..n : i - 1 \in P => i \in P
  BY <1>3
<1>5. \A i \in 0..n : i \in P
  <2> HIDE DEF P
  <2> QED
    BY <1>2, <1>4, Passes
<1> QED
  BY <1>1, <1>5

LEMMA RanPlaced ==
  ASSUME NEW V \in SUBSET Good, NEW s \in V, NEW F, NEW x, Ran(x, Len(OptionIDs), V, s, F),
         \A i \in 1..Len(OptionIDs) : \A t \in V : \A S \in SUBSET Options :
            Placed(t, S) => Placed(F[i][t], S \cup {OptionIDs[i]})
  PROVE  Placed(x, Options)
<1> DEFINE n == Len(OptionIDs)
           before(i) == {OptionIDs[j] : j \in 1..i}
<1>1. PICK r : Run(r, n, V, s, F) /\ x = r[n]
  BY DEF Ran
<1>2. n \in Nat /\ \A i \in 1..n : OptionIDs[i] \in Options
  BY OptionList
<1> DEFINE P == {i \in 0..n : Placed(r[i], before(i))}
<1>3. 0 \in P
  BY <1>2 DEF Placed
<1>4. ASSUME NEW i \in 1..n, i - 1 \in P PROVE i \in P
  <2>1. /\ i - 1 \in 0..n /\ i \in 0..n
        /\ before(i) = before(i - 1) \cup {OptionIDs[i]} /\ before(i - 1) \subseteq Options
    BY <1>2
  <2>2. r[i - 1] \in V /\ r[i] = F[i][r[i - 1]]
    BY <1>1, <2>1 DEF Run
  <2>3. Placed(r[i - 1], before(i - 1))
    BY <1>4
  <2> HIDE DEF before, P
  <2>4. Placed(r[i], before(i))
    BY <2>1, <2>2, <2>3
  <2> QED
    BY <2>1, <2>4 DEF P
<1>5. \A i \in 1..n : i - 1 \in P => i \in P
  BY <1>4
<1>6. \A i \in 0..n : i \in P
  <2> HIDE DEF P, n
  <2> QED
    BY ONLY <1>2, <1>3, <1>5, Passes
<1>7. Options \subseteq before(n)
  BY OptionList
<1>8. Placed(x, before(n))
  <2>1. n \in P
    <3> HIDE DEF P, n
    <3> QED
      BY <1>2, <1>6
  <2> HIDE DEF before, n
  <2> QED
    BY <1>1, <2>1
<1> QED
  BY <1>7, <1>8 DEF Placed

(* The options that gate the texture of what c adds hold compatible values. *)
Textured(s, c, S) == \A o \in S : Compatible(c, o) # {} => s.cur[o] \in Compatible(c, o)

LEMMA GateKeeps ==
  ASSUME NEW s \in Good, NEW o \in Options, NEW c \in AllChoices \cup {None}
  PROVE  /\ Kept(s, OpenGate(s, o, c))
         /\ \A S \in SUBSET Options : Textured(s, c, S) => Textured(OpenGate(s, o, c), c, S \cup {o})
<1> DEFINE good == Compatible(c, o)
           x == CHOOSE y \in good : TRUE
           t == ApplyChoice(s, o, x)
<1>1. CASE good = {}
  BY <1>1, KeptSelf DEF OpenGate, Textured
<1>2. CASE good # {} /\ get(s, o) \in good
  <2>1. s.cur[o] \in good
    BY <1>2, Gates DEF get
  <2> QED
    BY <1>2, <2>1, KeptSelf DEF OpenGate, Textured
<1>3. CASE good # {} /\ get(s, o) \notin good
  <2>1. x \in good /\ x \in Range(ChoicesOf[o])
    BY <1>3, Gates
  <2>2. OpenGate(s, o, c) = Announce(t)
    BY <1>3 DEF OpenGate
  <2> HIDE DEF x
  <2>3. t \in Good /\ Kept(s, t) /\ t \in States
    BY <2>1, AppliedKeeps DEF Kept, Good
  <2>4. Kept(s, Announce(t)) /\ Announce(t).cur = t.cur
    BY <2>3, AnnouncedKeeps, Announced, KeptOn
  <2>5. t.cur[o] = x /\ \A p \in Options \ {o} : t.cur[p] = s.cur[p] \/ (s.cur[p] = Unset /\ t.cur[p] = None)
    BY <2>1, Applied
  <2> HIDE DEF t
  <2>6. \A p \in Options : p # o /\ s.cur[p] \in Compatible(c, p) => t.cur[p] \in Compatible(c, p)
    BY <2>5, Gates
  <2> QED
    BY <2>1, <2>2, <2>4, <2>5, <2>6 DEF Textured
<1> QED
  BY <1>1, <1>2, <1>3

GatePass(c) == [i \in 1..Len(OptionIDs) |-> [t \in Good |-> OpenGate(t, OptionIDs[i], c)]]

LEMMA GateLoop ==
  ASSUME NEW s \in Good, NEW c \in AllChoices \cup {None}
  PROVE  Ran(autoSelectTextureGating(s, c), Len(OptionIDs), Good, s, GatePass(c))
<1> DEFINE n == Len(OptionIDs)
           D(f) == [i \in 0..Len(OptionIDs) |->
                       IF i = 0 THEN s
                       ELSE CHOOSE t \in {OpenGate(u, OptionIDs[i], c) : u \in {f[i - 1]}} : TRUE]
           g == CHOOSE f : f = D(f)
<1>1. n \in Nat /\ \A i \in 1..n : OptionIDs[i] \in Options
  BY OptionList
<1>2. GatePass(c) \in [1..n -> [Good -> Good]]
  <2>1. \A i \in 1..n : \A t \in Good : OpenGate(t, OptionIDs[i], c) \in Good
    BY <1>1, GateKeeps DEF Kept
  <2> QED
    BY <2>1 DEF GatePass
<1>3. \A i \in 1..n : \A t \in Good : GatePass(c)[i][t] = OpenGate(t, OptionIDs[i], c)
  BY DEF GatePass
<1>4. ASSUME NEW f, NEW i \in 1..n PROVE D(f)[i] = OpenGate(f[i - 1], OptionIDs[i], c)
  OBVIOUS
<1>5. ASSUME NEW f PROVE D(f)[0] = s /\ D(f) = [i \in 0..n |-> D(f)[i]]
  BY <1>1
<1>6. autoSelectTextureGating(s, c) = g[n]
  BY DEF autoSelectTextureGating, Loop
<1>7. PICK r : Run(r, n, Good, s, GatePass(c))
  <2> HIDE DEF n, D
  <2> QED
    BY ONLY <1>1, <1>2, Recursion, s \in Good
<1>8. r = D(r)
  <2>1. ASSUME NEW i \in 0..n PROVE r[i] = D(r)[i]
    <3>1. CASE i = 0
      BY <1>5, <1>7, <3>1 DEF Run
    <3>2. CASE i # 0
      <4>1. i \in 1..n /\ i - 1 \in 0..n
        BY <1>1, <3>2
      <4>2. r[i - 1] \in Good /\ r[i] = GatePass(c)[i][r[i - 1]]
        BY <1>7, <4>1 DEF Run
      <4>3. r[i] = OpenGate(r[i - 1], OptionIDs[i], c)
        BY <1>3, <4>1, <4>2
      <4> QED
        BY <1>4, <4>1, <4>3
    <3> QED
      BY <3>1, <3>2
  <2>2. D(r) = [i \in 0..n |-> D(r)[i]]
    BY <1>5
  <2> HIDE DEF D, n
  <2>3. r = [i \in 0..n |-> r[i]]
    BY <1>7 DEF Run
  <2> QED
    BY <2>1, <2>2, <2>3
<1>9. g = D(g)
  <2> HIDE DEF D
  <2> QED
    BY <1>8
<1>10. /\ g = [i \in 0..n |-> g[i]] /\ g[0] = s
       /\ \A i \in 1..n : g[i] = OpenGate(g[i - 1], OptionIDs[i], c)
  <2>1. D(g)[0] = s /\ D(g) = [i \in 0..n |-> D(g)[i]]
    BY <1>5
  <2> HIDE DEF D, g
  <2> QED
    BY <1>4, <1>9, <2>1
<1> HIDE DEF g, D, n
<1>11. Run(g, n, Good, s, GatePass(c))
  <2>1. \A i \in 1..n : g[i - 1] \in Good => g[i] = GatePass(c)[i][g[i - 1]]
    BY <1>3, <1>10
  <2> QED
    BY ONLY <1>1, <1>2, <1>10, <2>1, IsRun, s \in Good
<1> QED
  BY <1>6, <1>11 DEF Ran, n

(***************************************************************************)
(* set(): the choice, its gates, the refresh.                              *)
(***************************************************************************)
LEMMA GatesRun ==
  ASSUME NEW s \in Good, NEW c \in AllChoices \cup {None}
  PROVE  LET t == autoSelectTextureGating(s, c)
         IN  Kept(s, t) /\ Textured(t, c, Options)
<1> DEFINE n == Len(OptionIDs)
           t == autoSelectTextureGating(s, c)
           before(i) == {OptionIDs[j] : j \in 1..i}
<1>1. n \in Nat /\ \A i \in 1..n : OptionIDs[i] \in Options
  BY OptionList
<1>2. \A i \in 1..n : \A u \in Good : GatePass(c)[i][u] = OpenGate(u, OptionIDs[i], c)
  BY DEF GatePass
<1>3. Ran(t, n, Good, s, GatePass(c))
  BY GateLoop
<1>4. PICK r : Run(r, n, Good, s, GatePass(c)) /\ t = r[n]
  BY <1>3 DEF Ran
<1> HIDE DEF t, n
<1>5. Kept(s, t)
  <2>1. \A i \in 1..n : \A u \in Good : Kept(u, GatePass(c)[i][u])
    BY <1>1, <1>2, GateKeeps
  <2> QED
    BY ONLY <1>1, <1>3, <2>1, RanKept, s \in Good, Good \in SUBSET Good
<1> DEFINE P == {i \in 0..n : Textured(r[i], c, before(i))}
<1>6. \A i \in 0..n : i \in P
  <2>1. 0 \in P
    BY <1>1 DEF Textured
  <2>2. ASSUME NEW i \in 1..n, i - 1 \in P PROVE i \in P
    <3>1. /\ i - 1 \in 0..n /\ i \in 0..n
          /\ before(i) = before(i - 1) \cup {OptionIDs[i]} /\ before(i - 1) \subseteq Options
      BY <1>1
    <3>2. r[i - 1] \in Good /\ r[i] = OpenGate(r[i - 1], OptionIDs[i], c)
      BY <1>2, <1>4, <3>1 DEF Run
    <3>3. Textured(r[i - 1], c, before(i - 1))
      BY <2>2
    <3> HIDE DEF before, P
    <3>4. Textured(r[i], c, before(i))
      BY <1>1, <3>1, <3>2, <3>3, GateKeeps
    <3> QED
      BY <3>1, <3>4 DEF P
  <2>3. \A i \in 1..n : i - 1 \in P => i \in P
    BY <2>2
  <2> HIDE DEF P
  <2> QED
    BY ONLY <1>1, <2>1, <2>3, Passes
<1>7. Options \subseteq before(n)
  BY OptionList DEF n
<1>8. Textured(t, c, before(n))
  BY <1>1, <1>4, <1>6
<1> QED
  BY <1>5, <1>7, <1>8 DEF Textured, t

LEMMA Setting ==
  ASSUME NEW s \in Good, NEW o \in Options, NEW c \in Range(ChoicesOf[o])
  PROVE  /\ Kept(s, set(s, o, c))
         /\ \A S \in SUBSET Options : Placed(s, S) => Placed(set(s, o, c), S \cup {o})
         /\ Textured(set(s, o, c), c, Options)
         /\ ~s.batch => set(s, o, c).view = ViewOf(set(s, o, c))
         /\ set(s, o, c).cur[o] \notin {None, Unset}
<1> DEFINE t == ApplyChoice(s, o, c)
           u == autoSelectTextureGating(t, c)
<1>1. c \in AllChoices
  BY ChoiceLists
<1>2. Kept(s, t) /\ t \in Good /\ \A S \in SUBSET Options : Placed(s, S) => Placed(t, S \cup {o})
  BY AppliedKeeps, Placing DEF Kept
<1>a. t.cur[o] \notin {None, Unset}
  BY <1>1, Applied, Choices
<1> HIDE DEF t
<1>3. Kept(t, u) /\ Textured(u, c, Options) /\ u \in Good
  BY <1>1, <1>2, GatesRun DEF Kept
<1>4. set(s, o, c) = Announce(u)
  BY DEF set, t
<1> HIDE DEF u
<1>5. Kept(u, Announce(u)) /\ Announce(u).cur = u.cur /\ (~u.batch => Announce(u).view = ViewOf(Announce(u)))
  BY <1>3, AnnouncedKeeps, Announced DEF Good
<1>6. Kept(s, Announce(u)) /\ Kept(t, Announce(u)) /\ u.batch = s.batch
  BY <1>2, <1>3, <1>5, KeptOn DEF Kept, Same
<1>7. \A S \in SUBSET Options : Placed(s, S) => Placed(Announce(u), S \cup {o})
  BY <1>2, <1>6 DEF Kept
<1>8. Textured(Announce(u), c, Options)
  BY <1>3, <1>5 DEF Textured
<1>9. Announce(u).cur[o] \notin {None, Unset}
  BY <1>a, <1>6 DEF Kept, Grown
<1> QED
  BY <1>4, <1>5, <1>6, <1>7, <1>8, <1>9
(***************************************************************************)
(* What set() leaves each option at, and what it makes of the buckets.     *)
(***************************************************************************)
LEMMA Unchosen == \A s, t : \A o : /\ Value(s, o) = get(s, o)
                                   /\ t.cur[o] = s.cur[o] \/ (s.cur[o] = Unset /\ t.cur[o] = None)
                                      => Value(t, o) = Value(s, o)
  BY DEF Value, get, None, Unset

LEMMA OpenGateValues ==
  ASSUME NEW s \in Good, NEW o \in Options, NEW c \in AllChoices \cup {None}
  PROVE  /\ OpenGate(s, o, c) \in Good
         /\ \A p \in Options \ {o} : Value(OpenGate(s, o, c), p) = Value(s, p)
         /\ Compatible(c, o) = {} \/ Value(s, o) \in Compatible(c, o) => OpenGate(s, o, c) = s
<1> DEFINE good == Compatible(c, o)
           x == CHOOSE y \in good : TRUE
           t == ApplyChoice(s, o, x)
<1>1. CASE good = {} \/ get(s, o) \in good
  BY <1>1 DEF OpenGate
<1>2. CASE ~(good = {} \/ get(s, o) \in good)
  <2>1. x \in good /\ x \in Range(ChoicesOf[o])
    BY <1>2, Gates
  <2>2. OpenGate(s, o, c) = Announce(t)
    BY <1>2 DEF OpenGate
  <2> HIDE DEF x
  <2>3. \A p \in Options \ {o} : t.cur[p] = s.cur[p] \/ (s.cur[p] = Unset /\ t.cur[p] = None)
    BY <2>1, Applied
  <2>4. t \in Good /\ t \in States
    BY <2>1, AppliedGood DEF Good
  <2> HIDE DEF t
  <2>5. Announce(t) \in Good /\ Announce(t).cur = t.cur
    BY <2>4, Announced
  <2>6. \A p \in Options \ {o} : Value(Announce(t), p) = Value(s, p)
    BY <2>3, <2>5 DEF Value, None, Unset
  <2> QED
    BY <1>2, <2>2, <2>5, <2>6, Unchosen
<1> QED
  BY <1>1, <1>2

(* The gates of a choice leave alone what is not one of them or is
   compatible. *)
LEMMA GatesValues ==
  ASSUME NEW s \in Good, NEW c \in AllChoices \cup {None}
  PROVE  LET t == autoSelectTextureGating(s, c)
         IN  /\ t \in Good
             /\ \A p \in Options : Compatible(c, p) = {} \/ Value(s, p) \in Compatible(c, p)
                                   => Value(t, p) = Value(s, p)
<1> DEFINE n == Len(OptionIDs)
           t == autoSelectTextureGating(s, c)
           steady(p) == Compatible(c, p) = {} \/ Value(s, p) \in Compatible(c, p)
           Q == {u \in Good : \A p \in Options : steady(p) => Value(u, p) = Value(s, p)}
           P == [i \in 0..n |-> Q]
<1>1. n \in Nat /\ \A i \in 1..n : OptionIDs[i] \in Options
  BY OptionList
<1>2. \A i \in 1..n : \A u \in Good : GatePass(c)[i][u] = OpenGate(u, OptionIDs[i], c)
  BY DEF GatePass
<1>3. Ran(t, n, Good, s, GatePass(c))
  BY GateLoop
<1> HIDE DEF t, n
<1>4. ASSUME NEW i \in 1..n, NEW u \in Good, u \in P[i - 1] PROVE GatePass(c)[i][u] \in P[i]
  <2>1. u \in Q /\ P[i] = Q /\ OptionIDs[i] \in Options
    BY <1>1, <1>4
  <2> DEFINE o == OptionIDs[i]
             v == OpenGate(u, o, c)
  <2>2. GatePass(c)[i][u] = v
    BY <1>2
  <2>3. v \in Good /\ (\A p \in Options \ {o} : Value(v, p) = Value(u, p))
        /\ (Compatible(c, o) = {} \/ Value(u, o) \in Compatible(c, o) => v = u)
    BY <2>1, OpenGateValues
  <2> HIDE DEF v, P
  <2>4. ASSUME NEW p \in Options, steady(p) PROVE Value(v, p) = Value(s, p)
    <3>1. Value(u, p) = Value(s, p)
      BY <2>1, <2>4
    <3> QED
      BY <2>3, <2>4, <3>1
  <2>5. v \in Q
    BY <2>3, <2>4
  <2> QED
    BY <2>1, <2>2, <2>5
<1>5. s \in P[0]
  BY <1>1
<1> HIDE DEF P
<1>6. t \in Good /\ t \in P[n]
  BY ONLY <1>1, <1>3, <1>4, <1>5, Along
<1>7. t \in Q
  BY <1>1, <1>6 DEF P
<1> QED
  BY <1>6, <1>7 DEF t

LEMMA SetValues ==
  ASSUME NEW s \in Good, NEW o \in Options, NEW c \in Range(ChoicesOf[o]) \cup {None}
  PROVE  LET t == set(s, o, c)
             w == [p \in Options |-> IF p = o THEN c ELSE Value(s, p)]
         IN  /\ t \in Good /\ Same(s, t)
             /\ \A p \in Options : Compatible(c, p) = {} \/ w[p] \in Compatible(c, p) => Value(t, p) = w[p]
<1> DEFINE a == ApplyChoice(s, o, c)
           g == autoSelectTextureGating(a, c)
           t == set(s, o, c)
           w == [p \in Options |-> IF p = o THEN c ELSE Value(s, p)]
<1>0. c \in AllChoices \cup {None} /\ c # Unset
  BY ChoiceLists, Choices DEF None, Unset
<1>1. a \in Good
  BY AppliedGood
<1>2. Same(s, a) /\ a.cur[o] = c
      /\ \A p \in Options \ {o} : a.cur[p] = s.cur[p] \/ (s.cur[p] = Unset /\ a.cur[p] = None)
  BY Applied DEF Same
<1>3. t = Announce(g)
  BY DEF set
<1> HIDE DEF a
<1>4. \A p \in Options : Value(a, p) = w[p]
  BY <1>0, <1>2 DEF Value, None, Unset
<1>5. g \in Good /\ \A p \in Options : Compatible(c, p) = {} \/ Value(a, p) \in Compatible(c, p)
                                       => Value(g, p) = Value(a, p)
  BY <1>0, <1>1, GatesValues
<1>6. Kept(a, g)
  BY <1>0, <1>1, GatesRun
<1> HIDE DEF g, t
<1>7. Kept(g, t) /\ t.cur = g.cur
  BY <1>3, <1>5, AnnouncedKeeps, Announced DEF Good
<1>8. t \in Good /\ Same(s, t)
  BY <1>2, <1>6, <1>7 DEF Kept, Same
<1>9. \A p \in Options : Value(t, p) = Value(g, p)
  BY <1>7 DEF Value
<1> HIDE DEF w
<1> QED
  BY <1>4, <1>5, <1>8, <1>9 DEF t, w

(***************************************************************************)
(* What is left behind.  A bucket is fresh if the choices whose elements   *)
(* it holds are still made: rebuilding a bucket makes it fresh, and a      *)
(* choice of another option makes it stale only if that option had another *)
(* choice and has a link to the bucket's.                                  *)
(***************************************************************************)
Fresh(s, o) == \A e \in s.bucket[o] : s.cur[OptionOf[e.choice]] = e.choice
Free(o) == Links[o] = {}

LEMMA AppliedFresh ==
  ASSUME NEW s \in Good, NEW o \in Options, NEW c \in Range(ChoicesOf[o]),
         Free(o) \/ s.cur[o] \in {c, None, Unset}
  PROVE  LET t == ApplyChoice(s, o, c)
         IN  Fresh(t, o) /\ \A p \in Options : Fresh(s, p) => Fresh(t, p)
<1> DEFINE t == ApplyChoice(s, o, c)
           parents == getParentOptions(s.linked, o)
           children == getChildOptions(s.linked, o)
<1>0. c \in AllChoices /\ OptionOf[c] = o
  BY ChoiceLists, Owner
<1>1. /\ t.cur[o] = c
      /\ \A p \in Options \ {o} : t.cur[p] = s.cur[p] \/ (s.cur[p] = Unset /\ t.cur[p] = None)
      /\ \A e : e \in t.bucket[o] =>
                   /\ e \in Elements
                   /\ \/ e.choice = c /\ e.related = None
                      \/ e.related = c /\ \E k \in children : e.choice = Value(t, k)
      /\ \A p \in Options \ {o} : \A e :
            e \in t.bucket[p] => \/ e \in s.bucket[p]
                                 \/ p \in parents /\ e \in Elements /\ e.choice = c /\ e.related = t.cur[p]
  BY Applied
<1>2. \A p \in Options : t.cur[p] \in Chosable(p)
  BY AppliedGood DEF Good
<1> HIDE DEF t
<1>3. ASSUME NEW e \in t.bucket[o] PROVE t.cur[OptionOf[e.choice]] = e.choice
  <2>0. e \in Elements
    BY <1>1, <1>3
  <2>1. CASE e.choice = c
    BY <1>0, <1>1, <2>1
  <2>2. CASE \E k \in children : e.choice = Value(t, k)
    <3>1. PICK k \in children : e.choice = Value(t, k)
      BY <2>2
    <3>2. k \in Options
      BY <3>1 DEF getChildOptions
    <3>3. e.choice # None /\ e.choice # Unset /\ e.choice \in AllChoices
      BY <2>0, Homes, ElementTypes
    <3>4. t.cur[k] = e.choice
      BY <3>1, <3>3 DEF Value
    <3>5. OptionOf[e.choice] = k
      BY <1>2, <3>2, <3>3, <3>4, Owner DEF Chosable
    <3> QED
      BY <3>4, <3>5
  <2> QED
    BY <1>1, <1>3, <2>1, <2>2
<1>4. ASSUME NEW p \in Options \ {o}, Fresh(s, p), NEW e \in t.bucket[p]
      PROVE  t.cur[OptionOf[e.choice]] = e.choice
  <2>1. CASE e \in s.bucket[p]
    <3>1. e \in Elements /\ Suits(s, e, p)
      BY <1>4, <2>1 DEF Good, States
    <3>2. s.cur[OptionOf[e.choice]] = e.choice
      BY <1>4, <2>1 DEF Fresh
    <3>3. /\ e.choice # None /\ e.choice # Unset /\ OptionOf[e.choice] \in Options
          /\ e.choice \in AllChoices
      BY <3>1, Homes, ElementTypes
    <3>4. CASE OptionOf[e.choice] = o
      <4>1. o # p /\ s.cur[p] \in Chosable(p)
        BY <1>4 DEF Good
      <4>2. e.choice # s.cur[p]
        BY <1>4, <3>3, <3>4, <4>1, Owner DEF Chosable
      <4>3. ~Free(o)
        BY <3>1, <3>4, <4>2 DEF Suits, Free
      <4> QED
        BY <1>1, <3>2, <3>3, <3>4, <4>3
    <3>5. CASE OptionOf[e.choice] # o
      BY <1>1, <3>2, <3>3, <3>5
    <3> QED
      BY <3>4, <3>5
  <2>2. CASE e.choice = c
    BY <1>0, <1>1, <2>2
  <2> QED
    BY <1>1, <1>4, <2>1, <2>2
<1>5. Fresh(t, o)
  BY <1>3 DEF Fresh
<1>6. \A p \in Options \ {o} : Fresh(s, p) => Fresh(t, p)
  BY <1>4 DEF Fresh
<1> QED
  BY <1>5, <1>6 DEF t

(* If the gates that a choice opens are not gated themselves, opening them
   leaves nothing behind. *)
LEMMA GatesFresh ==
  ASSUME NEW s \in Good, NEW c \in AllChoices,
         \A p \in Options : Compatible(c, p) # {} => Free(p) \/ Value(s, p) \in Compatible(c, p)
  PROVE  LET t == autoSelectTextureGating(s, c)
         IN  t \in Good /\ \A p \in Options : Fresh(s, p) => Fresh(t, p)
<1> DEFINE n == Len(OptionIDs)
           t == autoSelectTextureGating(s, c)
           steady(p) == Compatible(c, p) = {} \/ Value(s, p) \in Compatible(c, p)
           Q == {u \in Good : /\ \A p \in Options : Fresh(s, p) => Fresh(u, p)
                              /\ \A p \in Options : steady(p) => Value(u, p) = Value(s, p)}
           P == [i \in 0..n |-> Q]
<1>1. n \in Nat /\ \A i \in 1..n : OptionIDs[i] \in Options
  BY OptionList
<1>2. \A i \in 1..n : \A u \in Good : GatePass(c)[i][u] = OpenGate(u, OptionIDs[i], c)
  BY DEF GatePass
<1>3. Ran(t, n, Good, s, GatePass(c))
  BY GateLoop
<1> HIDE DEF t, n
<1>4. ASSUME NEW i \in 1..n, NEW u \in Good, u \in P[i - 1] PROVE GatePass(c)[i][u] \in P[i]
  <2>1. u \in Q /\ P[i] = Q /\ OptionIDs[i] \in Options
    BY <1>1, <1>4
  <2> DEFINE o == OptionIDs[i]
             good == Compatible(c, o)
             x == CHOOSE y \in good : TRUE
             a == ApplyChoice(u, o, x)
             v == OpenGate(u, o, c)
  <2>2. GatePass(c)[i][u] = v
    BY <1>2
  <2>3. CASE good = {} \/ get(u, o) \in good
    <3>1. v = u
      BY <2>3 DEF OpenGate
    <3> QED
      BY <2>1, <2>2, <3>1
  <2>4. CASE ~(good = {} \/ get(u, o) \in good)
    <3>0. ~steady(o)
      <4>1. good # {} /\ Value(u, o) \notin good
        BY <2>1, <2>4, Unchosen
      <4>2. steady(o) => Value(u, o) = Value(s, o)
        BY <2>1
      <4> QED
        BY <4>1, <4>2
    <3>1. x \in good /\ x \in Range(ChoicesOf[o]) /\ Free(o)
      BY <2>1, <2>4, <3>0, Gates
    <3>a. \A p \in Options \ {o} : Value(v, p) = Value(u, p)
      BY <2>1, OpenGateValues
    <3>2. v = Announce(a)
      BY <2>4 DEF OpenGate
    <3> HIDE DEF x
    <3>3. a \in Good /\ a \in States
      BY <2>1, <3>1, AppliedGood DEF Good
    <3>4. \A p \in Options : Fresh(u, p) => Fresh(a, p)
      BY <2>1, <3>1, AppliedFresh
    <3> HIDE DEF a, v
    <3>5. v \in Good /\ v.cur = a.cur /\ v.bucket = a.bucket
      BY <3>2, <3>3, Announced
    <3>6. \A p \in Options : Fresh(u, p) => Fresh(v, p)
      BY <3>4, <3>5 DEF Fresh
    <3>b. ASSUME NEW p \in Options, steady(p) PROVE Value(v, p) = Value(s, p)
      <4>1. Value(u, p) = Value(s, p)
        BY <2>1, <3>b
      <4> QED
        BY <3>0, <3>a, <3>b, <4>1
    <3>7. v \in Q
      BY <2>1, <3>5, <3>6, <3>b
    <3> QED
      BY <2>1, <2>2, <3>7
  <2> QED
    BY <2>3, <2>4
<1>5. s \in P[0]
  BY <1>1
<1> HIDE DEF P
<1>6. t \in Good /\ t \in P[n]
  BY ONLY <1>1, <1>3, <1>4, <1>5, Along
<1>7. t \in Q
  BY <1>1, <1>6 DEF P
<1> QED
  BY <1>6, <1>7 DEF t

LEMMA SetFresh ==
  ASSUME NEW s \in Good, NEW o \in Options, NEW c \in Range(ChoicesOf[o]),
         Free(o) \/ s.cur[o] \in {c, None, Unset},
         \A p \in Options : Compatible(c, p) # {} =>
            Free(p) \/ (IF p = o THEN c ELSE Value(s, p)) \in Compatible(c, p)
  PROVE  LET t == set(s, o, c)
         IN  Fresh(t, o) /\ \A p \in Options : Fresh(s, p) => Fresh(t, p)
<1> DEFINE a == ApplyChoice(s, o, c)
           g == autoSelectTextureGating(a, c)
           t == set(s, o, c)
<1>0. c \in AllChoices /\ c # Unset
  BY ChoiceLists, Choices
<1>4. t = Announce(g)
  BY DEF set
<1>5. a \in Good /\ Fresh(a, o) /\ \A p \in Options : Fresh(s, p) => Fresh(a, p)
  BY AppliedFresh, AppliedGood
<1>1. a.cur[o] = c /\ \A p \in Options \ {o} : a.cur[p] = s.cur[p] \/ (s.cur[p] = Unset /\ a.cur[p] = None)
  BY Applied
<1> HIDE DEF a
<1>2. \A p \in Options : Value(a, p) = IF p = o THEN c ELSE Value(s, p)
  BY <1>0, <1>1 DEF Value, None, Unset
<1>3. \A p \in Options : Compatible(c, p) # {} => Free(p) \/ Value(a, p) \in Compatible(c, p)
  BY <1>2
<1>6. g \in Good /\ \A p \in Options : Fresh(a, p) => Fresh(g, p)
  BY <1>0, <1>3, <1>5, GatesFresh
<1> HIDE DEF g, t
<1>7. t.cur = g.cur /\ t.bucket = g.bucket
  BY <1>4, <1>6, Announced DEF Good
<1>8. \A p \in Options : Fresh(g, p) => Fresh(t, p)
  BY <1>7 DEF Fresh
<1> QED
  BY <1>5, <1>6, <1>8 DEF t

(***************************************************************************)
(* The passes of the operations.                                           *)
(***************************************************************************)
LEMMA DefaultKeeps ==
  \A s \in Good, o \in Options :
     /\ Kept(s, DefaultChoice(s, o))
     /\ AvailableAt(s.dh, o) # {} => DefaultChoice(s, o).cur[o] \notin {None, Unset}
<1> SUFFICES ASSUME NEW s \in Good, NEW o \in Options
             PROVE  /\ Kept(s, DefaultChoice(s, o))
                    /\ AvailableAt(s.dh, o) # {} => DefaultChoice(s, o).cur[o] \notin {None, Unset}
  OBVIOUS
<1>1. AvailableAt(s.dh, o) # {} => FirstAvailable(s.dh, o) \in Range(ChoicesOf[o])
  BY Available DEF Good, States
<1> HIDE DEF FirstAvailable
<1> QED
  BY <1>1, KeptSelf, Setting DEF DefaultChoice

DefaultPass == [i \in 1..Len(OptionIDs) |-> [t \in Good |-> DefaultChoice(t, OptionIDs[i])]]

LEMMA DefaultLoop ==
  ASSUME NEW s \in Good
  PROVE  Ran(Loop(DefaultChoice, s, OptionIDs), Len(OptionIDs), Good, s, DefaultPass)
<1> DEFINE n == Len(OptionIDs)
           D(f) == [i \in 0..Len(OptionIDs) |->
                       IF i = 0 THEN s
                       ELSE CHOOSE t \in {DefaultChoice(u, OptionIDs[i]) : u \in {f[i - 1]}} : TRUE]
           g == CHOOSE f : f = D(f)
<1>1. n \in Nat /\ \A i \in 1..n : OptionIDs[i] \in Options
  BY OptionList
<1>2. DefaultPass \in [1..n -> [Good -> Good]]
  <2>1. \A i \in 1..n : \A t \in Good : DefaultChoice(t, OptionIDs[i]) \in Good
    BY <1>1, DefaultKeeps DEF Kept
  <2> QED
    BY <2>1 DEF DefaultPass
<1>3. \A i \in 1..n : \A t \in Good : DefaultPass[i][t] = DefaultChoice(t, OptionIDs[i])
  BY DEF DefaultPass
<1>4. ASSUME NEW f, NEW i \in 1..n PROVE D(f)[i] = DefaultChoice(f[i - 1], OptionIDs[i])
  OBVIOUS
<1>5. ASSUME NEW f PROVE D(f)[0] = s /\ D(f) = [i \in 0..n |-> D(f)[i]]
  BY <1>1
<1>6. Loop(DefaultChoice, s, OptionIDs) = g[n]
  BY DEF Loop
<1>7. PICK r : Run(r, n, Good, s, DefaultPass)
  <2> HIDE DEF n, D
  <2> QED
    BY ONLY <1>1, <1>2, Recursion, s \in Good
<1>8. r = D(r)
  <2>1. ASSUME NEW i \in 0..n PROVE r[i] = D(r)[i]
    <3>1. CASE i = 0
      BY <1>5, <1>7, <3>1 DEF Run
    <3>2. CASE i # 0
      <4>1. i \in 1..n /\ i - 1 \in 0..n
        BY <1>1, <3>2
      <4>2. r[i - 1] \in Good /\ r[i] = DefaultPass[i][r[i - 1]]
        BY <1>7, <4>1 DEF Run
      <4>3. r[i] = DefaultChoice(r[i - 1], OptionIDs[i])
        BY <1>3, <4>1, <4>2
      <4> QED
        BY <1>4, <4>1, <4>3
    <3> QED
      BY <3>1, <3>2
  <2>2. D(r) = [i \in 0..n |-> D(r)[i]]
    BY <1>5
  <2> HIDE DEF D, n
  <2>3. r = [i \in 0..n |-> r[i]]
    BY <1>7 DEF Run
  <2> QED
    BY <2>1, <2>2, <2>3
<1>9. g = D(g)
  <2> HIDE DEF D
  <2> QED
    BY <1>8
<1>10. /\ g = [i \in 0..n |-> g[i]] /\ g[0] = s
       /\ \A i \in 1..n : g[i] = DefaultChoice(g[i - 1], OptionIDs[i])
  <2>1. D(g)[0] = s /\ D(g) = [i \in 0..n |-> D(g)[i]]
    BY <1>5
  <2> HIDE DEF D, g
  <2> QED
    BY <1>4, <1>9, <2>1
<1> HIDE DEF g, D, n
<1>11. Run(g, n, Good, s, DefaultPass)
  <2>1. \A i \in 1..n : g[i - 1] \in Good => g[i] = DefaultPass[i][g[i - 1]]
    BY <1>3, <1>10
  <2> QED
    BY ONLY <1>1, <1>2, <1>10, <2>1, IsRun, s \in Good
<1> QED
  BY <1>6, <1>11 DEF Ran, n

(* A loop of random choices: the draw fits the mode, which does not change. *)
InMode(d) == {t \in Good : t.dh = d}

LEMMA RandomKeeps ==
  ASSUME NEW d \in BOOLEAN, NEW draw \in Draws(d)
  PROVE  \A s \in InMode(d), o \in Options : Kept(s, RandomChoice(s, o, draw))
<1> SUFFICES ASSUME NEW s \in InMode(d), NEW o \in Options PROVE Kept(s, RandomChoice(s, o, draw))
  OBVIOUS
<1>1. s \in Good /\ s.dh = d
  BY DEF InMode
<1>2. AvailableAt(d, o) # {} => draw[o] \in AvailableAt(d, o)
  BY DEF Draws
<1>3. AvailableAt(d, o) # {} => ChoicesOf[o][draw[o]] \in Range(ChoicesOf[o])
  BY <1>2 DEF AvailableAt, Range
<1> QED
  BY <1>1, <1>3, KeptSelf, Setting DEF RandomChoice

RandomPass(d, draw) == [i \in 1..Len(OptionIDs) |-> [t \in InMode(d) |-> RandomChoice(t, OptionIDs[i], draw)]]

LEMMA RandomLoop ==
  ASSUME NEW d \in BOOLEAN, NEW s \in InMode(d), NEW draw \in Draws(d)
  PROVE  Ran(Loop(LAMBDA t, o : RandomChoice(t, o, draw), s, OptionIDs), Len(OptionIDs), InMode(d), s, RandomPass(d, draw))
<1> DEFINE n == Len(OptionIDs)
           D(f) == [i \in 0..Len(OptionIDs) |->
                       IF i = 0 THEN s
                       ELSE CHOOSE t \in {RandomChoice(u, OptionIDs[i], draw) : u \in {f[i - 1]}} : TRUE]
           g == CHOOSE f : f = D(f)
<1>1. n \in Nat /\ \A i \in 1..n : OptionIDs[i] \in Options
  BY OptionList
<1>2. RandomPass(d, draw) \in [1..n -> [InMode(d) -> InMode(d)]]
  <2>1. \A i \in 1..n : \A t \in InMode(d) : RandomChoice(t, OptionIDs[i], draw) \in InMode(d)
    BY <1>1, RandomKeeps DEF Kept, Same, InMode
  <2> QED
    BY <2>1 DEF RandomPass
<1>3. \A i \in 1..n : \A t \in InMode(d) : RandomPass(d, draw)[i][t] = RandomChoice(t, OptionIDs[i], draw)
  BY DEF RandomPass
<1>4. ASSUME NEW f, NEW i \in 1..n PROVE D(f)[i] = RandomChoice(f[i - 1], OptionIDs[i], draw)
  OBVIOUS
<1>5. ASSUME NEW f PROVE D(f)[0] = s /\ D(f) = [i \in 0..n |-> D(f)[i]]
  BY <1>1
<1>6. Loop(LAMBDA t, o : RandomChoice(t, o, draw), s, OptionIDs) = g[n]
  BY DEF Loop
<1>7. PICK r : Run(r, n, InMode(d), s, RandomPass(d, draw))
  <2> HIDE DEF n, D
  <2> QED
    BY ONLY <1>1, <1>2, Recursion, s \in InMode(d)
<1>8. r = D(r)
  <2>1. ASSUME NEW i \in 0..n PROVE r[i] = D(r)[i]
    <3>1. CASE i = 0
      BY <1>5, <1>7, <3>1 DEF Run
    <3>2. CASE i # 0
      <4>1. i \in 1..n /\ i - 1 \in 0..n
        BY <1>1, <3>2
      <4>2. r[i - 1] \in InMode(d) /\ r[i] = RandomPass(d, draw)[i][r[i - 1]]
        BY <1>7, <4>1 DEF Run
      <4>3. r[i] = RandomChoice(r[i - 1], OptionIDs[i], draw)
        BY <1>3, <4>1, <4>2
      <4> QED
        BY <1>4, <4>1, <4>3
    <3> QED
      BY <3>1, <3>2
  <2>2. D(r) = [i \in 0..n |-> D(r)[i]]
    BY <1>5
  <2> HIDE DEF D, n
  <2>3. r = [i \in 0..n |-> r[i]]
    BY <1>7 DEF Run
  <2> QED
    BY <2>1, <2>2, <2>3
<1>9. g = D(g)
  <2> HIDE DEF D
  <2> QED
    BY <1>8
<1>10. /\ g = [i \in 0..n |-> g[i]] /\ g[0] = s
       /\ \A i \in 1..n : g[i] = RandomChoice(g[i - 1], OptionIDs[i], draw)
  <2>1. D(g)[0] = s /\ D(g) = [i \in 0..n |-> D(g)[i]]
    BY <1>5
  <2> HIDE DEF D, g
  <2> QED
    BY <1>4, <1>9, <2>1
<1> HIDE DEF g, D, n
<1>11. Run(g, n, InMode(d), s, RandomPass(d, draw))
  <2>1. \A i \in 1..n : g[i - 1] \in InMode(d) => g[i] = RandomPass(d, draw)[i][g[i - 1]]
    BY <1>3, <1>10
  <2> QED
    BY ONLY <1>1, <1>2, <1>10, <2>1, IsRun, s \in InMode(d)
<1> QED
  BY <1>6, <1>11 DEF Ran, n

LEMMA ReresolveKeeps ==
  ASSUME NEW s \in Good, NEW o \in Options
  PROVE  /\ Kept(s, Reresolve(s, o))
         /\ \A S \in SUBSET Options : Placed(s, S) => Placed(Reresolve(s, o), S \cup {o})
         /\ AvailableAt(s.dh, o) # {} => Reresolve(s, o).cur[o] \notin {None, Unset}
<1> DEFINE c == get(s, o)
<1>0. /\ s.cur[o] \in Chosable(o) /\ s.dh \in BOOLEAN /\ None \notin Range(ChoicesOf[o])
      /\ s \in States
  BY ChoiceLists DEF Good, States
<1>1. CASE c # None /\ isChoiceAvailable(s.dh, c)
  <2>1. c \in Range(ChoicesOf[o]) /\ Reresolve(s, o) = set(s, o, c)
    BY <1>0, <1>1 DEF get, Chosable, Reresolve
  <2> QED
    BY <2>1, Setting
<1>2. CASE ~(c # None /\ isChoiceAvailable(s.dh, c)) /\ AvailableAt(s.dh, o) # {}
  <2>1. /\ FirstAvailable(s.dh, o) \in Range(ChoicesOf[o])
        /\ Reresolve(s, o) = set(s, o, FirstAvailable(s.dh, o))
    BY <1>0, <1>2, Available DEF Reresolve
  <2> QED
    BY <2>1, Setting
<1>3. CASE ~(c # None /\ isChoiceAvailable(s.dh, c)) /\ AvailableAt(s.dh, o) = {}
  <2> DEFINE t == DropElements(s, o)
  <2>1. Reresolve(s, o) = t
    BY <1>3 DEF Reresolve
  <2>2. /\ t \in States /\ t.cur = s.cur /\ Same(s, t) /\ t.bucket[o] = {}
        /\ \A p \in Options \ {o} : t.bucket[p] = s.bucket[p]
    BY <1>0 DEF DropElements, States, Same
  <2> HIDE DEF t
  <2>3. t \in Good
    <3>1. \A p \in Options : \A e \in t.bucket[p] : e \in s.bucket[p]
      BY <2>2
    <3> QED
      BY <2>2, <3>1 DEF Good, Suits
  <2>4. ASSUME NEW e \in Elements, Called(t, e) PROVE Home(e) # o /\ Called(s, e)
    <3>1. Called(s, e)
      BY <2>2, <2>4 DEF Called, Same
    <3>2. ASSUME Home(e) = o PROVE FALSE
      <4>1. s.cur[o] \in {e.choice, e.related} /\ s.cur[o] # None /\ isChoiceAvailable(s.dh, s.cur[o])
        BY <3>1, <3>2, Homes DEF Called
      <4> QED
        BY <1>3, <4>1, Homes DEF get
    <3> QED
      BY <3>1, <3>2
  <2>5. \A S \in SUBSET Options : Placed(s, S) => Placed(t, S \cup {o})
    BY <2>2, <2>4, Homes DEF Placed, Same
  <2>6. \A S \in SUBSET Options : Placed(s, S) => Placed(t, S)
    BY <2>5 DEF Placed
  <2> QED
    BY <1>3, <2>1, <2>2, <2>3, <2>5, <2>6 DEF Kept, Grown
<1> QED
  BY <1>1, <1>2, <1>3

ReresolvePass == [i \in 1..Len(OptionIDs) |-> [t \in Good |-> Reresolve(t, OptionIDs[i])]]

LEMMA ReresolveLoop ==
  ASSUME NEW s \in Good
  PROVE  Ran(Loop(Reresolve, s, OptionIDs), Len(OptionIDs), Good, s, ReresolvePass)
<1> DEFINE n == Len(OptionIDs)
           D(f) == [i \in 0..Len(OptionIDs) |->
                       IF i = 0 THEN s
                       ELSE CHOOSE t \in {Reresolve(u, OptionIDs[i]) : u \in {f[i - 1]}} : TRUE]
           g == CHOOSE f : f = D(f)
<1>1. n \in Nat /\ \A i \in 1..n : OptionIDs[i] \in Options
  BY OptionList
<1>2. ReresolvePass \in [1..n -> [Good -> Good]]
  <2>1. \A i \in 1..n : \A t \in Good : Reresolve(t, OptionIDs[i]) \in Good
    BY <1>1, ReresolveKeeps DEF Kept
  <2> QED
    BY <2>1 DEF ReresolvePass
<1>3. \A i \in 1..n : \A t \in Good : ReresolvePass[i][t] = Reresolve(t, OptionIDs[i])
  BY DEF ReresolvePass
<1>4. ASSUME NEW f, NEW i \in 1..n PROVE D(f)[i] = Reresolve(f[i - 1], OptionIDs[i])
  OBVIOUS
<1>5. ASSUME NEW f PROVE D(f)[0] = s /\ D(f) = [i \in 0..n |-> D(f)[i]]
  BY <1>1
<1>6. Loop(Reresolve, s, OptionIDs) = g[n]
  BY DEF Loop
<1>7. PICK r : Run(r, n, Good, s, ReresolvePass)
  <2> HIDE DEF n, D
  <2> QED
    BY ONLY <1>1, <1>2, Recursion, s \in Good
<1>8. r = D(r)
  <2>1. ASSUME NEW i \in 0..n PROVE r[i] = D(r)[i]
    <3>1. CASE i = 0
      BY <1>5, <1>7, <3>1 DEF Run
    <3>2. CASE i # 0
      <4>1. i \in 1..n /\ i - 1 \in 0..n
        BY <1>1, <3>2
      <4>2. r[i - 1] \in Good /\ r[i] = ReresolvePass[i][r[i - 1]]
        BY <1>7, <4>1 DEF Run
      <4>3. r[i] = Reresolve(r[i - 1], OptionIDs[i])
        BY <1>3, <4>1, <4>2
      <4> QED
        BY <1>4, <4>1, <4>3
    <3> QED
      BY <3>1, <3>2
  <2>2. D(r) = [i \in 0..n |-> D(r)[i]]
    BY <1>5
  <2> HIDE DEF D, n
  <2>3. r = [i \in 0..n |-> r[i]]
    BY <1>7 DEF Run
  <2> QED
    BY <2>1, <2>2, <2>3
<1>9. g = D(g)
  <2> HIDE DEF D
  <2> QED
    BY <1>8
<1>10. /\ g = [i \in 0..n |-> g[i]] /\ g[0] = s
       /\ \A i \in 1..n : g[i] = Reresolve(g[i - 1], OptionIDs[i])
  <2>1. D(g)[0] = s /\ D(g) = [i \in 0..n |-> D(g)[i]]
    BY <1>5
  <2> HIDE DEF D, g
  <2> QED
    BY <1>4, <1>9, <2>1
<1> HIDE DEF g, D, n
<1>11. Run(g, n, Good, s, ReresolvePass)
  <2>1. \A i \in 1..n : g[i - 1] \in Good => g[i] = ReresolvePass[i][g[i - 1]]
    BY <1>3, <1>10
  <2> QED
    BY ONLY <1>1, <1>2, <1>10, <2>1, IsRun, s \in Good
<1> QED
  BY <1>6, <1>11 DEF Ran, n

(* The answers of the armory. *)
Answers == {q \in Seq(Nat \X Nat) :
               \A i \in 1..Len(q) : q[i][1] \in Options => q[i][2] \in Range(ChoicesOf[q[i][1]])}

LEMMA ImportKeeps ==
  ASSUME NEW q \in Answers, NEW i \in 1..Len(q)
  PROVE  \A s \in Good : Kept(s, ImportEntry(s, q[i]))
<1> SUFFICES ASSUME NEW s \in Good PROVE Kept(s, ImportEntry(s, q[i]))
  OBVIOUS
<1>1. q[i][1] \in Options => q[i][2] \in Range(ChoicesOf[q[i][1]])
  BY DEF Answers
<1> QED
  BY <1>1, KeptSelf, Setting DEF ImportEntry, hasOption

ImportPass(q) == [i \in 1..Len(q) |-> [t \in Good |-> ImportEntry(t, q[i])]]

LEMMA ImportLoop ==
  ASSUME NEW s \in Good, NEW q \in Answers
  PROVE  Ran(Loop(ImportEntry, s, q), Len(q), Good, s, ImportPass(q))
<1> DEFINE n == Len(q)
           D(f) == [i \in 0..Len(q) |->
                       IF i = 0 THEN s
                       ELSE CHOOSE t \in {ImportEntry(u, q[i]) : u \in {f[i - 1]}} : TRUE]
           g == CHOOSE f : f = D(f)
<1>1. n \in Nat
  BY DEF Answers
<1>2. ImportPass(q) \in [1..n -> [Good -> Good]]
  <2>1. \A i \in 1..n : \A t \in Good : ImportEntry(t, q[i]) \in Good
    BY <1>1, ImportKeeps DEF Kept
  <2> QED
    BY <2>1 DEF ImportPass
<1>3. \A i \in 1..n : \A t \in Good : ImportPass(q)[i][t] = ImportEntry(t, q[i])
  BY DEF ImportPass
<1>4. ASSUME NEW f, NEW i \in 1..n PROVE D(f)[i] = ImportEntry(f[i - 1], q[i])
  OBVIOUS
<1>5. ASSUME NEW f PROVE D(f)[0] = s /\ D(f) = [i \in 0..n |-> D(f)[i]]
  BY <1>1
<1>6. Loop(ImportEntry, s, q) = g[n]
  BY DEF Loop
<1>7. PICK r : Run(r, n, Good, s, ImportPass(q))
  <2> HIDE DEF n, D
  <2> QED
    BY ONLY <1>1, <1>2, Recursion, s \in Good
<1>8. r = D(r)
  <2>1. ASSUME NEW i \in 0..n PROVE r[i] = D(r)[i]
    <3>1. CASE i = 0
      BY <1>5, <1>7, <3>1 DEF Run
    <3>2. CASE i # 0
      <4>1. i \in 1..n /\ i - 1 \in 0..n
        BY <1>1, <3>2
      <4>2. r[i - 1] \in Good /\ r[i] = ImportPass(q)[i][r[i - 1]]
        BY <1>7, <4>1 DEF Run
      <4>3. r[i] = ImportEntry(r[i - 1], q[i])
        BY <1>3, <4>1, <4>2
      <4> QED
        BY <1>4, <4>1, <4>3
    <3> QED
      BY <3>1, <3>2
  <2>2. D(r) = [i \in 0..n |-> D(r)[i]]
    BY <1>5
  <2> HIDE DEF D, n
  <2>3. r = [i \in 0..n |-> r[i]]
    BY <1>7 DEF Run
  <2> QED
    BY <2>1, <2>2, <2>3
<1>9. g = D(g)
  <2> HIDE DEF D
  <2> QED
    BY <1>8
<1>10. /\ g = [i \in 0..n |-> g[i]] /\ g[0] = s
       /\ \A i \in 1..n : g[i] = ImportEntry(g[i - 1], q[i])
  <2>1. D(g)[0] = s /\ D(g) = [i \in 0..n |-> D(g)[i]]
    BY <1>5
  <2> HIDE DEF D, g
  <2> QED
    BY <1>4, <1>9, <2>1
<1> HIDE DEF g, D, n
<1>11. Run(g, n, Good, s, ImportPass(q))
  <2>1. \A i \in 1..n : g[i - 1] \in Good => g[i] = ImportPass(q)[i][g[i - 1]]
    BY <1>3, <1>10
  <2> QED
    BY ONLY <1>1, <1>2, <1>10, <2>1, IsRun, s \in Good
<1> QED
  BY <1>6, <1>11 DEF Ran, n
(***************************************************************************)
(* The operations.  Between them a character is settled: its buckets hold  *)
(* what its choices call for and the viewport shows them.                  *)
(***************************************************************************)
\* Every option has a choice if one is available, and if a new character has
\* one.
Covered(s) == \A o \in Options : AvailableAt(s.dh, o) # {} => s.cur[o] \notin {None, Unset}
Stands(s) == Covered(s) /\ Grown(Constructed, s)

Settled == {s \in Good : ~s.batch /\ Placed(s, Options) /\ s.view = ViewOf(s) /\ Stands(s)}

LEMMA StandsOn == \A s, t : Stands(s) /\ Grown(s, t) /\ t.dh = s.dh => Stands(t)
  BY DEF Stands, Covered, Grown

LEMMA RanCovered ==
  ASSUME NEW V \in SUBSET Good, NEW s \in V, NEW F, NEW x, Ran(x, Len(OptionIDs), V, s, F),
         \A i \in 1..Len(OptionIDs) : \A t \in V :
            /\ Kept(t, F[i][t])
            /\ AvailableAt(t.dh, OptionIDs[i]) # {} => F[i][t].cur[OptionIDs[i]] \notin {None, Unset}
  PROVE  Covered(x)
<1> DEFINE n == Len(OptionIDs)
           done(t, i) == \A j \in 1..i : AvailableAt(t.dh, OptionIDs[j]) # {}
                                         => t.cur[OptionIDs[j]] \notin {None, Unset}
           P == [i \in 0..n |-> {t \in V : done(t, i)}]
<1>1. n \in Nat /\ \A i \in 1..n : OptionIDs[i] \in Options
  BY OptionList
<1>2. \A i \in 1..n : \A t \in V :
         /\ Kept(t, F[i][t])
         /\ AvailableAt(t.dh, OptionIDs[i]) # {} => F[i][t].cur[OptionIDs[i]] \notin {None, Unset}
  OBVIOUS
<1>3. PICK r : Run(r, n, V, s, F) /\ x = r[n]
  BY DEF Ran
<1> HIDE DEF n
<1> DEFINE Q == {i \in 0..n : done(r[i], i)}
<1>4. 0 \in Q
  BY <1>1
<1>5. ASSUME NEW i \in 1..n, i - 1 \in Q PROVE i \in Q
  <2>1. r[i - 1] \in V /\ r[i] = F[i][r[i - 1]] /\ i - 1 \in 0..n /\ i \in 0..n
    BY <1>1, <1>3 DEF Run
  <2>2. Kept(r[i - 1], r[i])
    BY <1>2, <2>1
  <2>3. r[i].dh = r[i - 1].dh /\ Grown(r[i - 1], r[i])
    BY <2>2 DEF Kept, Same
  <2>4. ASSUME NEW j \in 1..i, AvailableAt(r[i].dh, OptionIDs[j]) # {}
        PROVE  r[i].cur[OptionIDs[j]] \notin {None, Unset}
    <3>1. CASE j = i
      BY <1>2, <2>1, <2>3, <2>4, <3>1
    <3>2. CASE j # i
      <4>1. j \in 1..(i - 1) /\ OptionIDs[j] \in Options
        BY <1>1, <3>2
      <4>2. r[i - 1].cur[OptionIDs[j]] \notin {None, Unset}
        BY <1>5, <2>3, <2>4, <4>1
      <4> QED
        BY <2>3, <4>1, <4>2 DEF Grown
    <3> QED
      BY <3>1, <3>2
  <2> QED
    BY <2>1, <2>4
<1>6. \A i \in 1..n : i - 1 \in Q => i \in Q
  BY <1>5
<1>7. \A i \in 0..n : i \in Q
  <2> HIDE DEF Q
  <2> QED
    BY ONLY <1>1, <1>4, <1>6, Passes
<1>8. done(x, n)
  <2>1. n \in Q
    <3> HIDE DEF Q
    <3> QED
      BY <1>1, <1>7
  <2>2. done(r[n], n)
    BY <2>1
  <2> HIDE DEF done
  <2> QED
    BY <1>3, <2>2
<1> QED
  BY <1>8, OptionList DEF Covered, n

LEMMA Refreshing ==
  ASSUME NEW s \in Good, ~s.batch, Placed(s, Options), Stands(s)
  PROVE  Refresh(s) \in Settled /\ Refresh(s).linked = s.linked
<1>1. s \in States
  BY DEF Good
<1>2. /\ Refresh(s).cur = s.cur /\ Refresh(s).bucket = s.bucket /\ Refresh(s).dh = s.dh
      /\ Refresh(s).linked = s.linked /\ Refresh(s).batch = s.batch
      /\ Refresh(s).view = ViewOf(Refresh(s)) /\ Refresh(s) \in Good
  BY <1>1, Refreshed
<1>3. Placed(Refresh(s), Options)
  BY <1>2 DEF Placed, Called
<1>4. Stands(Refresh(s))
  BY <1>2 DEF Stands, Covered, Grown
<1> QED
  BY <1>2, <1>3, <1>4 DEF Settled

LEMMA BatchedOn ==
  ASSUME NEW s \in Good
  PROVE  LET t == BatchOn(s)
         IN  /\ t \in Good /\ t.dh = s.dh /\ t.linked = s.linked /\ t.cur = s.cur /\ t.bucket = s.bucket
             /\ \A S \in SUBSET Options : Placed(s, S) => Placed(t, S)
<1> DEFINE t == BatchOn(s)
<1>1. t \in States /\ t.cur = s.cur /\ t.bucket = s.bucket /\ t.dh = s.dh /\ t.linked = s.linked
  BY DEF BatchOn, Good, States
<1> HIDE DEF t
<1>2. t \in Good
  BY <1>1 DEF Good, Suits
<1>3. \A S \in SUBSET Options : Placed(s, S) => Placed(t, S)
  BY <1>1 DEF Placed, Called
<1> QED
  BY <1>1, <1>2, <1>3 DEF t

LEMMA BatchedOff ==
  ASSUME NEW s \in Good, Placed(s, Options)
  PROVE  /\ BatchOff(s).cur = s.cur /\ BatchOff(s).bucket = s.bucket
         /\ BatchOff(s).linked = s.linked /\ BatchOff(s).dh = s.dh
         /\ Stands(s) => BatchOff(s) \in Settled
<1> DEFINE t == [s EXCEPT !.batch = FALSE]
<1>1. t \in States /\ ~t.batch /\ t.cur = s.cur /\ t.bucket = s.bucket /\ t.dh = s.dh /\ t.linked = s.linked
  BY DEF Good, States
<1>2. BatchOff(s) = Refresh(t)
  BY DEF BatchOff
<1> HIDE DEF t
<1>3. t \in Good
  BY <1>1 DEF Good, Suits
<1>4. Placed(t, Options)
  BY <1>1 DEF Placed, Called
<1>5. Stands(s) => Stands(t)
  BY <1>1 DEF Stands, Covered, Grown
<1> QED
  BY <1>1, <1>2, <1>3, <1>4, <1>5, Refreshing, Refreshed

(* A new character. *)
LEMMA New == Constructed \in Settled /\ Constructed.dh = FALSE /\ Constructed.linked = TRUE
<1> DEFINE n == Len(OptionIDs)
           blank == [cur |-> [o \in Options |-> Unset], bucket |-> [o \in Options |-> {}],
                     dh |-> FALSE, linked |-> TRUE, batch |-> FALSE,
                     view |-> [textures |-> {}, files |-> {}, geosets |-> {}]]
           start == [blank EXCEPT !.cur = [o \in Options |-> Unset], !.dh = FALSE]
           s == BatchOn(start)
           t == Loop(DefaultChoice, s, OptionIDs)
<1>1. start \in Good /\ start.dh = FALSE /\ start.linked = TRUE /\ \A o \in Options : start.cur[o] = Unset
  <2>1. [o \in Options |-> Unset] \in [Options -> Int] /\ [o \in Options |-> {}] \in [Options -> SUBSET Elements]
    BY DEF Unset
  <2>2. blank.view \in Views
    BY DEF Views
  <2>3. /\ start \in States /\ start.dh = FALSE /\ start.linked = TRUE
        /\ start.cur = [o \in Options |-> Unset] /\ start.bucket = [o \in Options |-> {}]
    BY <2>1, <2>2 DEF States
  <2> HIDE DEF start
  <2> QED
    BY <2>3 DEF Good, Chosable
<1>2. Placed(start, Options)
  BY <1>1, Homes DEF Placed, Called
<1>3. Constructed = BatchOff(t)
  BY DEF Constructed, reset
<1> HIDE DEF start
<1>4. s \in Good /\ Placed(s, Options) /\ s.dh = FALSE /\ s.linked = TRUE
  BY <1>1, <1>2, BatchedOn
<1> HIDE DEF s
<1>5. Ran(t, n, Good, s, DefaultPass)
  BY <1>4, DefaultLoop
<1> HIDE DEF t
<1>6. Kept(s, t)
  <2>1. \A i \in 1..n : \A u \in Good : Kept(u, DefaultPass[i][u])
    BY OptionList, DefaultKeeps DEF DefaultPass
  <2>2. n \in Nat
    BY OptionList
  <2> HIDE DEF n
  <2> QED
    BY ONLY <1>4, <1>5, <2>1, <2>2, RanKept, Good \in SUBSET Good
<1>7. t \in Good /\ Placed(t, Options) /\ t.dh = FALSE /\ t.linked = TRUE
  BY <1>4, <1>6 DEF Kept, Same
<1>8. Covered(t)
  <2>1. \A i \in 1..Len(OptionIDs) : \A u \in Good :
           /\ Kept(u, DefaultPass[i][u])
           /\ AvailableAt(u.dh, OptionIDs[i]) # {} => DefaultPass[i][u].cur[OptionIDs[i]] \notin {None, Unset}
    BY OptionList, DefaultKeeps DEF DefaultPass
  <2> QED
    BY ONLY <1>4, <1>5, <2>1, RanCovered, Good \in SUBSET Good
<1>9. Grown(Constructed, t)
  BY <1>3, <1>7, BatchedOff DEF Grown
<1> QED
  BY <1>3, <1>7, <1>8, <1>9, BatchedOff DEF Stands

LEMMA Randomised ==
  ASSUME NEW s \in Settled, NEW draw \in Draws(s.dh)
  PROVE  randomise(s, draw) \in Settled /\ randomise(s, draw).linked = s.linked
<1> DEFINE n == Len(OptionIDs)
           u == BatchOn(s)
           t == Loop(LAMBDA v, o : RandomChoice(v, o, draw), u, OptionIDs)
<1>1. randomise(s, draw) = BatchOff(t)
  BY DEF randomise
<1>2. u \in Good /\ Placed(u, Options) /\ u.dh = s.dh /\ u.linked = s.linked /\ u.cur = s.cur
  BY BatchedOn DEF Settled
<1>3. s.dh \in BOOLEAN /\ u \in InMode(s.dh)
  BY <1>2 DEF Settled, Good, States, InMode
<1> HIDE DEF u
<1>4. Ran(t, n, InMode(s.dh), u, RandomPass(s.dh, draw))
  BY <1>3, RandomLoop
<1> HIDE DEF t
<1>5. Kept(u, t)
  <2>1. \A i \in 1..n : \A v \in InMode(s.dh) : Kept(v, RandomPass(s.dh, draw)[i][v])
    BY <1>3, OptionList, RandomKeeps DEF RandomPass
  <2>2. n \in Nat /\ InMode(s.dh) \in SUBSET Good
    BY OptionList DEF InMode
  <2> HIDE DEF n
  <2> QED
    BY ONLY <1>3, <1>4, <2>1, <2>2, RanKept
<1>6. t \in Good /\ Placed(t, Options) /\ t.linked = s.linked /\ t.dh = s.dh /\ Grown(s, t)
  BY <1>2, <1>5 DEF Kept, Same, Grown
<1>7. Stands(t)
  BY <1>6, StandsOn DEF Settled
<1> QED
  BY <1>1, <1>6, <1>7, BatchedOff

(* Changing the mode takes the placing away and every pass restores it for
   its option. *)
LEMMA Toggled ==
  ASSUME NEW s \in Settled
  PROVE  ToggleAndRefresh(s) \in Settled /\ ToggleAndRefresh(s).linked = s.linked
<1> DEFINE n == Len(OptionIDs)
           u == [s EXCEPT !.dh = ~s.dh]
           t == Loop(Reresolve, u, OptionIDs)
<1>0. s \in States /\ s.dh \in BOOLEAN /\ s \in Good /\ ~s.batch
  BY DEF Settled, Good, States
<1>1. ToggleAndRefresh(s) = Refresh(t)
  <2>1. setDemonHunterMode(s, ~s.dh) = t
    BY <1>0 DEF setDemonHunterMode
  <2> QED
    BY <2>1 DEF ToggleAndRefresh
<1>2. u \in States /\ u.cur = s.cur /\ u.bucket = s.bucket /\ u.linked = s.linked /\ u.batch = s.batch
  BY <1>0 DEF States
<1> HIDE DEF u
<1>3. u \in Good
  BY <1>0, <1>2 DEF Good, Suits
<1>4. Ran(t, n, Good, u, ReresolvePass)
  BY <1>3, ReresolveLoop
<1> HIDE DEF t
<1>5. \A i \in 1..n : \A v \in Good :
         /\ Kept(v, ReresolvePass[i][v])
         /\ \A S \in SUBSET Options : Placed(v, S) => Placed(ReresolvePass[i][v], S \cup {OptionIDs[i]})
  BY OptionList, ReresolveKeeps DEF ReresolvePass
<1>6. Kept(u, t)
  <2>1. n \in Nat /\ \A i \in 1..n : \A v \in Good : Kept(v, ReresolvePass[i][v])
    BY <1>5, OptionList
  <2> HIDE DEF n
  <2> QED
    BY ONLY <1>3, <1>4, <2>1, RanKept, Good \in SUBSET Good
<1>7. Placed(t, Options)
  <2>1. \A i \in 1..n : \A v \in Good : \A S \in SUBSET Options :
           Placed(v, S) => Placed(ReresolvePass[i][v], S \cup {OptionIDs[i]})
    BY <1>5
  <2> QED
    BY ONLY <1>3, <1>4, <2>1, RanPlaced, Good \in SUBSET Good
<1>8. t \in Good /\ t.linked = s.linked /\ ~t.batch
  BY <1>0, <1>2, <1>6 DEF Kept, Same
<1>9. Covered(t)
  <2>1. \A i \in 1..Len(OptionIDs) : \A v \in Good :
           /\ Kept(v, ReresolvePass[i][v])
           /\ AvailableAt(v.dh, OptionIDs[i]) # {} => ReresolvePass[i][v].cur[OptionIDs[i]] \notin {None, Unset}
    BY OptionList, ReresolveKeeps DEF ReresolvePass
  <2> QED
    BY ONLY <1>3, <1>4, <2>1, RanCovered, Good \in SUBSET Good
<1>10. Grown(Constructed, t)
  BY <1>2, <1>6 DEF Kept, Grown, Settled, Stands
<1> QED
  BY <1>1, <1>7, <1>8, <1>9, <1>10, Refreshing DEF Stands

LEMMA ImportedOnce ==
  ASSUME NEW s \in Good, NEW q \in Answers
  PROVE  Kept(s, Loop(ImportEntry, s, q))
<1> DEFINE t == Loop(ImportEntry, s, q)
<1>1. Ran(t, Len(q), Good, s, ImportPass(q))
  BY ImportLoop
<1> HIDE DEF t
<1>2. Len(q) \in Nat /\ \A i \in 1..Len(q) : \A u \in Good : Kept(u, ImportPass(q)[i][u])
  BY ImportKeeps DEF ImportPass, Answers
<1>3. Kept(s, t)
  BY ONLY <1>1, <1>2, RanKept, s \in Good, Good \in SUBSET Good
<1> QED
  BY <1>3 DEF t

LEMMA Imported ==
  ASSUME NEW s \in Settled, NEW i \in 1..Len(Imports), i \in DOMAIN Imports
  PROVE  LET t == Refresh(ImportArmoury(s, Imports[i]))
         IN  t \in Settled /\ t.linked = s.linked
<1> DEFINE q == Imports[i]
           u == Loop(ImportEntry, s, q)
           t == Loop(ImportEntry, u, q)
<1>1. q \in Answers
  BY ImportsAssumption DEF Answers, Range
<1>2. ImportArmoury(s, q) = t
  BY DEF ImportArmoury
<1> HIDE DEF q
<1>3. Kept(s, u)
  BY <1>1, ImportedOnce DEF Settled
<1> HIDE DEF u
<1>4. Kept(u, t)
  BY <1>1, <1>3, ImportedOnce DEF Kept
<1> HIDE DEF t
<1>5. Kept(s, t)
  BY <1>3, <1>4, KeptOn
<1>6. t \in Good /\ Placed(t, Options) /\ ~t.batch /\ t.linked = s.linked
  BY <1>5 DEF Kept, Same, Settled
<1>a. Stands(t)
  BY <1>5, StandsOn DEF Kept, Same, Settled
<1>7. Refresh(t) \in Settled /\ Refresh(t).linked = s.linked
  BY <1>6, <1>a, Refreshing
<1> QED
  BY <1>2, <1>7 DEF q

LEMMA Picked ==
  ASSUME NEW s \in Settled, NEW o \in Options, NEW c \in Range(ChoicesOf[o])
  PROVE  LET t == set(s, o, c)
         IN  t \in Settled /\ t.linked = s.linked /\ Textured(t, c, Options)
<1> DEFINE t == set(s, o, c)
<1>1. /\ Kept(s, t) /\ Textured(t, c, Options) /\ (~s.batch => t.view = ViewOf(t))
  BY Setting DEF Settled
<1> HIDE DEF t
<1>a. Stands(t)
  BY <1>1, StandsOn DEF Kept, Same, Settled
<1>2. t \in Settled /\ t.linked = s.linked
  BY <1>1, <1>a DEF Kept, Same, Settled
<1> QED
  BY <1>1, <1>2 DEF t

(***************************************************************************)
(* Saving and loading.                                                     *)
(***************************************************************************)
LEMMA LoadEntryGood ==
  ASSUME NEW s \in Good, NEW o \in Options, NEW file, file.cur[o] \in Chosable(o)
  PROVE  LoadEntry(s, o, file) \in Good /\ Same(s, LoadEntry(s, o, file))
<1>1. CASE file.cur[o] = Unset
  BY <1>1 DEF LoadEntry, Same
<1>2. CASE file.cur[o] # Unset
  <2>1. file.cur[o] \in Range(ChoicesOf[o]) \cup {None} /\ LoadEntry(s, o, file) = set(s, o, file.cur[o])
    BY <1>2 DEF Chosable, LoadEntry
  <2> QED
    BY <2>1, SetValues
<1> QED
  BY <1>1, <1>2

LoadPass(file) == [i \in 1..Len(OptionIDs) |-> [t \in Good |-> LoadEntry(t, OptionIDs[i], file)]]

LEMMA LoadLoop ==
  ASSUME NEW s \in Good, NEW file, \A o \in Options : file.cur[o] \in Chosable(o)
  PROVE  Ran(LoadChoices(s, file), Len(OptionIDs), Good, s, LoadPass(file))
<1> DEFINE n == Len(OptionIDs)
           D(f) == [i \in 0..Len(OptionIDs) |->
                       IF i = 0 THEN s
                       ELSE CHOOSE t \in {LoadEntry(u, OptionIDs[i], file) : u \in {f[i - 1]}} : TRUE]
           g == CHOOSE f : f = D(f)
<1>1. n \in Nat /\ \A i \in 1..n : OptionIDs[i] \in Options
  BY OptionList
<1>2. LoadPass(file) \in [1..n -> [Good -> Good]]
  <2>1. \A i \in 1..n : \A t \in Good : LoadEntry(t, OptionIDs[i], file) \in Good
    BY <1>1, LoadEntryGood
  <2> QED
    BY <2>1 DEF LoadPass
<1>3. \A i \in 1..n : \A t \in Good : LoadPass(file)[i][t] = LoadEntry(t, OptionIDs[i], file)
  BY DEF LoadPass
<1>4. ASSUME NEW f, NEW i \in 1..n PROVE D(f)[i] = LoadEntry(f[i - 1], OptionIDs[i], file)
  OBVIOUS
<1>5. ASSUME NEW f PROVE D(f)[0] = s /\ D(f) = [i \in 0..n |-> D(f)[i]]
  BY <1>1
<1>6. LoadChoices(s, file) = g[n]
  BY DEF LoadChoices, Loop
<1>7. PICK r : Run(r, n, Good, s, LoadPass(file))
  <2> HIDE DEF n, D
  <2> QED
    BY ONLY <1>1, <1>2, Recursion, s \in Good
<1>8. r = D(r)
  <2>1. ASSUME NEW i \in 0..n PROVE r[i] = D(r)[i]
    <3>1. CASE i = 0
      BY <1>5, <1>7, <3>1 DEF Run
    <3>2. CASE i # 0
      <4>1. i \in 1..n /\ i - 1 \in 0..n
        BY <1>1, <3>2
      <4>2. r[i - 1] \in Good /\ r[i] = LoadPass(file)[i][r[i - 1]]
        BY <1>7, <4>1 DEF Run
      <4>3. r[i] = LoadEntry(r[i - 1], OptionIDs[i], file)
        BY <1>3, <4>1, <4>2
      <4> QED
        BY <1>4, <4>1, <4>3
    <3> QED
      BY <3>1, <3>2
  <2>2. D(r) = [i \in 0..n |-> D(r)[i]]
    BY <1>5
  <2> HIDE DEF D, n
  <2>3. r = [i \in 0..n |-> r[i]]
    BY <1>7 DEF Run
  <2> QED
    BY <2>1, <2>2, <2>3
<1>9. g = D(g)
  <2> HIDE DEF D
  <2> QED
    BY <1>8
<1>10. /\ g = [i \in 0..n |-> g[i]] /\ g[0] = s
       /\ \A i \in 1..n : g[i] = LoadEntry(g[i - 1], OptionIDs[i], file)
  <2>1. D(g)[0] = s /\ D(g) = [i \in 0..n |-> D(g)[i]]
    BY <1>5
  <2> HIDE DEF D, g
  <2> QED
    BY <1>4, <1>9, <2>1
<1> HIDE DEF g, D, n
<1>11. Run(g, n, Good, s, LoadPass(file))
  <2>1. \A i \in 1..n : g[i - 1] \in Good => g[i] = LoadPass(file)[i][g[i - 1]]
    BY <1>3, <1>10
  <2> QED
    BY ONLY <1>1, <1>2, <1>10, <2>1, IsRun, s \in Good
<1> QED
  BY <1>6, <1>11 DEF Ran, n


(* The gates of the choices of s hold. *)
Gated(s) == \A c \in {s.cur[o] : o \in Options}, o \in Options :
               Compatible(c, o) # {} => s.cur[o] \in Compatible(c, o)

(* What has the value it has in s keeps it when a choice of s is set. *)
LEMMA SetAgain ==
  ASSUME NEW s \in Good, Gated(s), NEW t \in Good, NEW o \in Options, s.cur[o] # Unset
  PROVE  /\ set(t, o, s.cur[o]) \in Good /\ Same(t, set(t, o, s.cur[o]))
         /\ \A p \in Options : p = o \/ Value(t, p) = Value(s, p)
                               => Value(set(t, o, s.cur[o]), p) = Value(s, p)
<1> DEFINE c == s.cur[o]
           u == set(t, o, c)
           w == [p \in Options |-> IF p = o THEN c ELSE Value(t, p)]
<1>1. c \in Range(ChoicesOf[o]) \cup {None}
  BY DEF Good, Chosable
<1>2. u \in Good /\ Same(t, u)
      /\ \A p \in Options : Compatible(c, p) = {} \/ w[p] \in Compatible(c, p) => Value(u, p) = w[p]
  BY <1>1, SetValues
<1>3. ASSUME NEW p \in Options, p = o \/ Value(t, p) = Value(s, p) PROVE Value(u, p) = Value(s, p)
  <2>1. w[p] = Value(s, p)
    BY <1>3 DEF Value
  <2>2. Compatible(c, p) # {} => s.cur[p] \in Compatible(c, p)
    BY DEF Gated
  <2>3. c \in AllChoices \cup {None, Unset}
    BY <1>1, ChoiceLists
  <2>4. Compatible(c, p) # {} => Value(s, p) \in Compatible(c, p)
    BY <2>2, <2>3, Gates DEF Value
  <2> HIDE DEF w, u
  <2> QED
    BY <1>2, <2>1, <2>4
<1> HIDE DEF u
<1> QED
  BY <1>2, <1>3 DEF u

LEMMA LoadedChoices ==
  ASSUME NEW s \in Good, Gated(s), NEW start \in Good, Grown(start, s), NEW file, file.cur = s.cur
  PROVE  LET t == LoadChoices(start, file)
         IN  t \in Good /\ Same(start, t) /\ \A o \in Options : Value(t, o) = Value(s, o)
<1> DEFINE n == Len(OptionIDs)
           t == LoadChoices(start, file)
           empty(u) == \A o \in Options : Value(s, o) = None => Value(u, o) = None
           done(u, i) == \A j \in 1..i : Value(u, OptionIDs[j]) = Value(s, OptionIDs[j])
           P == [i \in 0..n |-> {u \in Good : Same(start, u) /\ empty(u) /\ done(u, i)}]
<1>1. n \in Nat /\ \A i \in 1..n : OptionIDs[i] \in Options
  BY OptionList
<1>2. \A o \in Options : file.cur[o] \in Chosable(o)
  BY DEF Good
<1>3. Ran(t, n, Good, start, LoadPass(file))
  BY <1>2, LoadLoop
<1> HIDE DEF t, n
<1>4. start \in P[0]
  <2>1. empty(start)
    BY DEF Grown, Value
  <2> HIDE DEF empty
  <2> QED
    BY <1>1, <2>1 DEF Same
<1>5. ASSUME NEW i \in 1..n, NEW u \in Good, u \in P[i - 1] PROVE LoadPass(file)[i][u] \in P[i]
  <2> DEFINE o == OptionIDs[i]
             v == LoadEntry(u, o, file)
  <2>0. n = Len(OptionIDs)
    BY DEF n
  <2>1. LoadPass(file)[i][u] = v
    BY <2>0 DEF LoadPass
  <2>2. o \in Options /\ i - 1 \in 0..n /\ i \in 0..n
    BY <1>1
  <2>3. Same(start, u) /\ empty(u) /\ done(u, i - 1)
    BY <1>5, <2>2
  <2>4. v \in Good /\ Same(u, v)
    BY <1>2, <2>2, LoadEntryGood
  <2>5. \A p \in Options : p = o \/ Value(u, p) = Value(s, p) => Value(v, p) = Value(s, p)
    <3>1. CASE s.cur[o] = Unset
      <4>1. v = u
        BY <3>1 DEF LoadEntry
      <4>2. Value(s, o) = None
        BY <3>1 DEF Value
      <4>3. Value(u, o) = None
        BY <2>2, <2>3, <4>2
      <4> QED
        BY <4>1, <4>2, <4>3
    <3>2. CASE s.cur[o] # Unset
      <4>1. v = set(u, o, s.cur[o])
        BY <3>2 DEF LoadEntry
      <4> QED
        BY <2>2, <3>2, <4>1, SetAgain
    <3> QED
      BY <3>1, <3>2
  <2> HIDE DEF v
  <2>6. empty(v)
    <3>1. ASSUME NEW p \in Options, Value(s, p) = None PROVE Value(v, p) = None
      BY <2>3, <2>5, <3>1
    <3> QED
      BY <3>1
  <2>7. done(v, i)
    <3>1. ASSUME NEW j \in 1..i PROVE Value(v, OptionIDs[j]) = Value(s, OptionIDs[j])
      <4>1. OptionIDs[j] \in Options
        BY <1>1
      <4>2. j = i \/ j \in 1..(i - 1)
        OBVIOUS
      <4> QED
        BY <2>3, <2>5, <4>1, <4>2
    <3> QED
      BY <3>1
  <2>8. Same(start, v)
    BY <2>3, <2>4 DEF Same
  <2> HIDE DEF empty, done
  <2> QED
    BY <2>1, <2>2, <2>4, <2>6, <2>7, <2>8
<1> HIDE DEF P
<1>6. t \in Good /\ t \in P[n]
  BY ONLY <1>1, <1>3, <1>4, <1>5, Along, start \in Good
<1> USE DEF P
<1>7. Same(start, t) /\ done(t, n)
  <2> HIDE DEF done, empty
  <2> QED
    BY <1>1, <1>6
<1>8. \A o \in Options : Value(t, o) = Value(s, o)
  BY <1>7, OptionList DEF n
<1> QED
  BY <1>6, <1>7, <1>8 DEF t

LEMMA ModeLoaded ==
  ASSUME NEW s \in Good, Gated(s), Covered(s),
         s.dh => \A o \in Options : \/ Value(s, o) = None
                                    \/ isChoiceAvailable(s.dh, s.cur[o])
                                    \/ AvailableAt(s.dh, o) = {},
         NEW t \in Good, t.dh = FALSE, \A o \in Options : Value(t, o) = Value(s, o)
  PROVE  LET u == setDemonHunterMode(t, s.dh)
         IN  u \in Good /\ u.dh = s.dh /\ \A o \in Options : Value(u, o) = Value(s, o)
<1> DEFINE n == Len(OptionIDs)
           start == [t EXCEPT !.dh = s.dh]
           u == Loop(Reresolve, start, OptionIDs)
           equal(v) == \A o \in Options : Value(v, o) = Value(s, o)
           P == [i \in 0..n |-> {v \in Good : v.dh = s.dh /\ equal(v)}]
<1>0. s.dh \in BOOLEAN
  BY DEF Good, States
<1>1. CASE ~s.dh
  BY <1>0, <1>1 DEF setDemonHunterMode
<1>2. CASE s.dh
  <2>1. setDemonHunterMode(t, s.dh) = u
    BY <1>0, <1>2 DEF setDemonHunterMode
  <2>2. n \in Nat /\ \A i \in 1..n : OptionIDs[i] \in Options
    BY OptionList
  <2>3. start \in States /\ start.cur = t.cur /\ start.bucket = t.bucket /\ start.dh = s.dh
    BY <1>0 DEF Good, States
  <2> HIDE DEF start
  <2>4. start \in Good /\ equal(start)
    BY <2>3 DEF Good, Suits, Value
  <2>5. Ran(u, n, Good, start, ReresolvePass)
    BY <2>4, ReresolveLoop
  <2> HIDE DEF u
  <2>6. start \in P[0]
    <3> HIDE DEF equal
    <3> QED
      BY <2>2, <2>3, <2>4
  <2>7. ASSUME NEW i \in 1..n, NEW v \in Good, v \in P[i - 1] PROVE ReresolvePass[i][v] \in P[i]
    <3> DEFINE o == OptionIDs[i]
               x == Reresolve(v, o)
    <3>1. ReresolvePass[i][v] = x
      BY DEF ReresolvePass
    <3>2. o \in Options /\ i - 1 \in 0..n /\ i \in 0..n
      BY <2>2
    <3>3. v.dh = s.dh /\ equal(v)
      BY <2>7, <3>2
    <3>4. get(v, o) = Value(s, o)
      BY <3>2, <3>3, Unchosen
    <3>5. x \in Good /\ x.dh = v.dh
      BY <3>2, ReresolveKeeps DEF Kept, Same
    <3>6. equal(x)
      <4>1. CASE get(v, o) # None /\ isChoiceAvailable(v.dh, get(v, o))
        <5>1. x = set(v, o, get(v, o))
          BY <4>1 DEF Reresolve
        <5>2. s.cur[o] # Unset /\ get(v, o) = s.cur[o]
          BY <3>4, <4>1 DEF Value
        <5>3. x = set(v, o, s.cur[o])
          BY <5>1, <5>2
        <5>4. \A p \in Options : Value(v, p) = Value(s, p) => Value(x, p) = Value(s, p)
          BY <3>2, <5>2, <5>3, SetAgain
        <5> QED
          BY <3>3, <5>4
      <4>2. CASE ~(get(v, o) # None /\ isChoiceAvailable(v.dh, get(v, o)))
        <5>1. AvailableAt(v.dh, o) = {}
          <6>1. CASE get(v, o) = None
            <7>1. s.cur[o] \in {None, Unset}
              BY <3>4, <6>1 DEF Value
            <7> QED
              BY <3>2, <3>3, <7>1 DEF Covered
          <6>2. CASE get(v, o) # None
            <7>1. get(v, o) = s.cur[o] /\ Value(s, o) # None
              BY <3>4, <6>2 DEF Value
            <7> QED
              BY <1>2, <3>2, <3>3, <4>2, <6>2, <7>1
          <6> QED
            BY <6>1, <6>2
        <5>2. x = DropElements(v, o)
          BY <4>2, <5>1 DEF Reresolve
        <5>3. x.cur = v.cur
          BY <5>2 DEF DropElements, Good, States
        <5> QED
          BY <3>3, <5>3 DEF Value
      <4> QED
        BY <4>1, <4>2
    <3> HIDE DEF equal, x
    <3> QED
      BY <3>1, <3>2, <3>3, <3>5, <3>6
  <2> HIDE DEF P, n
  <2>8. u \in Good /\ u \in P[n]
    BY ONLY <2>2, <2>4, <2>5, <2>6, <2>7, Along
  <2> USE DEF P
  <2>9. u.dh = s.dh /\ equal(u)
    <3> HIDE DEF equal
    <3> QED
      BY <2>2, <2>8
  <2> QED
    BY <2>1, <2>8, <2>9
<1> QED
  BY <1>1, <1>2

(***************************************************************************)
(* A new character and a complete answer of the armory leave nothing       *)
(* behind.                                                                 *)
(***************************************************************************)
Clean(s) == \A o \in Options : Fresh(s, o)

LEMMA NewClean == DefaultsSettle => Clean(Constructed)
<1> SUFFICES ASSUME DefaultsSettle PROVE Clean(Constructed)
  OBVIOUS
<1> DEFINE n == Len(OptionIDs)
           blank == [cur |-> [o \in Options |-> Unset], bucket |-> [o \in Options |-> {}],
                     dh |-> FALSE, linked |-> TRUE, batch |-> FALSE,
                     view |-> [textures |-> {}, files |-> {}, geosets |-> {}]]
           start == [blank EXCEPT !.cur = [o \in Options |-> Unset], !.dh = FALSE]
           s == BatchOn(start)
           t == Loop(DefaultChoice, s, OptionIDs)
           default(u) == \A o \in Options : ~Free(o) => Value(u, o) \in {None, FirstAvailable(FALSE, o)}
           Q == {u \in Good : u.dh = FALSE /\ Clean(u) /\ default(u)}
           P == [i \in 0..n |-> Q]
<1>0. n \in Nat /\ \A i \in 1..n : OptionIDs[i] \in Options
  BY OptionList
<1>1. start \in Good /\ start.dh = FALSE /\ (\A o \in Options : start.cur[o] = Unset)
      /\ \A o \in Options : start.bucket[o] = {}
  <2>1. [o \in Options |-> Unset] \in [Options -> Int] /\ [o \in Options |-> {}] \in [Options -> SUBSET Elements]
    BY DEF Unset
  <2>2. blank.view \in Views
    BY DEF Views
  <2>3. /\ start \in States /\ start.dh = FALSE
        /\ start.cur = [o \in Options |-> Unset] /\ start.bucket = [o \in Options |-> {}]
    BY <2>1, <2>2 DEF States
  <2> HIDE DEF start
  <2> QED
    BY <2>3 DEF Good, Chosable
<1>2. Constructed = BatchOff(t)
  BY DEF Constructed, reset
<1> HIDE DEF start
<1>3. s \in Good /\ s.dh = FALSE /\ s.cur = start.cur /\ s.bucket = start.bucket
  BY <1>1, BatchedOn
<1> HIDE DEF s
<1>4. s \in Q
  <2>1. Clean(s)
    BY <1>1, <1>3 DEF Clean, Fresh
  <2>2. default(s)
    BY <1>1, <1>3 DEF Value
  <2> HIDE DEF default
  <2> QED
    BY <1>3, <2>1, <2>2
<1>5. Ran(t, n, Good, s, DefaultPass)
  BY <1>3, DefaultLoop
<1> HIDE DEF t
<1>6. ASSUME NEW i \in 1..n, NEW u \in Good, u \in P[i - 1] PROVE DefaultPass[i][u] \in P[i]
  <2> DEFINE o == OptionIDs[i]
             c == FirstAvailable(FALSE, o)
             v == DefaultChoice(u, o)
  <2>1. u \in Q /\ P[i] = Q /\ o \in Options
    BY <1>0, <1>6
  <2>2. DefaultPass[i][u] = v
    BY DEF DefaultPass
  <2>3. u.dh = FALSE /\ Clean(u) /\ default(u)
    BY <2>1
  <2>4. CASE AvailableAt(FALSE, o) = {}
    BY <2>1, <2>2, <2>3, <2>4 DEF DefaultChoice
  <2>5. CASE AvailableAt(FALSE, o) # {}
    <3>1. c \in Range(ChoicesOf[o])
      BY <2>1, <2>5, Available
    <3>2. v = set(u, o, c)
      BY <2>3, <2>5 DEF DefaultChoice
    <3>3. Free(o) \/ u.cur[o] \in {c, None, Unset}
      BY <2>1, <2>3 DEF Value
    <3>a. \A p \in Options : Compatible(c, p) # {} => Free(p)
      BY <2>1, <2>5 DEF DefaultsSettle, Free
    <3> HIDE DEF c, v
    <3>b. v \in Good /\ Same(u, v)
          /\ \A p \in Options : Compatible(c, p) = {} => Value(v, p) = IF p = o THEN c ELSE Value(u, p)
      <4>1. /\ set(u, o, c) \in Good /\ Same(u, set(u, o, c))
            /\ \A p \in Options : LET w == IF p = o THEN c ELSE Value(u, p)
                                  IN  Compatible(c, p) = {} \/ w \in Compatible(c, p)
                                        => Value(set(u, o, c), p) = w
        BY <2>1, <3>1, SetValues
      <4> QED
        BY <3>2, <4>1
    <3>c. \A p \in Options : Fresh(u, p) => Fresh(v, p)
      BY <2>1, <3>1, <3>2, <3>3, <3>a, SetFresh
    <3>4. /\ v \in Good /\ Same(u, v)
          /\ \A p \in Options \ {o} : ~Free(p) => Value(v, p) = Value(u, p)
          /\ ~Free(o) => Value(v, o) = c
          /\ \A p \in Options : Fresh(u, p) => Fresh(v, p)
      BY <2>1, <3>a, <3>b, <3>c
    <3>5. Clean(v) /\ v.dh = FALSE
      BY <2>3, <3>4 DEF Clean, Same
    <3>6. default(v)
      <4>1. ASSUME NEW p \in Options, ~Free(p) PROVE Value(v, p) \in {None, FirstAvailable(FALSE, p)}
        <5>1. CASE p = o
          BY <3>4, <4>1, <5>1 DEF c
        <5>2. CASE p # o
          <6>1. Value(u, p) \in {None, FirstAvailable(FALSE, p)}
            BY <2>3, <4>1
          <6> QED
            BY <3>4, <4>1, <5>2, <6>1
        <5> QED
          BY <5>1, <5>2
      <4> QED
        BY <4>1
    <3> HIDE DEF default
    <3>7. v \in Q
      BY <3>4, <3>5, <3>6
    <3> QED
      BY <2>1, <2>2, <3>7
  <2> QED
    BY <2>4, <2>5
<1>7. s \in P[0]
  <2> HIDE DEF Q
  <2> QED
    BY <1>0, <1>4
<1> HIDE DEF P, n
<1>8. t \in Good /\ t \in P[n]
  BY ONLY <1>0, <1>3, <1>5, <1>6, <1>7, Along
<1>9. Clean(t)
  <2> HIDE DEF default
  <2> QED
    BY <1>0, <1>8 DEF P
<1>10. Constructed.cur = t.cur /\ Constructed.bucket = t.bucket
  BY <1>2, <1>8 DEF BatchOff, Refresh, Good, States
<1> QED
  BY <1>9, <1>10 DEF Clean, Fresh

(* The answers that name every option, do not contradict themselves and hold
   the gates of their choices. *)
Agree(e, f) ==
  e[1] \in Options /\ f[1] \in Options =>
     /\ e[1] = f[1] => e[2] = f[2]
     /\ Compatible(e[2], f[1]) # {} => Free(f[1]) \/ f[2] \in Compatible(e[2], f[1])
Consistent == {q \in Answers : /\ \A o \in Options : \E j \in 1..Len(q) : q[j][1] = o
                               /\ \A j, k \in 1..Len(q) : Agree(q[j], q[k])}

\* The options that are gated hold what the first i entries say.
Obeys(t, q, i) == \A j \in 1..i : q[j][1] \in Options /\ ~Free(q[j][1]) => t.cur[q[j][1]] = q[j][2]

LEMMA ImportObeys ==
  ASSUME NEW q \in Consistent, NEW s \in Good, NEW i \in 1..Len(q), NEW m \in {i - 1, Len(q)},
         Obeys(s, q, m)
  PROVE  LET t == ImportEntry(s, q[i])
         IN  /\ t \in Good
             /\ Obeys(t, q, IF m = Len(q) THEN Len(q) ELSE i)
             /\ m = Len(q) => /\ \A p \in Options : Fresh(s, p) => Fresh(t, p)
                              /\ q[i][1] \in Options => Fresh(t, q[i][1])
<1> DEFINE t == ImportEntry(s, q[i])
           o == q[i][1]
           c == q[i][2]
<1>0. Len(q) \in Nat
  BY DEF Consistent, Answers
<1>1. CASE o \notin Options
  <2>1. t = s
    BY <1>1 DEF ImportEntry, hasOption
  <2>2. ASSUME NEW j \in 1..(IF m = Len(q) THEN Len(q) ELSE i), q[j][1] \in Options
        PROVE  j \in 1..m
    BY <1>0, <1>1, <2>2
  <2>3. Obeys(s, q, IF m = Len(q) THEN Len(q) ELSE i)
    BY <2>2 DEF Obeys
  <2> QED
    BY <1>1, <2>1, <2>3
<1>2. CASE o \in Options
  <2>1. c \in Range(ChoicesOf[o]) /\ t = set(s, o, c) /\ c \notin {None, Unset}
    BY <1>2, ChoiceLists, Choices DEF Consistent, Answers, ImportEntry, hasOption
  <2>2. /\ t \in Good
        /\ \A p \in Options : LET w == IF p = o THEN c ELSE Value(s, p)
                              IN  Compatible(c, p) = {} \/ w \in Compatible(c, p) => Value(t, p) = w
    BY <1>2, <2>1, SetValues
  <2>a. \A j \in 1..Len(q) : /\ Agree(q[i], q[j])
                             /\ q[j][1] \in Options => /\ q[j][2] \in Range(ChoicesOf[q[j][1]])
                                                       /\ q[j][2] \notin {None, Unset}
    BY ChoiceLists, Choices DEF Consistent, Answers
  <2>b. m = Len(q) => Fresh(t, o) /\ \A p \in Options : Fresh(s, p) => Fresh(t, p)
    <3> SUFFICES ASSUME m = Len(q) PROVE Fresh(t, o) /\ \A p \in Options : Fresh(s, p) => Fresh(t, p)
      OBVIOUS
    <3>1. Free(o) \/ s.cur[o] = c
      BY <1>0, <1>2 DEF Obeys
    <3>2. ASSUME NEW p \in Options, Compatible(c, p) # {}, ~Free(p)
          PROVE  (IF p = o THEN c ELSE Value(s, p)) \in Compatible(c, p)
      <4>1. PICK j \in 1..Len(q) : q[j][1] = p
        BY DEF Consistent
      <4>2. q[j][2] \in Compatible(c, p) /\ (p = o => q[j][2] = c) /\ q[j][2] \notin {None, Unset}
        BY <1>2, <2>a, <3>2, <4>1 DEF Agree
      <4>3. s.cur[p] = q[j][2]
        BY <3>2, <4>1 DEF Obeys
      <4> QED
        BY <4>2, <4>3 DEF Value
    <3> HIDE DEF t
    <3>3. t = set(s, o, c)
      BY <2>1
    <3> QED
      BY <1>2, <2>1, <3>1, <3>2, <3>3, SetFresh
  <2> HIDE DEF t
  <2>3. ASSUME NEW j \in 1..(IF m = Len(q) THEN Len(q) ELSE i), q[j][1] \in Options, ~Free(q[j][1])
        PROVE  t.cur[q[j][1]] = q[j][2]
    <3>0. j \in 1..Len(q)
      BY <1>0
    <3>1. CASE q[j][1] = o
      <4>1. q[j][2] = c /\ (Compatible(c, o) # {} => c \in Compatible(c, o))
        BY <1>2, <2>3, <2>a, <3>0, <3>1 DEF Agree
      <4>2. Value(t, o) = c
        BY <1>2, <2>2, <4>1
      <4> QED
        BY <2>1, <3>1, <4>1, <4>2 DEF Value
    <3>2. CASE q[j][1] # o
      <4>1. j # i /\ j \in 1..m
        BY <1>0, <3>2
      <4>2. s.cur[q[j][1]] = q[j][2]
        BY <2>3, <4>1 DEF Obeys
      <4>3. q[j][2] \notin {None, Unset}
        BY <2>3, <2>a, <3>0
      <4>a. Value(s, q[j][1]) = q[j][2]
        BY <4>2, <4>3 DEF Value
      <4>b. Compatible(c, q[j][1]) # {} => q[j][2] \in Compatible(c, q[j][1])
        BY <1>2, <2>3, <2>a, <3>0 DEF Agree
      <4>4. Value(t, q[j][1]) = Value(s, q[j][1])
        BY <2>2, <2>3, <3>2, <4>a, <4>b
      <4> QED
        BY <4>2, <4>3, <4>4 DEF Value
    <3> QED
      BY <3>1, <3>2
  <2>4. Obeys(t, q, IF m = Len(q) THEN Len(q) ELSE i)
    BY <2>3 DEF Obeys
  <2> QED
    BY <2>2, <2>4, <2>b DEF t
<1> QED
  BY <1>1, <1>2

(* After the first pass the gated options hold what the answer says, so the
   second pass changes none of them and rebuilds every bucket. *)
LEMMA ImportClean ==
  ASSUME NEW q \in Consistent, NEW s \in Good
  PROVE  Clean(ImportArmoury(s, q)) /\ ImportArmoury(s, q) \in Good
<1> DEFINE n == Len(q)
           u == Loop(ImportEntry, s, q)
           t == Loop(ImportEntry, u, q)
           P1 == [i \in 0..n |-> {v \in Good : Obeys(v, q, i)}]
           fresh(v, i) == \A j \in 1..i : q[j][1] \in Options => Fresh(v, q[j][1])
           P2 == [i \in 0..n |-> {v \in Good : Obeys(v, q, n) /\ fresh(v, i)}]
<1>0. n \in Nat /\ q \in Answers
  BY DEF Consistent, Answers
<1>1. ImportArmoury(s, q) = t
  BY DEF ImportArmoury
<1>2. Ran(u, n, Good, s, ImportPass(q))
  BY <1>0, ImportLoop
<1>3. ASSUME NEW i \in 1..n, NEW v \in Good, v \in P1[i - 1] PROVE ImportPass(q)[i][v] \in P1[i]
  <2>1. Obeys(v, q, i - 1) /\ i - 1 \in 0..n /\ i \in 0..n
    BY <1>0, <1>3
  <2>2. ImportPass(q)[i][v] = ImportEntry(v, q[i])
    BY DEF ImportPass
  <2>3. ImportEntry(v, q[i]) \in Good /\ Obeys(ImportEntry(v, q[i]), q, IF i - 1 = n THEN n ELSE i)
    BY <2>1, ImportObeys
  <2>4. i - 1 # n
    BY <1>0
  <2> QED
    BY <2>1, <2>2, <2>3, <2>4
<1>4. s \in P1[0]
  BY <1>0 DEF Obeys
<1> HIDE DEF P1, n, u
<1>5. u \in Good /\ u \in P1[n]
  BY ONLY <1>0, <1>2, <1>3, <1>4, Along, s \in Good
<1>6. Obeys(u, q, n)
  BY <1>0, <1>5 DEF P1
<1>7. Ran(t, n, Good, u, ImportPass(q))
  BY <1>0, <1>5, ImportLoop DEF n
<1>8. ASSUME NEW i \in 1..n, NEW v \in Good, v \in P2[i - 1] PROVE ImportPass(q)[i][v] \in P2[i]
  <2> DEFINE x == ImportEntry(v, q[i])
  <2>1. Obeys(v, q, n) /\ fresh(v, i - 1) /\ i - 1 \in 0..n /\ i \in 0..n
    BY <1>0, <1>8
  <2>2. ImportPass(q)[i][v] = x
    BY DEF ImportPass, n
  <2>3. /\ x \in Good /\ Obeys(x, q, n)
        /\ \A p \in Options : Fresh(v, p) => Fresh(x, p)
        /\ q[i][1] \in Options => Fresh(x, q[i][1])
    BY <2>1, ImportObeys DEF n
  <2> HIDE DEF x
  <2>4. ASSUME NEW j \in 1..i, q[j][1] \in Options PROVE Fresh(x, q[j][1])
    <3>1. j = i \/ j \in 1..(i - 1)
      OBVIOUS
    <3> QED
      BY <2>1, <2>3, <2>4, <3>1
  <2>5. fresh(x, i)
    BY <2>4
  <2> HIDE DEF fresh
  <2> QED
    BY <2>1, <2>2, <2>3, <2>5
<1>9. u \in P2[0]
  BY <1>0, <1>5, <1>6
<1> HIDE DEF P2, t
<1>10. t \in Good /\ t \in P2[n]
  BY ONLY <1>0, <1>5, <1>7, <1>8, <1>9, Along
<1>11. fresh(t, n)
  <2> HIDE DEF fresh
  <2> QED
    BY <1>0, <1>10 DEF P2
<1>12. \A o \in Options : \E j \in 1..n : q[j][1] = o
  BY DEF Consistent, n
<1>13. Clean(t)
  BY <1>11, <1>12 DEF Clean
<1> QED
  BY <1>1, <1>10, <1>13

(***************************************************************************)
(* The invariant.                                                          *)
(***************************************************************************)
SettledInv == /\ Now \in Settled
              /\ last.name = "choice" => Textured(Now, last.choice, Options)

LEMMA Became ==
  ASSUME NEW s \in Settled, s.linked = linked, cur' = s.cur, bucket' = s.bucket, dh' = s.dh,
         view' = s.view, linked' = linked
  PROVE  Now' = s
  BY DEF Settled, Good, States, Now

LEMMA SettledInit == Init => SettledInv
<1> SUFFICES ASSUME Init PROVE SettledInv
  OBVIOUS
<1>1. Constructed \in States /\ ~Constructed.batch
  BY New DEF Settled, Good
<1> DEFINE s == Constructed
<1>2. s \in Settled /\ s \in States /\ s.batch = FALSE /\ s.dh = FALSE /\ s.linked = TRUE
  BY <1>1, New DEF Settled, Good, States
<1>3. cur = s.cur /\ bucket = s.bucket /\ dh = s.dh /\ linked = s.linked /\ view = s.view
  BY <1>2 DEF Init
<1> HIDE DEF s
<1>4. Now = s
  BY <1>2, <1>3 DEF Now, States
<1> QED
  BY <1>2, <1>4 DEF Init, Op, SettledInv

LEMMA SettledStep == SettledInv /\ [Next]_cdVars => SettledInv'
<1> SUFFICES ASSUME SettledInv, [Next]_cdVars PROVE SettledInv'
  OBVIOUS
<1>0. Now \in Settled /\ Now.linked = linked /\ Now.dh = dh /\ Now.cur = cur /\ Now.bucket = bucket
      /\ Now.view = view /\ Now.batch = FALSE
  BY DEF SettledInv, Now
<1>1. CASE \E o \in Options, c \in AllChoices : onChoice(o, c)
  <2>1. PICK o \in Options, c \in AllChoices : onChoice(o, c)
    BY <1>1
  <2>2. c \in Range(ChoicesOf[o])
    BY <2>1 DEF onChoice, AvailableAt, Range
  <2>3. PICK s \in {set(Now, o, c)} : /\ cur' = s.cur /\ bucket' = s.bucket /\ dh' = s.dh /\ view' = s.view
                                      /\ last' = Op("choice", c) /\ UNCHANGED linked
    BY <2>1 DEF onChoice, Become
  <2>4. s \in Settled /\ s.linked = linked /\ Textured(s, c, Options)
    BY <1>0, <2>2, <2>3, Picked
  <2>5. Now' = s
    BY <2>3, <2>4, Became
  <2> QED
    BY <2>3, <2>4, <2>5 DEF SettledInv, Op
<1>2. CASE onRandomise
  <2>1. PICK draw \in Draws(dh) : Become(randomise(Now, draw), Op("randomise", None))
    BY <1>2 DEF onRandomise
  <2>2. PICK s \in {randomise(Now, draw)} : /\ cur' = s.cur /\ bucket' = s.bucket /\ dh' = s.dh /\ view' = s.view
                                            /\ last' = Op("randomise", None) /\ UNCHANGED linked
    BY <2>1 DEF Become
  <2>3. s \in Settled /\ s.linked = linked
    BY <1>0, <2>1, <2>2, Randomised
  <2>4. Now' = s
    BY <2>2, <2>3, Became
  <2> QED
    BY <2>2, <2>3, <2>4 DEF SettledInv, Op
<1>3. CASE onDHMode
  <2>1. PICK s \in {ToggleAndRefresh(Now)} : /\ cur' = s.cur /\ bucket' = s.bucket /\ dh' = s.dh /\ view' = s.view
                                             /\ last' = Op("dh", None) /\ UNCHANGED linked
    BY <1>3 DEF onDHMode, Become
  <2>2. s \in Settled /\ s.linked = linked
    BY <1>0, <2>1, Toggled
  <2>3. Now' = s
    BY <2>1, <2>2, Became
  <2> QED
    BY <2>1, <2>2, <2>3 DEF SettledInv, Op
<1>4. CASE Import
  <2>1. PICK i \in 1..Len(Imports) : Become(Refresh(ImportArmoury(Now, Imports[i])), Op("import", None))
    BY <1>4 DEF Import
  <2>2. PICK s \in {Refresh(ImportArmoury(Now, Imports[i]))} :
           /\ cur' = s.cur /\ bucket' = s.bucket /\ dh' = s.dh /\ view' = s.view
           /\ last' = Op("import", None) /\ UNCHANGED linked
    BY <2>1 DEF Become
  <2>3. s \in Settled /\ s.linked = linked
    BY <1>0, <2>2, Imported
  <2>4. Now' = s
    BY <2>2, <2>3, Became
  <2> QED
    BY <2>2, <2>3, <2>4 DEF SettledInv, Op
<1>5. CASE MountUp
  <2>1. PICK s : s = Now
    OBVIOUS
  <2>2. PICK t : t = Now'
    OBVIOUS
  <2>3. /\ s \in Settled /\ t.cur = s.cur /\ t.bucket = s.bucket /\ t.view = s.view /\ t.dh = s.dh
        /\ t.batch = FALSE /\ t.linked = FALSE
    BY <1>0, <1>5, <2>1, <2>2 DEF MountUp, Now
  <2>4. s \in States /\ t \in States
    BY <1>0, <1>5, <2>1, <2>2 DEF Settled, Good, States, MountUp, Now
  <2>5. t \in Good /\ Placed(t, Options) /\ t.view = ViewOf(t)
    <3>1. t \in Good
      BY <2>3, <2>4 DEF Settled, Good, Suits
    <3>2. ViewOf(t) = ViewOf(s)
      BY <2>3, <2>4, Viewed
    <3> QED
      BY <2>3, <3>1, <3>2 DEF Settled, Placed
  <2>7. Stands(t)
    BY <2>3 DEF Settled, Stands, Covered, Grown
  <2>6. last.name = "choice" => Textured(t, last.choice, Options)
    BY <2>1, <2>3 DEF SettledInv, Textured
  <2> QED
    BY <1>5, <2>2, <2>3, <2>5, <2>6, <2>7 DEF SettledInv, Settled, MountUp
<1>6. CASE UNCHANGED cdVars
  BY <1>6 DEF cdVars, SettledInv, Now, Textured
<1> QED
  BY <1>1, <1>2, <1>3, <1>4, <1>5, <1>6 DEF Next

(* However the operations are ordered, the buckets, the choices and what a new
   character starts with stay in the relation the theorems below rest on. *)
THEOREM Settling == Spec => []SettledInv
  BY SettledInit, SettledStep, PTL DEF Spec

(* Every option has one of its own choices and its bucket holds elements of
   its own or gated by it. *)
THEOREM Typing == Spec => []TypeOK
<1>1. SettledInv => TypeOK
  <2> SUFFICES ASSUME SettledInv PROVE TypeOK
    OBVIOUS
  <2>0. \A o \in Options : cur[o] \in Range(ChoicesOf[o]) \cup {None, Unset}
    BY DEF SettledInv, Settled, Good, Now, Chosable
  <2>1. Now \in Good /\ Now \in States
    BY DEF SettledInv, Settled, Good
  <2>2. cur \in [Options -> Int] /\ bucket \in [Options -> SUBSET Elements] /\ dh \in BOOLEAN
        /\ linked \in BOOLEAN /\ view \in Views
    BY <2>1 DEF States, Now
  <2>3. \A o \in Options : cur[o] \in Range(ChoicesOf[o]) \cup {None, Unset}
    BY <2>1 DEF Good, Now, Chosable
  <2>4. ASSUME NEW o \in Options, NEW e \in bucket[o] PROVE BelongsTo(e, o)
    <3>1. Suits(Now, e, o) /\ e \in Elements /\ Now.cur[o] = cur[o]
      BY <2>1, <2>2 DEF Good, Now
    <3>2. e.choice \notin {None, Unset} /\ e.related # Unset
      BY <3>1, ElementTypes, Choices DEF None, Unset
    <3> QED
      BY <2>0, <3>1, <3>2 DEF Suits, BelongsTo
  <2> QED
    BY <2>2, <2>3, <2>4 DEF TypeOK, Views
<1> QED
  BY <1>1, Settling, PTL

(* Whatever the tables, and in whatever order the user, the armory, the dice
   and the Demon Hunter box make the choices: as long as the links of the
   model are known, no element that the choices call for is missing. *)
THEOREM Complete == Spec => []NothingMissing
<1>1. SettledInv => NothingMissing
  <2> SUFFICES ASSUME SettledInv, linked, NEW e \in Wanted, isChoiceAvailable(dh, e.choice),
                      e.related = None \/ isChoiceAvailable(dh, e.related)
               PROVE  e \in Collected(bucket)
    BY DEF NothingMissing, AllApplied
  <2>1. Placed(Now, Options)
    BY DEF SettledInv, Settled
  <2>2. e \in Elements /\ Called(Now, e) /\ Home(e) \in Options
    BY Homes DEF Wanted, Chosen, Called, Now
  <2>3. e \in bucket[Home(e)]
    BY <2>1, <2>2 DEF Placed, Now
  <2> QED
    BY <2>2, <2>3 DEF Collected
<1> QED
  BY <1>1, Settling, PTL

(* Every operation, also one that refreshes only once at its end, leaves the
   viewport showing the current choices and buckets. *)
THEOREM Current == Spec => []ViewIsCurrent
<1>1. SettledInv => ViewIsCurrent
  BY DEF SettledInv, Settled, ViewIsCurrent, Now
<1> QED
  BY <1>1, Settling, PTL

(* A choice of the user that adds a skinned model leaves every option that
   gates its texture at a compatible choice. *)
THEOREM TexturedPick == Spec => []PickedIsTextured
<1>1. SettledInv => PickedIsTextured
  BY DEF SettledInv, PickedIsTextured, Textured, Now
<1> QED
  BY <1>1, Settling, PTL

(* Whatever the tables, loading what save wrote into a new character brings
   back the mode and the value of every option, if the gates of the saved
   choices hold and, in Demon Hunter mode, they may be chosen: the choices
   that loading an entry switches are set again when their own entry comes,
   and the mode, which is set last, re-resolves them to themselves. *)
THEOREM Reload == Spec => []ReloadKeepsChoices
<1>1. SettledInv => ReloadKeepsChoices
  <2> SUFFICES ASSUME SettledInv, GatesHold, ModeHolds
               PROVE  LET again == load(Constructed, saved(Now))
                      IN  again.dh = dh /\ \A o \in Options : get(again, o) = get(Now, o)
    BY DEF ReloadKeepsChoices
  <2> DEFINE file == saved(Now)
             t == LoadChoices(Constructed, file)
             u == setDemonHunterMode(t, dh)
  <2>1. PICK s : s = Now
    OBVIOUS
  <2>2. /\ s \in Good /\ Covered(s) /\ Grown(Constructed, s) /\ s.cur = cur /\ s.dh = dh
    BY <2>1 DEF SettledInv, Settled, Stands, Now
  <2>3. Gated(s)
    BY <2>2 DEF GatesHold, Gated
  <2>4. s.dh => \A o \in Options : \/ Value(s, o) = None
                                   \/ isChoiceAvailable(s.dh, s.cur[o])
                                   \/ AvailableAt(s.dh, o) = {}
    BY <2>1, <2>2, Unchosen DEF ModeHolds
  <2>5. Constructed \in Good /\ Constructed.dh = FALSE
    BY New DEF Settled
  <2>6. file.cur = s.cur /\ file.dh = dh
    BY <2>1, <2>2 DEF saved
  <2>7. load(Constructed, saved(Now)) = Refresh(u)
    BY <2>6 DEF load
  <2> HIDE DEF file
  <2>8. t \in Good /\ Same(Constructed, t) /\ \A o \in Options : Value(t, o) = Value(s, o)
    BY <2>2, <2>3, <2>5, <2>6, LoadedChoices
  <2> HIDE DEF t
  <2>9. u \in Good /\ u.dh = s.dh /\ \A o \in Options : Value(u, o) = Value(s, o)
    <3>1. t.dh = FALSE
      BY <2>5, <2>8 DEF Same
    <3>2. setDemonHunterMode(t, s.dh) \in Good /\ setDemonHunterMode(t, s.dh).dh = s.dh
          /\ \A o \in Options : Value(setDemonHunterMode(t, s.dh), o) = Value(s, o)
      BY <2>2, <2>3, <2>4, <2>8, <3>1, ModeLoaded
    <3> QED
      BY <2>2, <3>2
  <2> HIDE DEF u
  <2>10. Refresh(u).dh = u.dh /\ Refresh(u).cur = u.cur
    BY <2>9, Refreshed DEF Good
  <2>11. \A o \in Options : get(Refresh(u), o) = get(Now, o)
    BY <2>1, <2>9, <2>10, Unchosen DEF Value
  <2> QED
    BY <2>2, <2>7, <2>9, <2>10, <2>11
<1> QED
  BY <1>1, Settling, PTL

CleanInv == SettledInv /\ (last.name \in {"reset", "import"} => Clean(Now))

LEMMA CleanInit == DefaultsSettle /\ Init => CleanInv
<1> SUFFICES ASSUME DefaultsSettle, Init PROVE CleanInv
  OBVIOUS
<1>1. Clean(Constructed)
  BY NewClean
<1>2. cur = Constructed.cur /\ bucket = Constructed.bucket
  BY DEF Init
<1> QED
  BY <1>1, <1>2, SettledInit DEF CleanInv, Clean, Fresh, Now

LEMMA CleanStep ==
  ASSUME ImportsSettle, CleanInv, [Next]_cdVars
  PROVE  CleanInv'
<1>0. SettledInv /\ SettledInv' /\ Now \in Good
  BY SettledStep DEF CleanInv, SettledInv, Settled
<1>1. CASE \E o \in Options, c \in AllChoices : onChoice(o, c)
  BY <1>0, <1>1 DEF onChoice, Become, Op, CleanInv
<1>2. CASE onRandomise
  BY <1>0, <1>2 DEF onRandomise, Become, Op, CleanInv
<1>3. CASE onDHMode
  BY <1>0, <1>3 DEF onDHMode, Become, Op, CleanInv
<1>4. CASE Import
  <2>1. PICK i \in 1..Len(Imports) : Become(Refresh(ImportArmoury(Now, Imports[i])), Op("import", None))
    BY <1>4 DEF Import
  <2> DEFINE q == Imports[i]
             t == ImportArmoury(Now, q)
  <2>2. cur' = Refresh(t).cur /\ bucket' = Refresh(t).bucket
    BY <2>1 DEF Become
  <2>3. q \in Consistent
    <3>1. i \in DOMAIN Imports
      OBVIOUS
    <3>2. /\ q \in Seq(Nat \X Nat)
          /\ \A e \in Range(q) : e[1] \in Options => e[2] \in Range(ChoicesOf[e[1]])
      BY <3>1, ImportsAssumption
    <3>3. /\ \A o \in Options : \E e \in Range(q) : e[1] = o
          /\ \A e, f \in Range(q) : Agree(e, f)
      BY <3>1 DEF ImportsSettle, Agree, Free
    <3> HIDE DEF q
    <3>4. DOMAIN q = 1..Len(q) /\ \A e : e \in Range(q) <=> \E j \in 1..Len(q) : e = q[j]
      BY <3>2 DEF Range
    <3>5. \A j \in 1..Len(q) : q[j] \in Range(q)
      BY <3>4
    <3>6. q \in Answers
      BY <3>2, <3>5 DEF Answers
    <3>7. \A o \in Options : \E j \in 1..Len(q) : q[j][1] = o
      <4>1. ASSUME NEW o \in Options PROVE \E j \in 1..Len(q) : q[j][1] = o
        <5>1. PICK e \in Range(q) : e[1] = o
          BY <3>3
        <5> QED
          BY <3>4, <5>1
      <4> QED
        BY <4>1
    <3>8. \A j, k \in 1..Len(q) : Agree(q[j], q[k])
      BY <3>3, <3>5
    <3> QED
      BY <3>6, <3>7, <3>8 DEF Consistent
  <2> HIDE DEF q
  <2>4. Clean(t) /\ t \in Good
    BY <1>0, <2>3, ImportClean
  <2> HIDE DEF t
  <2>5. Refresh(t).cur = t.cur /\ Refresh(t).bucket = t.bucket
    BY <2>4, Refreshed DEF Good
  <2>6. Clean(Now)'
    BY <2>2, <2>4, <2>5 DEF Clean, Fresh, Now
  <2> QED
    BY <1>0, <2>6 DEF CleanInv
<1>5. CASE MountUp \/ UNCHANGED cdVars
  <2>1. cur' = cur /\ bucket' = bucket /\ last' = last
    BY <1>5 DEF MountUp, cdVars
  <2>2. Clean(Now) => Clean(Now)'
    BY <2>1 DEF Clean, Fresh, Now
  <2> QED
    BY <1>0, <2>1, <2>2 DEF CleanInv
<1> QED
  BY <1>1, <1>2, <1>3, <1>4, <1>5 DEF Next

LEMMA CleanExact == CleanInv => ExactAfterImport
<1> SUFFICES ASSUME CleanInv, last.name \in {"reset", "import"}, NEW o \in Options, NEW e \in bucket[o]
             PROVE  e \in Wanted
  BY DEF ExactAfterImport, NothingStale, Collected
<1>1. Now \in Good /\ Now \in States /\ Clean(Now) /\ Now.cur = cur /\ Now.bucket = bucket
  BY DEF CleanInv, SettledInv, Settled, Good, Now
<1>2. e \in Elements /\ Suits(Now, e, o) /\ cur[OptionOf[e.choice]] = e.choice
  BY <1>1 DEF Good, States, Clean, Fresh
<1>3. cur[o] \in Chosable(o) /\ e.related \in AllChoices \cup {None} /\ Unset \notin AllChoices \cup {None}
  BY <1>1, <1>2, ElementTypes, Choices DEF Good, None, Unset
<1>4. Chosen(e.related)
  <2>1. CASE e.related = None
    BY <2>1 DEF Chosen
  <2>2. CASE e.related # None
    <3>1. e.related = cur[o] /\ e.related \in Range(ChoicesOf[o])
      BY <1>1, <1>2, <1>3, <2>2 DEF Suits, Chosable
    <3>2. OptionOf[e.related] = o
      BY <1>3, <2>2, <3>1, Owner
    <3> QED
      BY <3>1, <3>2 DEF Chosen
  <2> QED
    BY <2>1, <2>2
<1> QED
  BY <1>2, <1>4 DEF Wanted, Chosen

(* Whatever the tables, if the default choices switch no option that is gated
   itself, and the answers of the armory are whole characters, neither a new
   character nor an imported one keeps an element that its choices do not
   call for, whatever was picked before the import. *)
THEOREM ExactImports ==
  ASSUME DefaultsSettle, ImportsSettle
  PROVE  Spec => []ExactAfterImport
<1>1. Init => CleanInv
  BY CleanInit
<1>2. CleanInv /\ [Next]_cdVars => CleanInv'
  BY CleanStep
<1> QED
  BY <1>1, <1>2, CleanExact, PTL DEF Spec
=============================================================================
