--------------------------- MODULE ModelLoadProofs ---------------------------
(***************************************************************************)
(* Theorems about GameFolder and ModelLoad, for any listfile, storage,     *)
(* folder of the user's, number of loads and contents of files.            *)
(***************************************************************************)
EXTENDS ModelLoad, TLAPS

AnyId == Ids \cup {NoId}

(* What the constructor of a file is given. *)
LEMMA Made ==
  ASSUME load \in 1..MaxLoads, NEW k \in Kinds, NEW n \in Names \cup {None}, NEW i \in AnyId
  PROVE  /\ New(k, n, i) \in GameFiles
         /\ New(k, n, i).kind = k /\ New(k, n, i).name = n
         /\ New(k, n, i).id = i /\ New(k, n, i).load = load
  BY DEF New, GameFiles, AnyId

LEMMA Files == \A f \in GameFiles : /\ f # None /\ f.kind \in Kinds
                                    /\ f.name \in Names \cup {None} /\ f.id \in AnyId
                                    /\ f.load \in 1..MaxLoads
  BY NoneAssumption DEF GameFiles, AnyId

(* addChild sets the child and its two entries, and no other. *)
LEMMA Added ==
  ASSUME NEW d \in Folders, NEW f \in GameFiles
  PROVE  /\ addChild(d, f) \in Folders
         /\ addChild(d, f).children = d.children \cup {f}
         /\ \A n \in Names : addChild(d, f).nameMap[n] = IF n = f.name THEN f ELSE d.nameMap[n]
         /\ \A i \in AnyId : addChild(d, f).idMap[i] = IF i = f.id THEN f ELSE d.idMap[i]
<1>1. f.id \in AnyId
  BY Files
<1>2. onChildAdded(d, f) \in Folders
  BY <1>1 DEF onChildAdded, Folders, AnyId
<1>3. /\ onChildAdded(d, f).children = d.children
      /\ \A n \in Names : onChildAdded(d, f).nameMap[n] = IF n = f.name THEN f ELSE d.nameMap[n]
      /\ \A i \in AnyId : onChildAdded(d, f).idMap[i] = IF i = f.id THEN f ELSE d.idMap[i]
  BY <1>1 DEF onChildAdded, Folders, AnyId
<1> DEFINE e == onChildAdded(d, f)
<1> HIDE DEF e
<1>4. addChild(d, f) = [e EXCEPT !.children = @ \cup {f}]
  BY DEF addChild, e
<1>5. e \in Folders
  BY <1>2 DEF e
<1>6. addChild(d, f) \in Folders /\ addChild(d, f).children = e.children \cup {f}
  BY <1>4, <1>5 DEF Folders
<1>7. addChild(d, f).nameMap = e.nameMap /\ addChild(d, f).idMap = e.idMap
  BY <1>4, <1>5 DEF Folders
<1> QED
  BY <1>3, <1>6, <1>7 DEF e

(* removeChild takes the child away and empties its two entries. *)
LEMMA Removed ==
  ASSUME NEW d \in Folders, NEW f \in GameFiles
  PROVE  /\ removeChild(d, f) \in Folders
         /\ removeChild(d, f).children = d.children \ {f}
         /\ \A n \in Names : removeChild(d, f).nameMap[n] = IF n = f.name THEN None ELSE d.nameMap[n]
         /\ \A i \in AnyId : removeChild(d, f).idMap[i] = IF i = f.id THEN None ELSE d.idMap[i]
<1>1. f.id \in AnyId
  BY Files
<1>2. onChildRemoved(d, f) \in Folders
  BY <1>1 DEF onChildRemoved, Folders, AnyId
<1>3. /\ onChildRemoved(d, f).children = d.children
      /\ \A n \in Names : onChildRemoved(d, f).nameMap[n] = IF n = f.name THEN None ELSE d.nameMap[n]
      /\ \A i \in AnyId : onChildRemoved(d, f).idMap[i] = IF i = f.id THEN None ELSE d.idMap[i]
  BY <1>1 DEF onChildRemoved, Folders, AnyId
<1> DEFINE e == onChildRemoved(d, f)
<1> HIDE DEF e
<1>4. removeChild(d, f) = [e EXCEPT !.children = @ \ {f}]
  BY DEF removeChild, e
<1>5. e \in Folders
  BY <1>2 DEF e
<1>6. removeChild(d, f) \in Folders /\ removeChild(d, f).children = e.children \ {f}
  BY <1>4, <1>5 DEF Folders
<1>7. removeChild(d, f).nameMap = e.nameMap /\ removeChild(d, f).idMap = e.idMap
  BY <1>4, <1>5 DEF Folders
<1> QED
  BY <1>3, <1>6, <1>7 DEF e

(* MapsAgree, said of any folder and any set of deleted files. *)
Agree(d, gone) ==
    /\ \A n \in Names : d.nameMap[n] # None =>
          d.nameMap[n] \in d.children /\ d.nameMap[n].name = n
    /\ \A i \in AnyId : d.idMap[i] # None =>
          d.idMap[i] \in d.children /\ d.idMap[i].id = i
    /\ \A f \in d.children : /\ f \notin gone /\ d.idMap[f.id] # None
                             /\ f.name \in Names => d.nameMap[f.name] # None

LEMMA EmptyAgrees == ASSUME NEW gone PROVE EmptyFolder \in Folders /\ Agree(EmptyFolder, gone)
  BY DEF EmptyFolder, Folders, Agree, AnyId

(* A file that is not deleted may be added at any time. *)
LEMMA AddAgrees ==
  ASSUME NEW d \in Folders, NEW gone, NEW f \in GameFiles \ gone, Agree(d, gone)
  PROVE  Agree(addChild(d, f), gone)
<1> DEFINE e == addChild(d, f)
<1> HIDE DEF e
<1>1. /\ e.children = d.children \cup {f}
      /\ \A n \in Names : e.nameMap[n] = IF n = f.name THEN f ELSE d.nameMap[n]
      /\ \A i \in AnyId : e.idMap[i] = IF i = f.id THEN f ELSE d.idMap[i]
  BY Added DEF e
<1>2. f # None /\ \A g \in d.children : g.id \in AnyId
  BY Files DEF Folders
<1>3. \A n \in Names : e.nameMap[n] # None => e.nameMap[n] \in e.children /\ e.nameMap[n].name = n
  BY <1>1 DEF Agree
<1>4. \A i \in AnyId : e.idMap[i] # None => e.idMap[i] \in e.children /\ e.idMap[i].id = i
  BY <1>1 DEF Agree
<1>5. \A g \in e.children : /\ g \notin gone /\ e.idMap[g.id] # None
                            /\ g.name \in Names => e.nameMap[g.name] # None
  BY <1>1, <1>2, Files DEF Agree
<1> QED
  BY <1>3, <1>4, <1>5 DEF Agree, e

(* A file may take the place of the one that its name leads to and that has
   the same identifier: the entries that removeChild empties are filled again. *)
LEMMA SwapAgrees ==
  ASSUME NEW d \in Folders, NEW gone, Agree(d, gone), NEW old \in d.children,
         NEW f \in GameFiles \ gone, f # old, f.name = old.name, f.id = old.id
  PROVE  /\ addChild(removeChild(d, old), f) \in Folders
         /\ Agree(addChild(removeChild(d, old), f), gone \cup {old})
<1> DEFINE c == removeChild(d, old)
           e == addChild(c, f)
<1>1. old \in GameFiles /\ \A g \in d.children : g \in GameFiles
  BY DEF Folders
<1>2. /\ c \in Folders /\ c.children = d.children \ {old}
      /\ \A n \in Names : c.nameMap[n] = IF n = old.name THEN None ELSE d.nameMap[n]
      /\ \A i \in AnyId : c.idMap[i] = IF i = old.id THEN None ELSE d.idMap[i]
  BY <1>1, Removed
<1> HIDE DEF c
<1>3. /\ e \in Folders /\ e.children = c.children \cup {f}
      /\ \A n \in Names : e.nameMap[n] = IF n = f.name THEN f ELSE c.nameMap[n]
      /\ \A i \in AnyId : e.idMap[i] = IF i = f.id THEN f ELSE c.idMap[i]
  BY <1>2, Added
<1> HIDE DEF e
<1>4. /\ e.children = (d.children \ {old}) \cup {f}
      /\ \A n \in Names : e.nameMap[n] = IF n = f.name THEN f ELSE d.nameMap[n]
      /\ \A i \in AnyId : e.idMap[i] = IF i = f.id THEN f ELSE d.idMap[i]
  BY <1>2, <1>3
<1>5. \A n \in Names : e.nameMap[n] # None => e.nameMap[n] \in e.children /\ e.nameMap[n].name = n
  BY <1>4 DEF Agree
<1>6. \A i \in AnyId : e.idMap[i] # None => e.idMap[i] \in e.children /\ e.idMap[i].id = i
  BY <1>4 DEF Agree
<1>7. \A g \in e.children : /\ g \notin gone \cup {old} /\ e.idMap[g.id] # None
                            /\ g.name \in Names => e.nameMap[g.name] # None
  BY <1>1, <1>4, Files DEF Agree
<1> QED
  BY <1>3, <1>5, <1>6, <1>7 DEF Agree, e, c
-----------------------------------------------------------------------------
(* The directory agrees with itself *)

(* A file carries the number of the load that made it: that tells it from    *)
(* those an earlier load deleted, and a custom file is added at most once in *)
(* each load.                                                                *)
Stores == /\ phase # "none" => load \in 1..MaxLoads
          /\ ~mpq => archives = {}
          /\ phase = "archives" => mpq
          /\ phase \in {"listfile", "custom"} => ~mpq
Dated  == \A f \in dir.children \cup deleted : f.load <= load
Buried == \A f \in deleted : /\ f.name \in Names
                             /\ phase = "listfile" \/ mpq => f.load < load
Visits == /\ phase = "listfile" => \A f \in dir.children : f.kind = "disk" => f.load < load
          /\ phase = "custom" => \A f \in dir.children \cup deleted :
                f.load = load /\ (f \in deleted \/ f.kind = "disk") => f.name \notin left

FolderInv == FolderTypeOK /\ MapsAgree /\ Stores /\ Dated /\ Buried /\ Visits

LEMMA MapsAre == MapsAgree <=> Agree(dir, deleted)
  BY DEF MapsAgree, Agree, AnyId

LEMMA FolderInit == Init => FolderInv
<1> SUFFICES ASSUME Init PROVE FolderInv
    OBVIOUS
<1>1. dir \in Folders /\ MapsAgree
  BY EmptyAgrees, MapsAre DEF Init
<1>2. dir.children = {} /\ NoNameIds \in [Names -> Ids \cup {NoId}]
  BY DEF Init, EmptyFolder, NoNameIds
<1>3. load \in 0..MaxLoads /\ openable \in SUBSET Ids
  BY FolderAssumption DEF Init
<1>5. FolderTypeOK
  BY <1>1, <1>2, <1>3 DEF Init, FolderTypeOK
<1>4. Stores /\ Dated /\ Buried /\ Visits
  BY <1>2 DEF Init, Stores, Dated, Buried, Visits
<1> QED
  BY <1>1, <1>4, <1>5 DEF FolderInv

(* A request or a line of a list adds at most one file, and never one that is
   deleted. *)
LEMMA AddStep ==
  ASSUME FolderInv, phase # "none", NEW f \in GameFiles, f.load = load, f \notin deleted,
         dir' = addChild(dir, f),
         phase' = "custom" => f.kind # "disk" \/ f.name \notin left',
         phase' = "listfile" => f.kind # "disk",
         left' \subseteq left, UNCHANGED <<phase, mpq, load, archives, deleted, bypass, openable>>,
         nameId' \in [Names -> Ids \cup {NoId}]
  PROVE  FolderInv'
<1>1. dir \in Folders /\ Agree(dir, deleted)
  BY MapsAre DEF FolderInv, FolderTypeOK
<1>2. dir' \in Folders /\ dir'.children = dir.children \cup {f}
  BY <1>1, Added
<1>3. Agree(dir, deleted)'
  BY <1>1, AddAgrees
<1>4. MapsAgree'
  BY <1>3 DEF MapsAgree, Agree, AnyId
<1>5. FolderTypeOK'
  BY <1>2 DEF FolderInv, FolderTypeOK
<1>6. Stores' /\ Dated' /\ Buried'
  BY <1>2 DEF FolderInv, FolderTypeOK, Stores, Dated, Buried
<1>7. Visits'
  BY <1>2 DEF FolderInv, Visits
<1> QED
  BY <1>4, <1>5, <1>6, <1>7 DEF FolderInv

(* Whoever is answered, a new file is opened by identifier in a CASC client or
   by name in an archive. *)
LEMMA NewById ==
  ASSUME FolderInv, phase = "ready", NEW i \in Ids, byId(i) # None
  PROVE  \/ byId(i) \in dir.children
         \/ /\ byId(i) = New("unk", None, i) /\ byId(i) \in GameFiles /\ byId(i) \notin deleted
            /\ dir.idMap[i] = None
<1>1. CASE dir.idMap[i] # None
  BY <1>1 DEF byId, FolderInv, MapsAgree
<1>2. CASE dir.idMap[i] = None
  <2> DEFINE f == New("unk", None, i)
  <2>1. byId(i) = f
    BY <1>2 DEF byId
  <2>2. f \in GameFiles /\ f.name = None
    BY Made DEF FolderInv, Stores, Kinds, AnyId
  <2>3. f \notin deleted
    BY <2>2, NoneAssumption DEF FolderInv, Buried
  <2> QED
    BY <1>2, <2>1, <2>2, <2>3
<1> QED
  BY <1>1, <1>2

LEMMA NewByName ==
  ASSUME FolderInv, phase = "ready", NEW n \in Names, byName(n) # None
  PROVE  \/ byName(n) \in dir.children
         \/ /\ byName(n) = New("mpq", n, NoId) /\ byName(n) \in GameFiles /\ byName(n) \notin deleted
            /\ dir.nameMap[n] = None
<1>1. CASE dir.nameMap[n] # None
  BY <1>1 DEF byName, FolderInv, MapsAgree
<1>2. CASE dir.nameMap[n] = None
  <2> DEFINE f == New("mpq", n, NoId)
  <2>1. byName(n) = f /\ n \in archives
    BY <1>2 DEF byName
  <2>2. f \in GameFiles /\ f.load = load
    BY Made DEF FolderInv, Stores, Kinds, AnyId
  <2>3. f \notin deleted
    BY <2>1, <2>2 DEF FolderInv, FolderTypeOK, Stores, Buried
  <2> QED
    BY <1>2, <2>1, <2>2, <2>3
<1> QED
  BY <1>1, <1>2

LEMMA RequestStep ==
  ASSUME FolderInv, \/ \E i \in Ids : getFileById(i)
                    \/ \E n \in Names : getFileByName(n)
  PROVE  FolderInv'
<1>1. ASSUME dir' = dir, UNCHANGED <<nameId, phase, left, mpq, bypass, load, openable, archives, deleted>>
      PROVE  FolderInv'
  BY <1>1 DEF FolderInv, FolderTypeOK, MapsAgree, Stores, Dated, Buried, Visits
<1>2. ASSUME NEW i \in Ids, getFileById(i) PROVE FolderInv'
  <2>1. CASE keep(byId(i)) = dir
    BY <1>1, <1>2, <2>1 DEF getFileById
  <2>2. CASE keep(byId(i)) # dir
    <3> DEFINE f == byId(i)
    <3>1. f # None /\ f \notin dir.children /\ dir' = addChild(dir, f)
      BY <1>2, <2>2 DEF keep, getFileById
    <3>2. f = New("unk", None, i) /\ f \in GameFiles /\ f \notin deleted
      BY <1>2, <3>1, NewById DEF getFileById
    <3>3. f.load = load /\ f.kind # "disk"
      BY <3>2 DEF New
    <3> HIDE DEF f
    <3> QED
      BY <1>2, <3>1, <3>2, <3>3, AddStep DEF getFileById, FolderInv, FolderTypeOK
  <2> QED
    BY <2>1, <2>2
<1>3. ASSUME NEW n \in Names, getFileByName(n) PROVE FolderInv'
  <2>1. CASE keep(byName(n)) = dir
    BY <1>1, <1>3, <2>1 DEF getFileByName
  <2>2. CASE keep(byName(n)) # dir
    <3> DEFINE f == byName(n)
    <3>1. f # None /\ f \notin dir.children /\ dir' = addChild(dir, f)
      BY <1>3, <2>2 DEF keep, getFileByName
    <3>2. f = New("mpq", n, NoId) /\ f \in GameFiles /\ f \notin deleted
      BY <1>3, <3>1, NewByName DEF getFileByName
    <3>3. f.load = load /\ f.kind # "disk"
      BY <3>2 DEF New
    <3> HIDE DEF f
    <3> QED
      BY <1>3, <3>1, <3>2, <3>3, AddStep DEF getFileByName, FolderInv, FolderTypeOK
  <2> QED
    BY <2>1, <2>2
<1> QED
  BY <1>2, <1>3

(* A custom file takes the entries of the file it stands for. *)
LEMMA CustomStep == ASSUME FolderInv, NEW p \in CustomDir, addCustomFiles(p) PROVE FolderInv'
<1> USE FolderAssumption
<1> DEFINE old == dir.nameMap[p]
           f == New("disk", p, originalId(p))
<1>1. /\ phase = "custom" /\ p \in left /\ left' = left \ {p}
      /\ UNCHANGED <<nameId, phase, mpq, bypass, load, openable, archives>>
      /\ p \in Names /\ load \in 1..MaxLoads
  BY DEF addCustomFiles, FolderInv, Stores
<1>2. dir \in Folders /\ Agree(dir, deleted) /\ deleted \subseteq GameFiles
  BY MapsAre DEF FolderInv, FolderTypeOK
<1>3. old # None => old \in dir.children /\ old \in GameFiles /\ old.name = p
  BY <1>1, <1>2 DEF Agree, Folders
<1>4. originalId(p) \in AnyId
  BY <1>1, <1>3, Files DEF originalId, FolderInv, FolderTypeOK, AnyId
<1>5. f \in GameFiles /\ f.kind = "disk" /\ f.name = p /\ f.id = originalId(p) /\ f.load = load
  BY <1>1, <1>4, Made DEF Kinds
<1>6. f \notin deleted /\ f \notin dir.children
  BY <1>1, <1>5 DEF FolderInv, Visits
<1>7. CASE old = None
  <2>1. dir' = addChild(dir, f) /\ UNCHANGED deleted
    BY <1>7 DEF addCustomFiles
  <2> HIDE DEF f
  <2> QED
    BY <1>1, <1>5, <1>6, <2>1, AddStep DEF FolderInv, FolderTypeOK
<1>8. CASE old # None /\ bypass
  <2>1. dir' = addChild(removeChild(dir, old), f) /\ deleted' = deleted \cup {old}
    BY <1>8 DEF addCustomFiles
  <2>2. f # old /\ f.name = old.name /\ f.id = old.id
    BY <1>3, <1>5, <1>6, <1>8 DEF originalId
  <2> HIDE DEF f, old
  <2>3. dir' \in Folders /\ Agree(dir, deleted)'
    BY <1>2, <1>3, <1>5, <1>6, <1>8, <2>1, <2>2, SwapAgrees
  <2>4. MapsAgree'
    BY <2>3 DEF MapsAgree, Agree, AnyId
  <2>5. dir'.children = (dir.children \ {old}) \cup {f}
    <3>1. removeChild(dir, old) \in Folders /\ removeChild(dir, old).children = dir.children \ {old}
      BY <1>2, <1>3, <1>8, Removed
    <3> QED
      BY <1>5, <2>1, <3>1, Added
  <2>6. FolderTypeOK'
    <3>1. deleted' \subseteq GameFiles /\ left' \subseteq Lines \cup Names
      BY <1>1, <1>2, <1>3, <1>8, <2>1 DEF FolderInv, FolderTypeOK
    <3> QED
      BY <1>1, <2>3, <3>1 DEF FolderInv, FolderTypeOK
  <2>7. Stores' /\ Dated'
    BY <1>1, <1>3, <1>5, <1>8, <2>1, <2>5 DEF FolderInv, Stores, Dated
  <2>8. Buried'
    BY <1>1, <1>3, <1>8, <2>1 DEF FolderInv, Buried, Stores
  <2>9. Visits'
    BY <1>1, <1>3, <1>5, <1>8, <2>1, <2>5 DEF FolderInv, Visits
  <2> QED
    BY <2>4, <2>6, <2>7, <2>8, <2>9 DEF FolderInv
<1>9. CASE old # None /\ ~bypass
  <2>1. UNCHANGED <<dir, deleted>>
    BY <1>9 DEF addCustomFiles
  <2>2. FolderTypeOK' /\ MapsAgree'
    BY <1>1, <2>1 DEF FolderInv, FolderTypeOK, MapsAgree
  <2>3. Stores' /\ Dated' /\ Buried' /\ Visits'
    BY <1>1, <2>1 DEF FolderInv, Stores, Dated, Buried, Visits
  <2> QED
    BY <2>2, <2>3 DEF FolderInv
<1> QED
  BY <1>7, <1>8, <1>9

(* Loading a client, line by line. *)
LEMMA ClientStep == ASSUME FolderInv, LoadClient PROVE FolderInv'
<1> USE FolderAssumption
<1>1. CASE LoadWoW
  <2>1. /\ phase' = "listfile" /\ left' = Lines /\ mpq' = FALSE /\ archives' = {} /\ bypass' \in BOOLEAN
        /\ load' = load + 1 /\ load < MaxLoads /\ UNCHANGED <<openable, deleted>>
        /\ \/ dir' = EmptyFolder /\ nameId' = NoNameIds
           \/ UNCHANGED <<dir, nameId>>
    BY <1>1 DEF LoadWoW, Idle
  <2>2. load \in Nat /\ \A f \in dir.children \cup deleted : f.load \in Nat /\ f.load <= load
    BY Files DEF FolderInv, FolderTypeOK, Folders, Dated
  <2>3. EmptyFolder.children = {} /\ NoNameIds \in [Names -> Ids \cup {NoId}]
    BY DEF EmptyFolder, NoNameIds
  <2>4. dir' \in Folders /\ Agree(dir, deleted)' /\ nameId' \in [Names -> Ids \cup {NoId}]
    BY <2>1, <2>3, EmptyAgrees, MapsAre DEF FolderInv, FolderTypeOK
  <2>5. MapsAgree'
    BY <2>4 DEF MapsAgree, Agree, AnyId
  <2>6. FolderTypeOK'
    <3>1. load' \in 0..MaxLoads /\ archives' \subseteq Names /\ left' \subseteq Lines \cup Names
      BY <2>1, <2>2
    <3>2. mpq' \in BOOLEAN /\ bypass' \in BOOLEAN
      BY <2>1
    <3>3. openable' \in SUBSET Ids /\ deleted' \subseteq GameFiles
      BY <2>1 DEF FolderInv, FolderTypeOK
    <3> QED
      BY <2>1, <2>4, <3>1, <3>2, <3>3, Zenon DEF FolderTypeOK
  <2>7. dir'.children = {} \/ dir'.children = dir.children
    BY <2>1, <2>3
  <2>8. Stores' /\ Dated' /\ Visits'
    BY <2>1, <2>2, <2>7 DEF Stores, Dated, Visits
  <2>9. Buried'
    BY <2>1, <2>2 DEF FolderInv, Buried
  <2> QED
    BY <2>5, <2>6, <2>8, <2>9 DEF FolderInv
<1>2. CASE LoadWoWFromMpq
  <2>1. /\ phase' = "archives" /\ left' \subseteq MpqListed /\ mpq' /\ archives' \subseteq Names
        /\ load' = load + 1 /\ load < MaxLoads /\ UNCHANGED <<bypass, openable, deleted>>
        /\ dir' = EmptyFolder /\ nameId' = NoNameIds /\ mpq' \in BOOLEAN
    BY <1>2 DEF LoadWoWFromMpq, Idle
  <2>2. load \in Nat /\ \A f \in deleted : f.load \in Nat /\ f.load <= load
    BY Files DEF FolderInv, FolderTypeOK, Dated
  <2>3. dir'.children = {} /\ NoNameIds \in [Names -> Ids \cup {NoId}]
    BY <2>1 DEF EmptyFolder, NoNameIds
  <2>4. dir' \in Folders /\ Agree(dir, deleted)'
    BY <2>1, EmptyAgrees
  <2>5. MapsAgree'
    BY <2>4 DEF MapsAgree, Agree, AnyId
  <2>6. FolderTypeOK'
    BY <2>1, <2>2, <2>3, <2>4 DEF FolderInv, FolderTypeOK
  <2>7. Stores' /\ Dated' /\ Visits'
    BY <2>1, <2>2, <2>3 DEF Stores, Dated, Visits
  <2>8. Buried'
    BY <2>1, <2>2 DEF FolderInv, Buried
  <2> QED
    BY <2>5, <2>6, <2>7, <2>8 DEF FolderInv
<1>3. ASSUME NEW l \in Lines, initFromListfile(l) PROVE FolderInv'
  <2> DEFINE f == New("casc", l[2], l[1])
  <2>1. /\ phase = "listfile" /\ left' \subseteq left /\ nameId' = [nameId EXCEPT ![l[2]] = l[1]]
        /\ UNCHANGED <<phase, mpq, bypass, load, openable, archives, deleted>>
        /\ l[1] \in Ids /\ l[2] \in Names
    BY <1>3 DEF initFromListfile
  <2>2. nameId' \in [Names -> Ids \cup {NoId}]
    BY <2>1 DEF FolderInv, FolderTypeOK
  <2>3. CASE dir' = dir
    <3>1. FolderTypeOK' /\ MapsAgree'
      BY <2>1, <2>2, <2>3 DEF FolderInv, FolderTypeOK, MapsAgree
    <3>2. Stores' /\ Dated' /\ Buried' /\ Visits'
      BY <2>1, <2>3 DEF FolderInv, Stores, Dated, Buried, Visits
    <3> QED
      BY <3>1, <3>2 DEF FolderInv
  <2>4. CASE dir' = addChild(dir, f)
    <3>1. f \in GameFiles /\ f.kind # "disk" /\ f.load = load
      BY <2>1, Made DEF FolderInv, Stores, Kinds, AnyId
    <3>2. f \notin deleted
      BY <2>1, <3>1, Files DEF FolderInv, Buried
    <3> HIDE DEF f
    <3> QED
      BY <2>1, <2>2, <2>4, <3>1, <3>2, AddStep
  <2> QED
    BY <1>3, <2>3, <2>4 DEF initFromListfile, listLine
<1>4. CASE ListfileRead
  <2>1. FolderTypeOK' /\ MapsAgree'
    BY <1>4 DEF ListfileRead, FolderInv, FolderTypeOK, MapsAgree
  <2>2. \A f \in dir.children \cup deleted : f.load \in Nat /\ (f \in deleted \/ f.kind = "disk" => f.load < load)
    BY <1>4, Files DEF ListfileRead, FolderInv, FolderTypeOK, Folders, Buried, Visits
  <2>3. load \in Nat
    BY DEF FolderInv, FolderTypeOK
  <2>4. Visits'
    BY <1>4, <2>2, <2>3 DEF ListfileRead, Visits
  <2>5. Stores' /\ Dated' /\ Buried'
    BY <1>4 DEF ListfileRead, FolderInv, Stores, Dated, Buried
  <2> QED
    BY <2>1, <2>4, <2>5 DEF FolderInv
<1>5. ASSUME NEW n \in MpqListed, initMpq(n) PROVE FolderInv'
  <2> DEFINE f == New("mpq", n, NoId)
  <2>1. /\ phase = "archives" /\ left' \subseteq left /\ n \in Names /\ mpq
        /\ UNCHANGED <<nameId, phase, mpq, bypass, load, openable, archives, deleted>>
        /\ dir' = addChild(dir, f)
    BY <1>5 DEF initMpq, FolderInv, Stores
  <2>2. f \in GameFiles /\ f.kind # "disk" /\ f.load = load
    BY <2>1, Made DEF FolderInv, Stores, Kinds, AnyId
  <2>3. f \notin deleted
    BY <2>1, <2>2, Files DEF FolderInv, Buried
  <2> HIDE DEF f
  <2> QED
    BY <2>1, <2>2, <2>3, AddStep DEF FolderInv, FolderTypeOK
<1>6. CASE Ready
  <2>1. FolderTypeOK' /\ MapsAgree'
    BY <1>6 DEF Ready, FolderInv, FolderTypeOK, MapsAgree
  <2>2. Stores' /\ Dated' /\ Buried' /\ Visits'
    BY <1>6 DEF Ready, FolderInv, Stores, Dated, Buried, Visits
  <2> QED
    BY <2>1, <2>2 DEF FolderInv
<1> QED
  BY <1>1, <1>2, <1>3, <1>4, <1>5, <1>6, CustomStep DEF LoadClient

LEMMA FolderStep == FolderInv /\ [FolderNext]_fvars => FolderInv'
<1> SUFFICES ASSUME FolderInv, [FolderNext]_fvars PROVE FolderInv'
    OBVIOUS
<1>1. CASE UNCHANGED fvars
  <2>1. FolderTypeOK' /\ MapsAgree'
    BY <1>1 DEF fvars, FolderInv, FolderTypeOK, MapsAgree
  <2>2. Stores' /\ Dated' /\ Buried' /\ Visits'
    BY <1>1 DEF fvars, FolderInv, Stores, Dated, Buried, Visits
  <2> QED
    BY <2>1, <2>2 DEF FolderInv
<1> QED
  BY <1>1, ClientStep, RequestStep DEF FolderNext

(* Container::removeChild and its overrides: whatever the listfile repeats and
   whatever the user's files replace, both maps lead to live children of that
   name and identifier and no child is hidden. *)
THEOREM Maps == FolderSpec => []MapsAgree
<1>1. FolderInv => MapsAgree
  BY DEF FolderInv
<1> QED
  BY <1>1, FolderInit, FolderStep, PTL DEF FolderSpec
-----------------------------------------------------------------------------
(* The directory implements the service *)

answer == [k \in Ids \cup Names |-> IF k \in Ids THEN dir.idMap[k] ELSE dir.nameMap[k]]

LEMMA AnswerTyped == FolderInv => answer \in [Ids \cup Names -> GameFiles \cup {None}]
  BY DEF FolderInv, FolderTypeOK, Folders, answer

(* A request that adds a file answers one key. *)
LEMMA AskStep ==
  ASSUME FolderInv, FolderInv', phase = "ready", UNCHANGED phase,
         NEW k \in Ids \cup Names, answer[k] = None,
         NEW f \in GameFiles, dir' = addChild(dir, f),
         \/ k \in Ids /\ f.id = k /\ f.name = None
         \/ k \in Names /\ f.name = k /\ f.id = NoId
  PROVE  Service!Ask(k)
<1>1. dir \in Folders
  BY DEF FolderInv, FolderTypeOK
<1>2. /\ \A n \in Names : dir'.nameMap[n] = IF n = f.name THEN f ELSE dir.nameMap[n]
      /\ \A i \in AnyId : dir'.idMap[i] = IF i = f.id THEN f ELSE dir.idMap[i]
  BY <1>1, Added
<1>3. k \in Ids => k \notin Names /\ None \notin Names /\ NoId \notin Ids
  BY FolderAssumption, NoneAssumption
<1>4. \A j \in Ids \cup Names : answer'[j] = IF j = k THEN f ELSE answer[j]
  BY <1>2, <1>3, FolderAssumption, NoneAssumption DEF answer, AnyId
<1>5. answer' = [answer EXCEPT ![k] = answer'[k]]
  BY <1>4, AnswerTyped DEF answer
<1>6. answer'[k] \in GameFiles
  BY <1>4
<1> QED
  BY <1>5, <1>6 DEF Service!Ask, answer

LEMMA ServiceStep == FolderInv /\ FolderInv' /\ [FolderNext]_fvars => [Service!Next]_(Service!svars)
<1> SUFFICES ASSUME FolderInv, FolderInv', [FolderNext]_fvars
             PROVE  Service!Next \/ UNCHANGED Service!svars
    OBVIOUS
<1>1. ASSUME UNCHANGED <<dir, phase>> PROVE UNCHANGED Service!svars
  BY <1>1 DEF Service!svars
<1>2. ASSUME phase # "ready" \/ phase' # "ready" PROVE Service!Load
  <2>1. answer' \in [Ids \cup Names -> GameFiles \cup {None}]
    <3>1. dir' \in Folders
      BY DEF FolderInv, FolderTypeOK
    <3> QED
      BY <3>1 DEF answer, Folders
  <2>2. ~(phase = "ready") \/ ~(phase = "ready")'
    BY <1>2
  <2> QED
    BY <2>1, <2>2 DEF Service!Load, answer
<1>3. ASSUME LoadClient PROVE Service!Load
  <2>1. phase # "ready" \/ phase' # "ready"
    BY <1>3 DEF LoadClient, LoadWoW, ListfileRead, LoadWoWFromMpq, Ready, initFromListfile,
       addCustomFiles, initMpq
  <2> QED
    BY <1>2, <2>1
<1>4. ASSUME NEW i \in Ids, getFileById(i) PROVE Service!Next \/ UNCHANGED Service!svars
  <2>1. CASE keep(byId(i)) = dir
    BY <1>1, <1>4, <2>1 DEF getFileById
  <2>2. CASE keep(byId(i)) # dir
    <3> DEFINE f == byId(i)
    <3>1. f # None /\ f \notin dir.children /\ dir' = addChild(dir, f) /\ phase = "ready" /\ phase' = phase
      BY <1>4, <2>2 DEF keep, getFileById
    <3>2. f = New("unk", None, i) /\ f \in GameFiles /\ dir.idMap[i] = None
      BY <3>1, NewById
    <3>3. f.id = i /\ f.name = None
      BY <3>2 DEF New
    <3>4. answer[i] = None
      BY <3>2 DEF answer
    <3> HIDE DEF f
    <3>5. Service!Ask(i)
      BY <3>1, <3>2, <3>3, <3>4, AskStep
    <3> QED
      BY <3>5 DEF Service!Next
  <2> QED
    BY <2>1, <2>2
<1>5. ASSUME NEW n \in Names, getFileByName(n) PROVE Service!Next \/ UNCHANGED Service!svars
  <2>1. CASE keep(byName(n)) = dir
    BY <1>1, <1>5, <2>1 DEF getFileByName
  <2>2. CASE keep(byName(n)) # dir
    <3> DEFINE f == byName(n)
    <3>1. f # None /\ f \notin dir.children /\ dir' = addChild(dir, f) /\ phase = "ready" /\ phase' = phase
      BY <1>5, <2>2 DEF keep, getFileByName
    <3>2. f = New("mpq", n, NoId) /\ f \in GameFiles /\ dir.nameMap[n] = None
      BY <3>1, NewByName
    <3>3. f.id = NoId /\ f.name = n
      BY <3>2 DEF New
    <3>4. answer[n] = None
      BY <3>2, FolderAssumption DEF answer
    <3> HIDE DEF f
    <3>5. Service!Ask(n)
      BY <3>1, <3>2, <3>3, <3>4, AskStep
    <3> QED
      BY <3>5 DEF Service!Next
  <2> QED
    BY <2>1, <2>2
<1>6. CASE UNCHANGED fvars
  BY <1>1, <1>6 DEF fvars
<1> QED
  BY <1>3, <1>4, <1>5, <1>6 DEF FolderNext, Service!Next

(* getFile: while a client is loaded an answer is never taken back and a
   request disturbs no other key. *)
THEOREM Serves == FolderSpec => ServiceKept
<1>1. Init => Service!Init
  BY FolderInit, AnswerTyped DEF Service!Init, answer
<1>2. FolderInv /\ FolderInv' /\ [FolderNext]_fvars => [Service!Next]_(Service!svars)
  BY ServiceStep
<1> QED
  BY <1>1, <1>2, FolderInit, FolderStep, PTL DEF FolderSpec, ServiceKept, Service!Spec
-----------------------------------------------------------------------------
(* Loading models on top of it *)

LEMMA Requests == \A k : Request(k) => [FolderNext]_fvars
  BY DEF Request, FolderNext

(* Whatever a model's files hold and whatever they name, loading it is to the
   directory a sequence of requests. *)
LEMMA LoadSteps == Next => [FolderNext]_fvars
<1> SUFFICES ASSUME Next PROVE [FolderNext]_fvars
    OBVIOUS
<1>1. CASE LoadClient
  BY <1>1 DEF FolderNext
<1>2. ASSUME NEW k \in Keys, initCommon(k) PROVE [FolderNext]_fvars
  BY <1>2, Requests DEF initCommon
<1>3. CASE openSkeleton \/ readParentSequences
  BY <1>3, Requests DEF openSkeleton, readParentSequences
<1>4. CASE readBody \/ readAttachments
  BY <1>4, Requests DEF readBody, readAttachments
<1>5. CASE setLOD \/ animateModel \/ animateSkeleton
  BY <1>5, Requests DEF setLOD, animateModel, animateSkeleton
<1>6. CASE openParent \/ (\E x \in todo : readAnimsFromFile(x))
  BY <1>6, Requests DEF openParent, readAnimsFromFile
<1>7. CASE animsRead \/ bonesOfModel \/ bonesOfSkeleton \/ finish
  BY <1>7 DEF animsRead, bonesOfModel, bonesOfSkeleton, finish
<1> QED
  BY <1>1, <1>2, <1>3, <1>4, <1>5, <1>6, <1>7 DEF Next, LoadStep

(* ModelLoad implements GameFolder. *)
THEOREM UsesFolder == Spec => FolderSpec
<1>1. LoadInit => Init
  BY DEF LoadInit
<1>2. [Next]_vars => [FolderNext]_fvars
  <2>1. CASE Next
    BY <2>1, LoadSteps
  <2>2. CASE UNCHANGED vars
    BY <2>2 DEF vars
  <2> QED
    BY <2>1, <2>2
<1> QED
  BY <1>1, <1>2, PTL DEF Spec, FolderSpec

(* ... and keeps what it promises. *)
THEOREM ModelsServed == Spec => []MapsAgree /\ ServiceKept
  BY UsesFolder, Maps, Serves, PTL
-----------------------------------------------------------------------------
(* The file of the displayed model *)

(* What a CASC client's directory holds, and that a load has listed again the
   names it knows before it turns to the user's files.  The displayed model
   came with an earlier load. *)
Listed   == ~mpq => \A f \in dir.children : \/ f.kind = "disk"
                                            \/ f.kind = "casc" /\ Known(f.name)
                                            \/ f.kind = "unk" /\ f.name = None
Newly(n) == dir.nameMap[n] # None /\ dir.nameMap[n].load = load
Relisted == /\ phase = "listfile" => \A l \in Lines \ left : l[1] \in Present => Newly(l[2])
            /\ phase = "custom" => \A n \in Names : Known(n) => Newly(n)
Earlier  == model # None =>
               /\ model \in GameFiles /\ model.load <= load
               /\ phase \in {"listfile", "custom", "archives"} => model.load < load

ListInv  == FolderInv /\ Listed /\ Relisted
ShownInv == ListInv /\ Earlier /\ ShownIsAlive

LEMMA ListStep == ListInv /\ [FolderNext]_fvars => ListInv'
<1> SUFFICES ASSUME ListInv, [FolderNext]_fvars PROVE Listed' /\ Relisted'
  BY FolderStep DEF ListInv
<1> USE FolderAssumption
<1>1. FolderInv /\ Listed /\ Relisted /\ dir \in Folders /\ MapsAgree
  BY DEF ListInv, FolderInv, FolderTypeOK
<1>2. CASE UNCHANGED <<dir, mpq, load, left, phase>>
  BY <1>1, <1>2 DEF Listed, Relisted, Newly
<1>3. CASE LoadWoW
  <2>1. EmptyFolder.children = {}
    BY DEF EmptyFolder
  <2>2. phase' = "listfile" /\ left' = Lines /\ (dir' = EmptyFolder \/ (dir' = dir /\ ~mpq))
    BY <1>3 DEF LoadWoW
  <2> QED
    BY <1>1, <2>1, <2>2 DEF Listed, Relisted
<1>4. CASE LoadWoWFromMpq
  BY <1>4 DEF LoadWoWFromMpq, Listed, Relisted
<1>5. ASSUME NEW l \in Lines, initFromListfile(l) PROVE Listed' /\ Relisted'
  <2> DEFINE f == New("casc", l[2], l[1])
  <2>1. /\ phase = "listfile" /\ left' = left \ {l} /\ UNCHANGED <<phase, mpq, load>>
        /\ l[1] \in Ids /\ l[2] \in Names
    BY <1>5 DEF initFromListfile
  <2>2. CASE l[1] \notin Present
    <3>1. dir' = dir
      BY <1>5, <2>2 DEF initFromListfile, listLine
    <3> QED
      BY <1>1, <2>1, <2>2, <3>1 DEF Listed, Relisted, Newly
  <2>3. CASE l[1] \in Present
    <3>1. f \in GameFiles /\ f.kind = "casc" /\ f.name = l[2] /\ f.load = load
      BY <1>1, <2>1, Made DEF FolderInv, Stores, Kinds, AnyId
    <3>2. dir' = addChild(dir, f)
      BY <1>5, <2>3 DEF initFromListfile, listLine
    <3> HIDE DEF f
    <3>3. /\ dir'.children = dir.children \cup {f}
          /\ \A n \in Names : dir'.nameMap[n] = IF n = l[2] THEN f ELSE dir.nameMap[n]
      BY <1>1, <3>1, <3>2, Added
    <3>4. Listed'
      BY <1>1, <2>1, <2>3, <3>1, <3>3 DEF Listed, Known
    <3>5. Relisted'
      <4> SUFFICES ASSUME NEW m \in Lines \ left', m[1] \in Present PROVE Newly(m[2])'
        BY <2>1 DEF Relisted
      <4>1. m[2] \in Names /\ f # None
        BY <3>1, Files
      <4>2. CASE m[2] = l[2]
        BY <2>1, <3>1, <3>3, <4>1, <4>2 DEF Newly
      <4>3. CASE m[2] # l[2]
        BY <1>1, <2>1, <3>3, <4>1, <4>3 DEF Newly, Relisted
      <4> QED
        BY <4>2, <4>3
    <3> QED
      BY <3>4, <3>5
  <2> QED
    BY <2>2, <2>3
<1>6. CASE ListfileRead
  <2>1. phase = "listfile" /\ left = {} /\ phase' = "custom" /\ UNCHANGED <<dir, mpq, load>>
    BY <1>6 DEF ListfileRead
  <2>2. Relisted'
    <3> SUFFICES ASSUME NEW n \in Names, Known(n) PROVE Newly(n)'
      BY <2>1 DEF Relisted, Known
    <3> QED
      BY <1>1, <2>1 DEF Known, Relisted, Newly
  <2> QED
    BY <1>1, <2>1, <2>2 DEF Listed
<1>7. ASSUME NEW p \in CustomDir, addCustomFiles(p) PROVE Listed' /\ Relisted'
  <2> DEFINE old == dir.nameMap[p]
             f == New("disk", p, originalId(p))
  <2>1. /\ phase = "custom" /\ UNCHANGED <<phase, mpq, load>> /\ p \in Names
        /\ load \in 1..MaxLoads
    BY <1>1, <1>7 DEF addCustomFiles, FolderInv, Stores
  <2>2. old # None => old \in GameFiles /\ old.name = p
    BY <1>1, <2>1 DEF MapsAgree, Folders
  <2>3. originalId(p) \in AnyId
    BY <1>1, <2>1, <2>2, Files DEF originalId, FolderInv, FolderTypeOK, AnyId
  <2>4. f \in GameFiles /\ f.kind = "disk" /\ f.name = p /\ f.load = load /\ f # None
    BY <2>1, <2>3, Made, Files DEF Kinds
  <2>5. \/ dir' = dir
        \/ dir' = addChild(dir, f)
        \/ old # None /\ dir' = addChild(removeChild(dir, old), f)
    BY <1>7 DEF addCustomFiles
  <2> HIDE DEF old, f
  <2>6. dir' # dir => /\ dir'.children \subseteq dir.children \cup {f}
                      /\ \A n \in Names : dir'.nameMap[n] = IF n = p THEN f ELSE dir.nameMap[n]
    <3>1. CASE dir' = addChild(dir, f)
      BY <1>1, <2>4, <3>1, Added
    <3>2. CASE old # None /\ dir' = addChild(removeChild(dir, old), f)
      <4>1. /\ removeChild(dir, old) \in Folders
            /\ removeChild(dir, old).children \subseteq dir.children
            /\ \A n \in Names : removeChild(dir, old).nameMap[n] = IF n = p THEN None ELSE dir.nameMap[n]
        BY <1>1, <2>2, <3>2, Removed
      <4> QED
        BY <2>4, <3>2, <4>1, Added
    <3> QED
      BY <2>5, <3>1, <3>2
  <2>7. Listed'
    BY <1>1, <2>1, <2>4, <2>6 DEF Listed, Known
  <2>8. Relisted'
    <3> SUFFICES ASSUME NEW n \in Names, Known(n) PROVE Newly(n)'
      BY <2>1 DEF Relisted, Known
    <3> QED
      BY <1>1, <2>1, <2>4, <2>6 DEF Relisted, Newly
  <2> QED
    BY <2>7, <2>8
<1>8. ASSUME NEW n \in MpqListed, initMpq(n) PROVE Listed' /\ Relisted'
  BY <1>1, <1>8 DEF initMpq, FolderInv, Stores, Listed, Relisted
<1>9. CASE Ready
  BY <1>1, <1>9 DEF Ready, Listed, Relisted
<1>10. ASSUME NEW i \in Ids, getFileById(i) PROVE Listed' /\ Relisted'
  <2>1. phase = "ready" /\ UNCHANGED <<phase, mpq, load, left>> /\ dir' = keep(byId(i))
    BY <1>10 DEF getFileById
  <2>2. CASE dir' = dir
    BY <1>2, <2>1, <2>2
  <2>3. CASE dir' # dir
    <3> DEFINE f == byId(i)
    <3>1. f # None /\ f \notin dir.children /\ dir' = addChild(dir, f)
      BY <2>1, <2>3 DEF keep
    <3>2. f = New("unk", None, i) /\ f \in GameFiles
      BY <1>1, <2>1, <3>1, NewById
    <3>3. f.kind = "unk" /\ f.name = None
      BY <3>2 DEF New
    <3> HIDE DEF f
    <3>4. dir'.children = dir.children \cup {f}
      BY <1>1, <3>1, <3>2, Added
    <3> QED
      BY <1>1, <2>1, <3>3, <3>4 DEF Listed, Relisted, Known
  <2> QED
    BY <2>2, <2>3
<1>11. ASSUME NEW n \in Names, getFileByName(n) PROVE Listed' /\ Relisted'
  <2>1. phase = "ready" /\ UNCHANGED <<phase, mpq, load, left>> /\ dir' = keep(byName(n))
    BY <1>11 DEF getFileByName
  <2>2. CASE dir' = dir
    BY <1>2, <2>1, <2>2
  <2>3. CASE dir' # dir
    <3>1. byName(n) # None /\ byName(n) \notin dir.children
      BY <2>1, <2>3 DEF keep
    <3>2. mpq
      BY <1>1, <3>1 DEF byName, FolderInv, Stores, MapsAgree
    <3> QED
      BY <2>1, <3>2 DEF Listed, Relisted
  <2> QED
    BY <2>2, <2>3
<1>12. CASE UNCHANGED fvars
  BY <1>2, <1>12 DEF fvars
<1> QED
  BY <1>3, <1>4, <1>5, <1>6, <1>7, <1>8, <1>9, <1>10, <1>11, <1>12 DEF FolderNext, LoadClient

(* Only initCommon changes the model: to a file that the directory answers. *)
LEMMA ModelStep ==
  ASSUME [Next]_vars
  PROVE  \/ model' = model
         \/ /\ phase = "ready" /\ UNCHANGED <<phase, load, deleted>> /\ model' # None
            /\ \/ \E i \in Ids : model' = byId(i)
               \/ \E n \in Names : model' = byName(n)
<1>1. CASE UNCHANGED vars
  BY <1>1 DEF vars, lvars
<1>2. CASE LoadClient /\ UNCHANGED lvars
  BY <1>2 DEF lvars
<1>3. ASSUME NEW k \in Keys, initCommon(k)
      PROVE  /\ phase = "ready" /\ UNCHANGED <<phase, load, deleted>> /\ model' # None
             /\ \/ \E i \in Ids : model' = byId(i)
                \/ \E n \in Names : model' = byName(n)
  <2>1. phase = "ready" /\ model' = Answer(k) /\ model' # None /\ Request(k)
    BY <1>3 DEF initCommon
  <2>2. UNCHANGED <<phase, load, deleted>>
    BY <2>1 DEF Request, getFileById, getFileByName, fvars
  <2> QED
    BY <2>1, <2>2 DEF Answer, Keys
<1>4. CASE openSkeleton \/ readParentSequences \/ readBody \/ readAttachments
  BY <1>4 DEF openSkeleton, readParentSequences, readBody, readAttachments, Crash
<1>5. CASE setLOD \/ animateModel \/ animateSkeleton \/ openParent
  BY <1>5 DEF setLOD, animateModel, animateSkeleton, openParent, Crash
<1>6. CASE (\E x \in todo : readAnimsFromFile(x)) \/ animsRead \/ bonesOfModel
  BY <1>6 DEF readAnimsFromFile, animsRead, bonesOfModel
<1>7. CASE bonesOfSkeleton \/ finish
  BY <1>7 DEF bonesOfSkeleton, finish, Crash
<1> QED
  BY <1>1, <1>2, <1>3, <1>4, <1>5, <1>6, <1>7 DEF Next, LoadStep

(* A load moves on by one, and files are deleted only for the user's. *)
LEMMA ClientMoves ==
  ASSUME load \in Nat, [FolderNext]_fvars
  PROVE  /\ load' = load \/ (load' = load + 1 /\ phase \in {"none", "ready"})
         /\ load' = load /\ phase' \in {"listfile", "custom", "archives"}
               => phase \in {"listfile", "custom", "archives"}
         /\ deleted' # deleted => \E p \in CustomDir : addCustomFiles(p)
<1>1. CASE UNCHANGED fvars
  BY <1>1 DEF fvars
<1>2. CASE LoadClient
  <2>1. CASE LoadWoW \/ LoadWoWFromMpq
    BY <2>1 DEF LoadWoW, LoadWoWFromMpq, Idle
  <2>2. CASE ListfileRead \/ Ready
    BY <2>2 DEF ListfileRead, Ready
  <2>3. CASE (\E l \in Lines : initFromListfile(l)) \/ (\E n \in MpqListed : initMpq(n))
    BY <2>3 DEF initFromListfile, initMpq
  <2>4. CASE \E p \in CustomDir : addCustomFiles(p)
    BY <2>4 DEF addCustomFiles
  <2> QED
    BY <1>2, <2>1, <2>2, <2>3, <2>4 DEF LoadClient
<1>3. CASE (\E i \in Ids : getFileById(i)) \/ (\E n \in Names : getFileByName(n))
  BY <1>3 DEF getFileById, getFileByName
<1> QED
  BY <1>1, <1>2, <1>3 DEF FolderNext

LEMMA ShownStep == ShownInv /\ [Next]_vars => ShownInv'
<1> SUFFICES ASSUME ShownInv, [Next]_vars PROVE ShownInv'
    OBVIOUS
<1>1. [FolderNext]_fvars
  BY LoadSteps DEF vars
<1>2. ListInv'
  BY <1>1, ListStep DEF ShownInv
<1>3. /\ FolderInv /\ MapsAgree /\ Listed /\ Relisted /\ Earlier /\ ShownIsAlive
      /\ dir \in Folders /\ load \in Nat /\ Dated /\ Stores
  BY DEF ShownInv, ListInv, FolderInv, FolderTypeOK
<1>4. CASE model' = model
  <2>1. Earlier'
    BY <1>1, <1>3, <1>4, ClientMoves, Files DEF Earlier
  <2>2. ShownIsAlive'
    <3> SUFFICES ASSUME model \in deleted' PROVE model.kind = "disk" /\ ~Known(model.name)
      BY <1>4 DEF ShownIsAlive, Known
    <3>1. CASE model \in deleted
      BY <1>3, <3>1 DEF ShownIsAlive
    <3>2. CASE model \notin deleted
      <4>1. PICK p \in CustomDir : addCustomFiles(p)
        BY <1>1, <1>3, <3>2, ClientMoves
      <4>2. /\ phase = "custom" /\ model = dir.nameMap[p] /\ model # None /\ p \in Names
        BY <3>2, <4>1, FolderAssumption DEF addCustomFiles
      <4>3. /\ model \in dir.children /\ model \in GameFiles /\ model.name = p
            /\ model.load # load /\ ~mpq
        BY <1>3, <4>2 DEF MapsAgree, Earlier, Stores, Folders, GameFiles
      <4>4. ~Known(p)
        BY <1>3, <4>2, <4>3 DEF Relisted, Newly
      <4> QED
        BY <1>3, <4>2, <4>3, <4>4, NoneAssumption DEF Listed
    <3> QED
      BY <3>1, <3>2
  <2> QED
    BY <1>2, <2>1, <2>2 DEF ShownInv
<1>5. CASE model' # model
  <2>1. /\ phase = "ready" /\ UNCHANGED <<phase, load, deleted>> /\ model' # None
        /\ \/ \E i \in Ids : model' = byId(i)
           \/ \E n \in Names : model' = byName(n)
    BY <1>5, ModelStep
  <2>2. model' \in GameFiles /\ model' \notin deleted /\ model'.load <= load
    <3>1. \A f \in dir.children : f \in GameFiles /\ f \notin deleted /\ f.load <= load
      BY <1>3 DEF Folders, MapsAgree, Dated
    <3>2. ASSUME NEW i \in Ids, model' = byId(i)
          PROVE  model' \in GameFiles /\ model' \notin deleted /\ model'.load <= load
      <4>1. CASE model' \in dir.children
        BY <3>1, <4>1
      <4>2. CASE model' = New("unk", None, i) /\ model' \in GameFiles /\ model' \notin deleted
        BY <1>3, <4>2 DEF New
      <4> QED
        BY <1>3, <2>1, <3>2, <4>1, <4>2, NewById
    <3>3. ASSUME NEW n \in Names, model' = byName(n)
          PROVE  model' \in GameFiles /\ model' \notin deleted /\ model'.load <= load
      <4>1. CASE model' \in dir.children
        BY <3>1, <4>1
      <4>2. CASE model' = New("mpq", n, NoId) /\ model' \in GameFiles /\ model' \notin deleted
        BY <1>3, <4>2 DEF New
      <4> QED
        BY <1>3, <2>1, <3>3, <4>1, <4>2, NewByName
    <3> QED
      BY <2>1, <3>2, <3>3
  <2>3. Earlier' /\ ShownIsAlive'
    BY <2>1, <2>2 DEF Earlier, ShownIsAlive
  <2> QED
    BY <1>2, <2>3 DEF ShownInv
<1> QED
  BY <1>4, <1>5

(* addCustomFiles deletes the file of a displayed model only if it is the
   user's own and stands for none of the client's: a load lists every file of
   the client again before it turns to the user's. *)
THEOREM ShownAlive == Spec => []ShownIsAlive
<1>1. LoadInit => ShownInv
  <2> SUFFICES ASSUME LoadInit PROVE ShownInv
    OBVIOUS
  <2>1. FolderInv
    BY FolderInit DEF LoadInit
  <2>2. Listed /\ Relisted
    BY DEF LoadInit, Init, EmptyFolder, Listed, Relisted
  <2>3. Earlier /\ ShownIsAlive
    BY DEF LoadInit, Init, Earlier, ShownIsAlive
  <2> QED
    BY <2>1, <2>2, <2>3 DEF ShownInv, ListInv
<1>2. ShownInv => ShownIsAlive
  BY DEF ShownInv
<1> QED
  BY <1>1, <1>2, ShownStep, PTL DEF Spec
-----------------------------------------------------------------------------
(* Which of two files is chosen *)

(* Names of the listfile keep an identifier that it gives them, whoever's file
   stands for them; a user's file has the identifier to itself if the client
   has no such file or this load added it; and by the end of its phase each
   name is settled. *)
Lined(n) == \E l \in Lines : l[2] = n
Casc(n)  == dir.nameMap[n] # None /\ dir.nameMap[n].kind = "casc" /\ dir.nameMap[n].load = load
Users(f) == f # None /\ f.kind = "disk"
Numbered == \A f \in dir.children :
               f.kind = "casc" \/ (f.kind = "disk" /\ Lined(f.name)) => <<f.id, f.name>> \in Lines
NameIds  == /\ \A n \in Names : nameId[n] # NoId => <<nameId[n], n>> \in Lines
            /\ phase = "listfile" => \A l \in Lines \ left : nameId[l[2]] # NoId
            /\ phase = "custom" => \A l \in Lines : nameId[l[2]] # NoId
Owned    == \A f \in dir.children :
               f.kind = "disk" /\ f.id # NoId /\ (f.id \notin Present \/ f.load = load)
                  => Users(dir.idMap[f.id])
Settled  == /\ phase = "listfile" => \A l \in Lines \ left : l[1] \in Present => Casc(l[2])
            /\ phase \in {"custom", "ready"} /\ ~mpq => \A n \in Names :
                  /\ Known(n) /\ (n \notin CustomDir \/ n \in left \/ ~bypass) => Casc(n)
                  /\ n \in CustomDir \ left /\ (bypass \/ ~Known(n)) =>
                        /\ Users(dir.nameMap[n])
                        /\ Known(n) => dir.nameMap[n].load = load
Done     == phase = "ready" => left = {}

ChoiceInv == ListInv /\ Numbered /\ NameIds /\ Owned /\ Settled /\ Done

LEMMA ChoiceInit == Init => ChoiceInv
<1> SUFFICES ASSUME Init PROVE ChoiceInv
    OBVIOUS
<1>1. dir.children = {} /\ nameId = NoNameIds
  BY DEF Init, EmptyFolder
<1>2. FolderInv /\ phase = "none"
  BY FolderInit DEF Init
<1> QED
  BY <1>1, <1>2 DEF ChoiceInv, ListInv, Listed, Relisted, Numbered, NameIds, NoNameIds, Owned, Settled, Done

LEMMA ChoiceGives == ChoiceInv => Chosen
<1> SUFFICES ASSUME ChoiceInv, phase = "ready", ~mpq, NEW n \in Names,
                    NEW f, f = dir.nameMap[n]
             PROVE  /\ n \in CustomDir /\ (bypass \/ ~Known(n)) =>
                          /\ f # None /\ f.kind = "disk"
                          /\ (\E l \in Lines : l[2] = n) => f.id # NoId /\ dir.idMap[f.id].kind = "disk"
                    /\ Known(n) /\ (n \notin CustomDir \/ ~bypass) =>
                          f.kind = "casc" /\ <<f.id, n>> \in Lines /\ f.load = load
    BY DEF Chosen
<1>1. FolderInv /\ dir \in Folders /\ MapsAgree /\ left = {}
  BY DEF ChoiceInv, ListInv, FolderInv, FolderTypeOK, Done
<1>2. f # None => f \in dir.children /\ f.name = n
  BY <1>1 DEF MapsAgree
<1>3. ASSUME n \in CustomDir, bypass \/ ~Known(n)
      PROVE  /\ f # None /\ f.kind = "disk"
             /\ Lined(n) => f.id # NoId /\ dir.idMap[f.id].kind = "disk"
  <2>1. f # None /\ f.kind = "disk" /\ (Known(n) => f.load = load)
    BY <1>1, <1>3 DEF ChoiceInv, Settled, Users
  <2>2. ASSUME Lined(n) PROVE f.id # NoId /\ dir.idMap[f.id].kind = "disk"
    <3>1. <<f.id, n>> \in Lines
      BY <1>2, <2>1, <2>2 DEF ChoiceInv, Numbered
    <3>2. f.id \in Ids /\ f.id # NoId
      BY <3>1, FolderAssumption
    <3>3. ~Known(n) => f.id \notin Present
      BY <3>1 DEF Known
    <3> QED
      BY <1>2, <2>1, <3>2, <3>3 DEF ChoiceInv, Owned, Users
  <2> QED
    BY <2>1, <2>2
<1>4. ASSUME Known(n), n \notin CustomDir \/ ~bypass
      PROVE  f.kind = "casc" /\ <<f.id, n>> \in Lines /\ f.load = load
  BY <1>1, <1>2, <1>4 DEF ChoiceInv, Settled, Casc, Numbered
<1> QED
  BY <1>3, <1>4 DEF Lined

(* A line of the listfile. *)
LEMMA ChoiceLine ==
  ASSUME ChoiceInv, NEW l \in Lines, initFromListfile(l)
  PROVE  Numbered' /\ NameIds' /\ Owned' /\ Settled' /\ Done'
<1> USE FolderAssumption
<1> DEFINE f == New("casc", l[2], l[1])
<1>1. FolderInv /\ dir \in Folders /\ MapsAgree /\ Visits
  BY DEF ChoiceInv, ListInv, FolderInv, FolderTypeOK
<1>2. /\ phase = "listfile" /\ left' = left \ {l} /\ UNCHANGED <<phase, mpq, load, bypass>>
      /\ l[1] \in Ids /\ l[2] \in Names /\ l = <<l[1], l[2]>>
      /\ nameId' = [nameId EXCEPT ![l[2]] = l[1]] /\ nameId \in [Names -> Ids \cup {NoId}]
  BY <1>1 DEF initFromListfile, FolderInv, FolderTypeOK
<1>3. NameIds' /\ Done'
  <2>1. \A n \in Names : nameId'[n] = IF n = l[2] THEN l[1] ELSE nameId[n]
    BY <1>2
  <2>2. \A n \in Names : nameId'[n] # NoId => <<nameId'[n], n>> \in Lines
    BY <1>2, <2>1 DEF ChoiceInv, NameIds
  <2>3. \A m \in Lines \ left' : nameId'[m[2]] # NoId
    BY <1>2, <2>1 DEF ChoiceInv, NameIds
  <2> QED
    BY <1>2, <2>2, <2>3 DEF NameIds, Done
<1>4. CASE l[1] \notin Present
  <2>1. dir' = dir
    BY <1>4 DEF initFromListfile, listLine
  <2>2. Numbered' /\ Owned'
    BY <1>2, <2>1 DEF ChoiceInv, Numbered, Lined, Owned, Users
  <2>3. Settled'
    BY <1>2, <1>4, <2>1 DEF ChoiceInv, Settled, Casc
  <2> QED
    BY <1>3, <2>2, <2>3
<1>5. CASE l[1] \in Present
  <2>1. f \in GameFiles /\ f.kind = "casc" /\ f.name = l[2] /\ f.id = l[1] /\ f.load = load /\ f # None
    BY <1>1, <1>2, Made, Files DEF FolderInv, Stores, Kinds, AnyId
  <2>2. dir' = addChild(dir, f)
    BY <1>5 DEF initFromListfile, listLine
  <2> HIDE DEF f
  <2>3. /\ dir'.children = dir.children \cup {f}
        /\ \A n \in Names : dir'.nameMap[n] = IF n = l[2] THEN f ELSE dir.nameMap[n]
        /\ \A i \in AnyId : dir'.idMap[i] = IF i = l[1] THEN f ELSE dir.idMap[i]
    BY <1>1, <2>1, <2>2, Added
  <2>4. Numbered'
    BY <1>2, <2>1, <2>3 DEF ChoiceInv, Numbered, Lined
  <2>5. Owned'
    <3> SUFFICES ASSUME NEW g \in dir'.children, g.kind = "disk", g.id # NoId,
                        g.id \notin Present \/ g.load = load
                 PROVE  Users(dir'.idMap[g.id])
      BY <1>2 DEF Owned, Users
    <3>1. g \in dir.children /\ g.id \in AnyId
      BY <1>1, <2>1, <2>3, Files DEF Folders
    <3>2. g.load < load /\ g.load \in Nat /\ load \in Nat
      BY <1>1, <1>2, <3>1, Files DEF Visits, FolderInv, FolderTypeOK, Folders
    <3>3. g.id \notin Present
      BY <3>2
    <3> QED
      BY <1>5, <2>3, <3>1, <3>3 DEF ChoiceInv, Owned
  <2>6. Settled'
    <3> SUFFICES ASSUME NEW m \in Lines \ left', m[1] \in Present PROVE Casc(m[2])'
      BY <1>2 DEF Settled
    <3>1. m[2] \in Names
      OBVIOUS
    <3>2. CASE m[2] = l[2]
      BY <1>2, <2>1, <2>3, <3>1, <3>2 DEF Casc
    <3>3. CASE m[2] # l[2]
      BY <1>2, <2>3, <3>1, <3>3 DEF ChoiceInv, Settled, Casc
    <3> QED
      BY <3>2, <3>3
  <2> QED
    BY <1>3, <2>4, <2>5, <2>6
<1> QED
  BY <1>4, <1>5

(* A file of the user's folder. *)
LEMMA ChoiceCustom ==
  ASSUME ChoiceInv, NEW p \in CustomDir, addCustomFiles(p)
  PROVE  Numbered' /\ NameIds' /\ Owned' /\ Settled' /\ Done'
<1> USE FolderAssumption
<1> DEFINE old == dir.nameMap[p]
           f == New("disk", p, originalId(p))
<1>1. FolderInv /\ Listed /\ dir \in Folders /\ MapsAgree
  BY DEF ChoiceInv, ListInv, FolderInv, FolderTypeOK
<1>2. /\ phase = "custom" /\ p \in left /\ left' = left \ {p} /\ p \in Names /\ ~mpq
      /\ UNCHANGED <<phase, mpq, load, bypass, nameId>> /\ load \in 1..MaxLoads
  BY <1>1 DEF addCustomFiles, FolderInv, Stores
<1>3. NameIds' /\ Done'
  BY <1>2 DEF ChoiceInv, NameIds, Done
<1>4. old # None => old \in dir.children /\ old \in GameFiles /\ old.name = p
  BY <1>1, <1>2 DEF MapsAgree, Folders
<1>5. originalId(p) = IF old = None THEN nameId[p] ELSE old.id
  BY DEF originalId
<1>6. originalId(p) \in AnyId
  BY <1>1, <1>2, <1>4, <1>5, Files DEF FolderInv, FolderTypeOK, AnyId
<1>7. f \in GameFiles /\ f.kind = "disk" /\ f.name = p /\ f.id = originalId(p) /\ f.load = load /\ f # None
  BY <1>2, <1>6, Made, Files DEF Kinds
\* Either stands for a file of the listfile if p is in it.
<1>8. Lined(p) => <<originalId(p), p>> \in Lines
  <2>1. CASE old = None
    BY <1>2, <1>5, <2>1 DEF ChoiceInv, NameIds, Lined
  <2>2. CASE old # None
    <3>1. old.kind \in {"disk", "casc"}
      BY <1>1, <1>2, <1>4, <2>2, NoneAssumption DEF Listed
    <3> QED
      BY <1>4, <1>5, <2>2, <3>1 DEF ChoiceInv, Numbered
  <2> QED
    BY <2>1, <2>2
<1>9. Known(p) => Casc(p)
  BY <1>2 DEF ChoiceInv, Settled
<1>10. CASE dir' = dir
  <2>1. old # None /\ ~bypass
    <3>1. dir.nameMap[p] # f
      <4> HIDE DEF f
      <4> QED
        BY <1>1, <1>2, <1>7 DEF FolderInv, Visits, MapsAgree
    <3>2. addChild(dir, f).nameMap[p] = f
      <4> HIDE DEF f
      <4> QED
        BY <1>1, <1>2, <1>7, Added
    <3>3. old # None => addChild(removeChild(dir, old), f).nameMap[p] = f
      <4> HIDE DEF f, old
      <4>1. old # None => removeChild(dir, old) \in Folders
        BY <1>1, <1>4, Removed
      <4> QED
        BY <1>2, <1>7, <4>1, Added
    <3> QED
      BY <1>10, <3>1, <3>2, <3>3 DEF addCustomFiles
  <2>2. ~Known(p) => old.kind = "disk"
    BY <1>1, <1>2, <1>4, <2>1, NoneAssumption DEF Listed
  <2>3. Numbered' /\ Owned'
    BY <1>2, <1>10 DEF ChoiceInv, Numbered, Lined, Owned, Users
  <2>4. Settled'
    <3> SUFFICES ASSUME NEW n \in Names
                 PROVE  /\ Known(n) /\ (n \notin CustomDir \/ n \in left' \/ ~bypass) => Casc(n)
                        /\ n \in CustomDir \ left' /\ ~Known(n) => Users(dir.nameMap[n])
      BY <1>2, <1>10, <2>1 DEF Settled, Casc, Users, Known
    <3>1. CASE n = p
      BY <1>9, <2>1, <2>2, <3>1 DEF Users
    <3>2. CASE n # p
      BY <1>2, <2>1, <3>2 DEF ChoiceInv, Settled
    <3> QED
      BY <3>1, <3>2
  <2> QED
    BY <1>3, <2>3, <2>4
<1>11. ASSUME old = None \/ bypass,
              dir'.children \subseteq dir.children \cup {f},
              \A n \in Names : dir'.nameMap[n] = IF n = p THEN f ELSE dir.nameMap[n],
              \A i \in AnyId : dir'.idMap[i] = IF i = f.id THEN f ELSE dir.idMap[i]
       PROVE  Numbered' /\ Owned' /\ Settled'
  <2> HIDE DEF f
  <2>1. Numbered'
    BY <1>2, <1>7, <1>8, <1>11 DEF ChoiceInv, Numbered, Lined
  <2>2. Owned'
    <3> SUFFICES ASSUME NEW g \in dir'.children, g.kind = "disk", g.id # NoId,
                        g.id \notin Present \/ g.load = load
                 PROVE  Users(dir'.idMap[g.id])
      BY <1>2 DEF Owned, Users
    <3>1. g.id \in AnyId
      BY <1>1, <1>7, <1>11, Files DEF Folders
    <3>2. CASE g.id = f.id
      BY <1>7, <1>11, <3>1, <3>2 DEF Users
    <3>3. CASE g.id # f.id
      BY <1>11, <3>1, <3>3 DEF ChoiceInv, Owned
    <3> QED
      BY <3>2, <3>3
  <2>3. Settled'
    <3> SUFFICES ASSUME NEW n \in Names
                 PROVE  /\ Known(n) /\ (n \notin CustomDir \/ n \in left' \/ ~bypass) => Casc(n)'
                        /\ n \in CustomDir \ left' /\ (bypass \/ ~Known(n)) =>
                              /\ Users(dir'.nameMap[n])
                              /\ Known(n) => dir'.nameMap[n].load = load
      BY <1>2 DEF Settled, Casc, Users, Known
    <3>1. CASE n = p
      <4>1. Known(p) => bypass
        BY <1>9, <1>11 DEF Casc
      <4> QED
        BY <1>2, <1>7, <1>11, <3>1, <4>1 DEF Users
    <3>2. CASE n # p
      BY <1>2, <1>11, <3>2 DEF ChoiceInv, Settled, Casc
    <3> QED
      BY <3>1, <3>2
  <2> QED
    BY <2>1, <2>2, <2>3
<1>12. CASE old = None /\ dir' = addChild(dir, f)
  <2> HIDE DEF f, old
  <2>1. /\ dir'.children \subseteq dir.children \cup {f}
        /\ \A n \in Names : dir'.nameMap[n] = IF n = p THEN f ELSE dir.nameMap[n]
        /\ \A i \in AnyId : dir'.idMap[i] = IF i = f.id THEN f ELSE dir.idMap[i]
    BY <1>1, <1>7, <1>12, Added
  <2> QED
    BY <1>3, <1>11, <1>12, <2>1
<1>13. CASE old # None /\ bypass /\ dir' = addChild(removeChild(dir, old), f)
  <2>1. f.id = old.id
    BY <1>5, <1>7, <1>13
  <2> HIDE DEF f, old
  <2>2. /\ removeChild(dir, old) \in Folders
        /\ removeChild(dir, old).children \subseteq dir.children
        /\ \A n \in Names : removeChild(dir, old).nameMap[n] = IF n = p THEN None ELSE dir.nameMap[n]
        /\ \A i \in AnyId : removeChild(dir, old).idMap[i] = IF i = f.id THEN None ELSE dir.idMap[i]
    BY <1>1, <1>4, <1>13, <2>1, Removed
  <2>3. /\ dir'.children \subseteq dir.children \cup {f}
        /\ \A n \in Names : dir'.nameMap[n] = IF n = p THEN f ELSE dir.nameMap[n]
        /\ \A i \in AnyId : dir'.idMap[i] = IF i = f.id THEN f ELSE dir.idMap[i]
    BY <1>7, <1>13, <2>2, Added
  <2> QED
    BY <1>3, <1>11, <1>13, <2>3
<1> QED
  BY <1>10, <1>12, <1>13 DEF addCustomFiles

(* Requests change no entry of a file that is listed. *)
LEMMA ChoiceRequest ==
  ASSUME ChoiceInv, \/ \E i \in Ids : getFileById(i)
                    \/ \E n \in Names : getFileByName(n)
  PROVE  Numbered' /\ NameIds' /\ Owned' /\ Settled' /\ Done'
<1> USE FolderAssumption
<1>1. /\ FolderInv /\ dir \in Folders /\ MapsAgree
      /\ phase = "ready" /\ UNCHANGED <<phase, mpq, load, left, bypass, nameId>>
  BY DEF ChoiceInv, ListInv, FolderInv, FolderTypeOK, getFileById, getFileByName
<1>2. NameIds' /\ Done'
  BY <1>1 DEF ChoiceInv, NameIds, Done
<1>3. CASE dir' = dir
  BY <1>1, <1>2, <1>3 DEF ChoiceInv, Numbered, Lined, Owned, Settled, Casc, Users
<1>4. ASSUME NEW f \in GameFiles, dir' = addChild(dir, f), f.kind \in {"unk", "mpq"},
             f.id # NoId => dir.idMap[f.id] = None,
             f.name \in Names => mpq
      PROVE  Numbered' /\ Owned' /\ Settled'
  <2>1. /\ dir'.children = dir.children \cup {f}
        /\ \A n \in Names : dir'.nameMap[n] = IF n = f.name THEN f ELSE dir.nameMap[n]
        /\ \A i \in AnyId : dir'.idMap[i] = IF i = f.id THEN f ELSE dir.idMap[i]
    BY <1>1, <1>4, Added
  <2>2. Numbered'
    BY <1>4, <2>1 DEF ChoiceInv, Numbered, Lined
  <2>3. Owned'
    <3> SUFFICES ASSUME NEW g \in dir'.children, g.kind = "disk", g.id # NoId,
                        g.id \notin Present \/ g.load = load
                 PROVE  Users(dir'.idMap[g.id])
      BY <1>1 DEF Owned, Users
    <3>1. g \in dir.children /\ g.id \in AnyId
      BY <1>1, <1>4, <2>1, Files DEF Folders
    <3>2. g.id # f.id
      BY <1>1, <1>4, <3>1 DEF MapsAgree
    <3> QED
      BY <2>1, <3>1, <3>2 DEF ChoiceInv, Owned
  <2>4. Settled'
    BY <1>1, <1>4, <2>1 DEF ChoiceInv, Settled, Casc, Users
  <2> QED
    BY <2>2, <2>3, <2>4
<1>5. ASSUME NEW i \in Ids, getFileById(i), dir' # dir PROVE Numbered' /\ Owned' /\ Settled'
  <2> DEFINE f == byId(i)
  <2>1. f # None /\ f \notin dir.children /\ dir' = addChild(dir, f)
    BY <1>5 DEF getFileById, keep
  <2>2. f = New("unk", None, i) /\ f \in GameFiles /\ dir.idMap[i] = None
    BY <1>1, <2>1, NewById
  <2>3. f.kind = "unk" /\ f.id = i /\ f.name \notin Names
    BY <2>2, NoneAssumption DEF New
  <2> HIDE DEF f
  <2> QED
    BY <1>4, <2>1, <2>2, <2>3
<1>6. ASSUME NEW n \in Names, getFileByName(n), dir' # dir PROVE Numbered' /\ Owned' /\ Settled'
  <2> DEFINE f == byName(n)
  <2>1. f # None /\ f \notin dir.children /\ dir' = addChild(dir, f)
    BY <1>6 DEF getFileByName, keep
  <2>2. f = New("mpq", n, NoId) /\ f \in GameFiles /\ dir.nameMap[n] = None
    BY <1>1, <2>1, NewByName
  <2>3. f.kind = "mpq" /\ f.id = NoId
    BY <2>2 DEF New
  <2>4. mpq
    BY <2>1, <2>2, <1>1 DEF byName, FolderInv, Stores
  <2> HIDE DEF f
  <2> QED
    BY <1>4, <2>1, <2>2, <2>3, <2>4
<1> QED
  BY <1>2, <1>3, <1>5, <1>6

LEMMA ChoiceStep == ChoiceInv /\ [FolderNext]_fvars => ChoiceInv'
<1> SUFFICES ASSUME ChoiceInv, [FolderNext]_fvars
             PROVE  Numbered' /\ NameIds' /\ Owned' /\ Settled' /\ Done'
  BY ListStep DEF ChoiceInv
<1> USE FolderAssumption
<1>1. FolderInv /\ Listed /\ dir \in Folders /\ MapsAgree /\ Stores /\ load \in Nat
  BY DEF ChoiceInv, ListInv, FolderInv, FolderTypeOK
<1>2. CASE LoadWoW
  <2>1. /\ phase' = "listfile" /\ left' = Lines /\ load' = load + 1 /\ ~mpq'
        /\ \/ dir' = EmptyFolder /\ nameId' = NoNameIds
           \/ dir' = dir /\ nameId' = nameId
    BY <1>2 DEF LoadWoW
  <2>2. EmptyFolder.children = {} /\ \A n \in Names : NoNameIds[n] = NoId
    BY DEF EmptyFolder, NoNameIds
  <2>3. \A f \in dir.children : f.load \in Nat /\ f.load # load'
    BY <1>1, <2>1, Files DEF Folders, FolderInv, Dated
  <2>4. Numbered' /\ Owned'
    BY <2>1, <2>2, <2>3 DEF ChoiceInv, Numbered, Lined, Owned, Users
  <2>5. NameIds' /\ Settled' /\ Done'
    BY <2>1, <2>2 DEF ChoiceInv, NameIds, Settled, Done
  <2> QED
    BY <2>4, <2>5
<1>3. CASE LoadWoWFromMpq
  <2>1. phase' = "archives" /\ dir' = EmptyFolder /\ nameId' = NoNameIds
    BY <1>3 DEF LoadWoWFromMpq
  <2>2. EmptyFolder.children = {} /\ \A n \in Names : NoNameIds[n] = NoId
    BY DEF EmptyFolder, NoNameIds
  <2> QED
    BY <2>1, <2>2 DEF Numbered, NameIds, Owned, Settled, Done
<1>4. CASE ListfileRead
  <2>1. /\ phase = "listfile" /\ left = {} /\ phase' = "custom" /\ left' = CustomDir
        /\ UNCHANGED <<dir, nameId, mpq, load, bypass>>
    BY <1>4 DEF ListfileRead
  <2>2. Numbered' /\ Owned' /\ Done'
    BY <2>1 DEF ChoiceInv, Numbered, Lined, Owned, Users, Done
  <2>3. NameIds'
    BY <2>1 DEF ChoiceInv, NameIds
  <2>4. Settled'
    BY <2>1 DEF ChoiceInv, Settled, Casc, Users, Known
  <2> QED
    BY <2>2, <2>3, <2>4
<1>5. CASE Ready
  <2>1. /\ phase \in {"custom", "archives"} /\ left = {} /\ phase' = "ready"
        /\ UNCHANGED <<dir, nameId, mpq, load, bypass, left>>
    BY <1>5 DEF Ready
  <2>2. Numbered' /\ Owned' /\ Done' /\ NameIds'
    BY <2>1 DEF ChoiceInv, Numbered, Lined, Owned, Users, Done, NameIds
  <2>3. Settled'
    BY <1>1, <2>1 DEF Stores, ChoiceInv, Settled, Casc, Users
  <2> QED
    BY <2>2, <2>3
<1>6. ASSUME NEW n \in MpqListed, initMpq(n)
      PROVE  Numbered' /\ NameIds' /\ Owned' /\ Settled' /\ Done'
  <2> DEFINE f == New("mpq", n, NoId)
  <2>1. /\ phase = "archives" /\ UNCHANGED <<nameId, phase, mpq, load>> /\ n \in Names
        /\ dir' = addChild(dir, f)
    BY <1>6 DEF initMpq
  <2>2. f \in GameFiles /\ f.kind = "mpq" /\ f.id = NoId
    BY <1>1, <2>1, Made DEF Stores, FolderInv, FolderTypeOK, Kinds, AnyId
  <2> HIDE DEF f
  <2>3. /\ dir'.children = dir.children \cup {f}
        /\ \A i \in AnyId : dir'.idMap[i] = IF i = NoId THEN f ELSE dir.idMap[i]
    BY <1>1, <2>1, <2>2, Added
  <2>4. Numbered'
    BY <2>2, <2>3 DEF ChoiceInv, Numbered, Lined
  <2>5. Owned'
    <3>1. \A g \in dir.children : g.id \in AnyId
      BY <1>1, Files DEF Folders
    <3> QED
      BY <2>1, <2>2, <2>3, <3>1 DEF ChoiceInv, Owned, Users
  <2> QED
    BY <2>1, <2>4, <2>5 DEF ChoiceInv, NameIds, Settled, Done
<1>7. CASE UNCHANGED fvars
  BY <1>7 DEF fvars, ChoiceInv, Numbered, NameIds, Lined, Owned, Settled, Casc, Users, Done
<1> QED
  BY <1>2, <1>3, <1>4, <1>5, <1>6, <1>7, ChoiceLine, ChoiceCustom, ChoiceRequest
  DEF FolderNext, LoadClient

(* addCustomFiles: whatever the listfile repeats and in whatever order its
   lines and the user's files are visited, a loaded CASC client answers each
   name and identifier with the user's file where the policy prefers it, or
   the client has none, and with the client's file elsewhere. *)
THEOREM Choice == FolderSpec => []Chosen
  BY ChoiceInit, ChoiceStep, ChoiceGives, PTL DEF FolderSpec

(***************************************************************************)
(* What a model's load opens, reads and closes, for any content of any     *)
(* file, any listfile and any files of the user's.                         *)
(***************************************************************************)

(* What is asked for is there, has the identifier or the name it is asked by,
   and came with this load of the client or an earlier one. *)
LEMMA Answered ==
  ASSUME FolderInv, phase = "ready", NEW k, NEW f, f = Answer(k), f # None
  PROVE  /\ f \in GameFiles /\ f.load \in Nat /\ f.load <= load
         /\ (k \in Ids /\ f.id = k) \/ (k \in Names /\ f.name = k)
<1>1. CASE k \in Ids
  <2>1. f = byId(k) /\ load \in 1..MaxLoads
    BY <1>1 DEF Answer, FolderInv, Stores
  <2>2. CASE byId(k) \in dir.children
    <3>1. dir.idMap[k] # None => dir.idMap[k].id = k
      BY <1>1 DEF FolderInv, MapsAgree
    <3>2. f = dir.idMap[k] \/ f = New("unk", None, k)
      BY <2>1 DEF byId
    <3>3. New("unk", None, k).id = k
      BY DEF New
    <3> QED
      BY <1>1, <2>1, <2>2, <3>1, <3>2, <3>3, Files DEF FolderInv, FolderTypeOK, Folders, Dated
  <2>3. CASE byId(k) = New("unk", None, k) /\ byId(k) \in GameFiles
    BY <1>1, <2>1, <2>3 DEF New
  <2> QED
    BY <1>1, <2>1, <2>2, <2>3, NewById
<1>2. CASE k \in Names /\ k \notin Ids
  <2>1. f = byName(k) /\ load \in 1..MaxLoads
    BY <1>2 DEF Answer, FolderInv, Stores
  <2>2. CASE byName(k) \in dir.children
    <3>1. dir.nameMap[k] # None => dir.nameMap[k].name = k
      BY <1>2 DEF FolderInv, MapsAgree
    <3>2. f = dir.nameMap[k] \/ f = New("mpq", k, NoId)
      BY <2>1 DEF byName
    <3>3. New("mpq", k, NoId).name = k
      BY DEF New
    <3> QED
      BY <1>2, <2>1, <2>2, <3>1, <3>2, <3>3, Files DEF FolderInv, FolderTypeOK, Folders, Dated
  <2>3. CASE byName(k) = New("mpq", k, NoId) /\ byName(k) \in GameFiles
    BY <1>2, <2>1, <2>3 DEF New
  <2> QED
    BY <1>2, <2>1, <2>2, <2>3, NewByName
<1> QED
  BY <1>1, <1>2 DEF Answer

(* A request changes the answer to none. *)
LEMMA AnswersStay ==
  ASSUME FolderInv, phase = "ready", NEW k, Request(k)
  PROVE  /\ \A j : Answer(j)' = Answer(j)
         /\ UNCHANGED <<nameId, phase, mpq, load, openable, archives>>
<1> USE FolderAssumption
<1>1. dir \in Folders /\ None \notin Names
  BY NoneAssumption DEF FolderInv, FolderTypeOK
<1>2. UNCHANGED <<nameId, phase, mpq, load, openable, archives>>
  BY DEF Request, getFileById, getFileByName, fvars
<1>3. CASE dir' = dir
  BY <1>2, <1>3 DEF Answer, byId, byName, New
<1>4. CASE dir' # dir
  <2>1. \E f \in GameFiles : dir' = addChild(dir, f) /\
           \/ k \in Ids /\ f = New("unk", None, k) /\ f = byId(k) /\ dir.idMap[k] = None
           \/ k \in Names /\ f = New("mpq", k, NoId) /\ f = byName(k) /\ dir.nameMap[k] = None
    <3>1. k \in Ids \/ (k \in Names /\ k \notin Ids)
      BY <1>4 DEF Request, fvars
    <3>2. CASE k \in Ids
      <4>1. dir' = addChild(dir, byId(k)) /\ byId(k) # None /\ byId(k) \notin dir.children
        BY <1>4, <3>2 DEF Request, getFileById, keep
      <4>2. byId(k) = New("unk", None, k) /\ byId(k) \in GameFiles /\ dir.idMap[k] = None
        BY <3>2, <4>1, NewById
      <4> QED
        BY <3>2, <4>1, <4>2
    <3>3. CASE k \in Names /\ k \notin Ids
      <4>1. dir' = addChild(dir, byName(k)) /\ byName(k) # None /\ byName(k) \notin dir.children
        BY <1>4, <3>3 DEF Request, getFileByName, keep
      <4>2. byName(k) = New("mpq", k, NoId) /\ byName(k) \in GameFiles /\ dir.nameMap[k] = None
        BY <3>3, <4>1, NewByName
      <4> QED
        BY <3>3, <4>1, <4>2
    <3> QED
      BY <3>1, <3>2, <3>3
  <2>2. PICK f \in GameFiles : dir' = addChild(dir, f) /\
           \/ k \in Ids /\ f = New("unk", None, k) /\ f = byId(k) /\ dir.idMap[k] = None
           \/ k \in Names /\ f = New("mpq", k, NoId) /\ f = byName(k) /\ dir.nameMap[k] = None
    BY <2>1
  <2>3. /\ \A n \in Names : dir'.nameMap[n] = IF n = f.name THEN f ELSE dir.nameMap[n]
        /\ \A i \in AnyId : dir'.idMap[i] = IF i = f.id THEN f ELSE dir.idMap[i]
    BY <1>1, <2>2, Added
  <2>4. \A a, b, c : New(a, b, c)' = New(a, b, c)
    BY <1>2 DEF New
  <2>5. \/ k \in Ids /\ f.name = None /\ f.id = k
        \/ k \in Names /\ f.name = k /\ f.id = NoId
    BY <2>2 DEF New
  <2>6. f # None
    BY Files
  <2>7. \A i \in Ids : byId(i)' = byId(i)
    BY <1>1, <1>2, <2>2, <2>3, <2>4, <2>5, <2>6 DEF byId, AnyId
  <2>8. \A n \in Names : byName(n)' = byName(n)
    BY <1>1, <1>2, <2>2, <2>3, <2>4, <2>5, <2>6 DEF byName
  <2>9. ASSUME NEW j PROVE Answer(j)' = Answer(j)
    <3>1. CASE j \in Ids
      BY <2>7, <3>1 DEF Answer
    <3>2. CASE j \notin Ids /\ j \in Names
      BY <2>8, <3>2 DEF Answer
    <3>3. CASE j \notin Ids /\ j \notin Names
      BY <3>3 DEF Answer
    <3> QED
      BY <3>1, <3>2, <3>3
  <2> QED
    BY <1>2, <2>9
<1> QED
  BY <1>2, <1>3, <1>4

(* What a file holds depends on the client only. *)
LEMMA ContentStays ==
  ASSUME UNCHANGED <<nameId, mpq, openable, archives>>
  PROVE  /\ \A f : KeyOf(f)' = KeyOf(f) /\ Of(f)' = Of(f) /\ Opens(f)' = Opens(f) /\ Chunked(f)' = Chunked(f)
         /\ \A f, c : Has(f, c)' = Has(f, c)
  BY DEF KeyOf, StoredAs, Of, Opens, Chunked, Has

(* Some key stands for the content of each file that can be answered. *)
Real(f) == f \in GameFiles /\ KeyOf(f) \in Keys /\ Holds(f, KeyOf(f))

LEMMA Keyed ==
  ASSUME ChoiceInv, NEW f \in GameFiles, f.id # NoId \/ f.name \in Names
  PROVE  Real(f)
<1> USE FolderAssumption
<1>1. /\ f.id \in Ids \cup {NoId} /\ f.name \in Names \cup {None} /\ openable \subseteq Ids
      /\ \A n \in Names : nameId[n] # NoId => <<nameId[n], n>> \in Lines
      /\ nameId \in [Names -> Ids \cup {NoId}]
  BY Files DEF AnyId, ChoiceInv, NameIds, ListInv, FolderInv, FolderTypeOK
<1>2. CASE f.kind = "casc" /\ StoredAs(f) \in openable
  <2>1. CASE StoredAs(f) = f.id
    BY <1>1, <1>2, <2>1 DEF Real, KeyOf, Holds, Keys
  <2>2. CASE StoredAs(f) = nameId[f.name] /\ f.name \in Names
    BY <1>1, <1>2, <2>2 DEF Real, KeyOf, Holds, Keys
  <2> QED
    BY <1>2, <2>1, <2>2 DEF StoredAs
<1>3. CASE ~(f.kind = "casc" /\ StoredAs(f) \in openable)
  BY <1>1, <1>3 DEF Real, KeyOf, Holds, Keys
<1> QED
  BY <1>2, <1>3

LEMMA AnswerReal ==
  ASSUME ChoiceInv, phase = "ready", NEW k, Answer(k) # None PROVE Real(Answer(k))
<1> DEFINE f == Answer(k)
<1> HIDE DEF f
<1>1. f \in GameFiles /\ ((k \in Ids /\ f.id = k) \/ (k \in Names /\ f.name = k))
  BY Answered DEF ChoiceInv, ListInv, f
<1>2. f.id # NoId \/ f.name \in Names
  BY <1>1, FolderAssumption
<1> QED
  BY <1>1, <1>2, Keyed DEF f
-----------------------------------------------------------------------------
(* Open files *)

LEMMA Contents ==
  \A k \in Keys : /\ Data[k].chunks \subseteq ChunkNames
                  /\ Data[k].skel \in Keys \cup {NoKey} /\ Data[k].parent \in Keys \cup {NoKey}
                  /\ \A x \in Data[k].anims : x.file \in Keys \cup {NoKey}
<1> SUFFICES ASSUME NEW k \in Keys
             PROVE  /\ Data[k].chunks \subseteq ChunkNames
                    /\ Data[k].skel \in Keys \cup {NoKey} /\ Data[k].parent \in Keys \cup {NoKey}
                    /\ \A x \in Data[k].anims : x.file \in Keys \cup {NoKey}
  OBVIOUS
<1>1. /\ Data[k].anims \subseteq [anim : Nat, sub : Nat, file : Keys \cup {NoKey}]
      /\ [Data[k] EXCEPT !.anims = {}] \in [chunks : SUBSET ChunkNames,
                            body : {"short", "magic", "cut", "whole"}, skel : Keys \cup {NoKey},
                            parent : Keys \cup {NoKey}, skin : Keys \cup {NoKey},
                            anims : {{}}, animated : BOOLEAN]
  BY DataAssumption
<1> DEFINE e == [Data[k] EXCEPT !.anims = {}]
<1>2. e.chunks \subseteq ChunkNames /\ e.skel \in Keys \cup {NoKey} /\ e.parent \in Keys \cup {NoKey}
  <2> HIDE DEF e
  <2> QED
    BY <1>1 DEF e
<1>3. DOMAIN e = {"chunks", "body", "skel", "parent", "skin", "anims", "animated"}
  BY <1>1
<1>4. DOMAIN e = DOMAIN Data[k]
  OBVIOUS
<1>5. e.chunks = Data[k].chunks /\ e.skel = Data[k].skel /\ e.parent = Data[k].parent
  BY <1>3, <1>4
<1> QED
  BY <1>1, <1>2, <1>5

(* o is a function from open files to chunks. *)
Spots == ChunkNames \cup {"all"}
Table(o) == DOMAIN o \subseteq GameFiles /\ o \in [DOMAIN o -> Spots]

LEMMA FileOpened ==
  ASSUME NEW o, Table(o), NEW f \in GameFiles, KeyOf(f) \in Keys, NEW p, p = Open(o, f)
  PROVE  /\ Table(p) /\ DOMAIN p = DOMAIN o \cup (IF Opens(f) THEN {f} ELSE {})
         /\ \A g \in DOMAIN o : p[g] = o[g]
         /\ f \in DOMAIN p /\ f \notin DOMAIN o /\ ~Chunked(f) => p[f] = "all"
<1>1. CASE f \in DOMAIN o \/ ~Opens(f)
  BY <1>1 DEF Open
<1>2. CASE f \notin DOMAIN o /\ Opens(f)
  <2>1. p = [g \in DOMAIN o \cup {f} |-> IF g = f THEN FirstChunk(f) ELSE o[g]]
    BY <1>2 DEF Open, With
  <2>2. FirstChunk(f) \in Spots /\ (~Chunked(f) => FirstChunk(f) = "all")
    BY Contents DEF FirstChunk, Chunked, Of, Spots
  <2> QED
    BY <1>2, <2>1, <2>2 DEF Table
<1> QED
  BY <1>1, <1>2

LEMMA FilesClosed ==
  ASSUME NEW o, Table(o), NEW F, NEW p, p = Close(o, F)
  PROVE  Table(p) /\ DOMAIN p = DOMAIN o \ F /\ \A g \in DOMAIN p : p[g] = o[g]
  BY DEF Close, Table

LEMMA ChunkSet ==
  ASSUME NEW o, Table(o), NEW f, NEW c \in ChunkNames, NEW p, p = setChunk(o, f, c)
  PROVE  /\ Table(p) /\ DOMAIN p = DOMAIN o
         /\ \A g \in DOMAIN o : g # f => p[g] = o[g]
         /\ f \in DOMAIN o => p[f] = IF Has(f, c) THEN c ELSE o[f]
  BY DEF setChunk, Table, Spots
-----------------------------------------------------------------------------
(* What is answered is listed anew *)

(* A file of a CASC client that is answered came with the last load, so what
   it holds has not changed since it was made. *)
OnlyMpq == mpq => \A f \in dir.children : f.kind = "mpq"
CascIn  == \A f \in dir.children : f.kind = "casc" => f.id \in Present
Current == /\ phase = "listfile" => \A l \in Lines \ left : l[1] \in Present =>
                 dir.idMap[l[1]] # None /\ dir.idMap[l[1]].load = load
           /\ phase \in {"custom", "ready"} /\ ~mpq => \A i \in Ids :
                 dir.idMap[i] # None /\ dir.idMap[i].kind = "casc" => dir.idMap[i].load = load
FreshInv == ChoiceInv /\ OnlyMpq /\ CascIn /\ Current

LEMMA FreshInit == Init => FreshInv
<1> SUFFICES ASSUME Init PROVE OnlyMpq /\ CascIn /\ Current
  BY ChoiceInit DEF FreshInv
<1> QED
  BY DEF Init, EmptyFolder, OnlyMpq, CascIn, Current

LEMMA FreshRequest ==
  ASSUME FreshInv, \/ \E i \in Ids : getFileById(i)
                   \/ \E n \in Names : getFileByName(n)
  PROVE  OnlyMpq' /\ CascIn' /\ Current'
<1> USE FolderAssumption
<1>1. /\ FolderInv /\ dir \in Folders /\ phase = "ready" /\ UNCHANGED <<phase, mpq, load, left>>
      /\ ~mpq => archives = {}
  BY DEF FreshInv, ChoiceInv, ListInv, FolderInv, FolderTypeOK, Stores, getFileById, getFileByName
<1>2. CASE dir' = dir
  BY <1>1, <1>2 DEF FreshInv, OnlyMpq, CascIn, Current
<1>3. CASE dir' # dir
  <2>1. \E f \in GameFiles : /\ dir' = addChild(dir, f)
                             /\ \/ f.kind = "unk" /\ ~mpq
                                \/ f.kind = "mpq" /\ f.id = NoId /\ mpq
    <3>1. CASE \E i \in Ids : getFileById(i)
      <4>1. PICK i \in Ids : getFileById(i)
        BY <3>1
      <4>2. dir' = addChild(dir, byId(i)) /\ byId(i) # None /\ byId(i) \notin dir.children
        BY <1>3, <4>1 DEF getFileById, keep
      <4>3. byId(i) = New("unk", None, i) /\ byId(i) \in GameFiles /\ dir.idMap[i] = None
        BY <1>1, <4>2, NewById
      <4>4. ~mpq
        BY <4>2, <4>3 DEF byId
      <4> QED
        BY <4>2, <4>3, <4>4 DEF New
    <3>2. CASE \E n \in Names : getFileByName(n)
      <4>1. PICK n \in Names : getFileByName(n)
        BY <3>2
      <4>2. dir' = addChild(dir, byName(n)) /\ byName(n) # None /\ byName(n) \notin dir.children
        BY <1>3, <4>1 DEF getFileByName, keep
      <4>3. byName(n) = New("mpq", n, NoId) /\ byName(n) \in GameFiles /\ dir.nameMap[n] = None
        BY <1>1, <4>2, NewByName
      <4>4. mpq
        BY <1>1, <4>2, <4>3 DEF byName
      <4> QED
        BY <4>2, <4>3, <4>4 DEF New
    <3> QED
      BY <3>1, <3>2
  <2>2. PICK f \in GameFiles : /\ dir' = addChild(dir, f)
                               /\ \/ f.kind = "unk" /\ ~mpq
                                  \/ f.kind = "mpq" /\ f.id = NoId /\ mpq
    BY <2>1
  <2>3. /\ dir'.children = dir.children \cup {f}
        /\ \A i \in AnyId : dir'.idMap[i] = IF i = f.id THEN f ELSE dir.idMap[i]
    BY <1>1, <2>2, Added
  <2>4. OnlyMpq' /\ CascIn'
    BY <1>1, <2>2, <2>3 DEF FreshInv, OnlyMpq, CascIn
  <2>5. Current'
    BY <1>1, <2>2, <2>3 DEF FreshInv, Current, AnyId
  <2> QED
    BY <2>4, <2>5
<1> QED
  BY <1>2, <1>3

LEMMA FreshCustom ==
  ASSUME FreshInv, NEW p \in CustomDir, addCustomFiles(p) PROVE OnlyMpq' /\ CascIn' /\ Current'
<1> USE FolderAssumption
<1> DEFINE old == dir.nameMap[p]
           f == New("disk", p, originalId(p))
<1>1. /\ FolderInv /\ dir \in Folders /\ MapsAgree /\ phase = "custom" /\ ~mpq /\ p \in Names
      /\ UNCHANGED <<phase, mpq, load>> /\ load \in 1..MaxLoads
  BY DEF FreshInv, ChoiceInv, ListInv, FolderInv, FolderTypeOK, Stores, addCustomFiles
<1>2. old # None => old \in dir.children /\ old \in GameFiles
  BY <1>1 DEF MapsAgree, Folders
<1>3. originalId(p) \in AnyId
  BY <1>1, <1>2, Files DEF originalId, FolderInv, FolderTypeOK, AnyId
<1>4. f \in GameFiles /\ f.kind = "disk" /\ f.id = originalId(p)
  BY <1>1, <1>3, Made DEF Kinds
<1>5. \/ dir' = dir
      \/ old = None /\ dir' = addChild(dir, f)
      \/ old # None /\ dir' = addChild(removeChild(dir, old), f)
  BY DEF addCustomFiles
<1> HIDE DEF f, old
<1>6. OnlyMpq'
  BY <1>1 DEF OnlyMpq
<1>7. CASE dir' = dir
  BY <1>1, <1>6, <1>7 DEF FreshInv, CascIn, Current
<1>8. CASE old = None /\ dir' = addChild(dir, f)
  <2>1. /\ dir'.children = dir.children \cup {f}
        /\ \A i \in AnyId : dir'.idMap[i] = IF i = f.id THEN f ELSE dir.idMap[i]
    BY <1>1, <1>4, <1>8, Added
  <2> QED
    BY <1>1, <1>4, <1>6, <2>1 DEF FreshInv, CascIn, Current, AnyId
<1>9. CASE old # None /\ dir' = addChild(removeChild(dir, old), f)
  <2>1. /\ removeChild(dir, old) \in Folders
        /\ removeChild(dir, old).children = dir.children \ {old}
        /\ \A i \in AnyId : removeChild(dir, old).idMap[i] = IF i = old.id THEN None ELSE dir.idMap[i]
    BY <1>1, <1>2, <1>9, Removed
  <2>2. /\ dir'.children = (dir.children \ {old}) \cup {f}
        /\ \A i \in AnyId : dir'.idMap[i] = IF i = f.id THEN f ELSE removeChild(dir, old).idMap[i]
    BY <1>4, <1>9, <2>1, Added
  <2>3. \A i \in Ids : dir'.idMap[i] \in {f, None, dir.idMap[i]}
    BY <2>1, <2>2 DEF AnyId
  <2>4. CascIn'
    BY <1>4, <2>2 DEF FreshInv, CascIn
  <2>5. Current'
    BY <1>1, <1>4, <2>3 DEF FreshInv, Current
  <2> QED
    BY <1>6, <2>4, <2>5
<1> QED
  BY <1>5, <1>7, <1>8, <1>9

LEMMA FreshStep == FreshInv /\ [FolderNext]_fvars => FreshInv'
<1> SUFFICES ASSUME FreshInv, [FolderNext]_fvars PROVE OnlyMpq' /\ CascIn' /\ Current'
  BY ChoiceStep DEF FreshInv
<1> USE FolderAssumption
<1>1. FolderInv /\ dir \in Folders /\ MapsAgree /\ Stores /\ Numbered
  BY DEF FreshInv, ChoiceInv, ListInv, FolderInv, FolderTypeOK
<1>2. CASE LoadWoW
  <2>1. /\ phase' = "listfile" /\ left' = Lines /\ ~mpq'
        /\ dir' = EmptyFolder \/ dir' = dir
    BY <1>2 DEF LoadWoW
  <2>2. EmptyFolder.children = {}
    BY DEF EmptyFolder
  <2> QED
    BY <2>1, <2>2 DEF FreshInv, OnlyMpq, CascIn, Current
<1>3. CASE LoadWoWFromMpq
  <2>1. phase' = "archives" /\ dir' = EmptyFolder
    BY <1>3 DEF LoadWoWFromMpq
  <2>2. EmptyFolder.children = {}
    BY DEF EmptyFolder
  <2> QED
    BY <2>1, <2>2 DEF OnlyMpq, CascIn, Current
<1>4. CASE ListfileRead
  <2>1. /\ phase = "listfile" /\ left = {} /\ phase' = "custom" /\ UNCHANGED <<dir, mpq, load>>
    BY <1>4 DEF ListfileRead
  <2>2. ASSUME NEW i \in Ids, dir.idMap[i] # None, dir.idMap[i].kind = "casc"
        PROVE  dir.idMap[i].load = load
    <3> DEFINE g == dir.idMap[i]
    <3>1. g \in dir.children /\ g.id = i
      BY <1>1, <2>2 DEF MapsAgree
    <3>2. <<i, g.name>> \in Lines /\ i \in Present
      BY <1>1, <2>2, <3>1 DEF Numbered, FreshInv, CascIn
    <3>3. <<i, g.name>>[1] = i
      OBVIOUS
    <3> QED
      BY <2>1, <3>2, <3>3 DEF FreshInv, Current
  <2> QED
    BY <2>1, <2>2 DEF FreshInv, OnlyMpq, CascIn, Current
<1>5. CASE Ready
  <2>1. /\ phase \in {"custom", "archives"} /\ phase' = "ready" /\ UNCHANGED <<dir, mpq, load>>
    BY <1>5 DEF Ready
  <2> QED
    BY <1>1, <2>1 DEF FreshInv, OnlyMpq, CascIn, Current, Stores
<1>6. ASSUME NEW l \in Lines, initFromListfile(l) PROVE OnlyMpq' /\ CascIn' /\ Current'
  <2> DEFINE f == New("casc", l[2], l[1])
  <2>1. /\ phase = "listfile" /\ left' = left \ {l} /\ UNCHANGED <<phase, mpq, load>> /\ ~mpq
        /\ l[1] \in Ids /\ l[2] \in Names
        /\ dir' = IF l[1] \in Present THEN addChild(dir, f) ELSE dir
    BY <1>1, <1>6 DEF initFromListfile, listLine, Stores
  <2>2. CASE l[1] \notin Present
    BY <2>1, <2>2 DEF FreshInv, OnlyMpq, CascIn, Current
  <2>3. CASE l[1] \in Present
    <3>1. f \in GameFiles /\ f.kind = "casc" /\ f.id = l[1] /\ f.load = load
      BY <1>1, <2>1, Made DEF Stores, Kinds, AnyId
    <3> HIDE DEF f
    <3>2. /\ dir'.children = dir.children \cup {f}
          /\ \A i \in AnyId : dir'.idMap[i] = IF i = f.id THEN f ELSE dir.idMap[i]
      BY <1>1, <2>1, <2>3, <3>1, Added
    <3>3. OnlyMpq' /\ CascIn'
      BY <2>1, <2>3, <3>1, <3>2 DEF FreshInv, OnlyMpq, CascIn
    <3>4. Current'
      <4>1. f # None /\ \A m \in Lines : m[1] \in AnyId
        BY <3>1, Files DEF AnyId
      <4>2. ASSUME NEW m \in Lines \ left', m[1] \in Present
            PROVE  dir'.idMap[m[1]] # None /\ dir'.idMap[m[1]].load = load
        <5>1. m[1] = l[1] \/ m \in Lines \ left
          BY <2>1, <4>2
        <5> QED
          BY <2>1, <3>1, <3>2, <4>1, <4>2, <5>1 DEF FreshInv, Current
      <4> QED
        BY <2>1, <4>2 DEF Current
    <3> QED
      BY <3>3, <3>4
  <2> QED
    BY <2>2, <2>3
<1>7. ASSUME NEW n \in MpqListed, initMpq(n) PROVE OnlyMpq' /\ CascIn' /\ Current'
  <2> DEFINE f == New("mpq", n, NoId)
  <2>1. /\ phase = "archives" /\ UNCHANGED <<phase, mpq>> /\ n \in Names /\ mpq /\ dir' = addChild(dir, f)
    BY <1>1, <1>7 DEF initMpq, Stores
  <2>2. f \in GameFiles /\ f.kind = "mpq"
    BY <1>1, <2>1, Made DEF Stores, Kinds, AnyId
  <2> HIDE DEF f
  <2>3. dir'.children = dir.children \cup {f}
    BY <1>1, <2>1, <2>2, Added
  <2> QED
    BY <2>1, <2>2, <2>3 DEF FreshInv, OnlyMpq, CascIn, Current
<1>8. CASE UNCHANGED fvars
  BY <1>8 DEF fvars, FreshInv, OnlyMpq, CascIn, Current
<1> QED
  BY <1>2, <1>3, <1>4, <1>5, <1>6, <1>7, <1>8, FreshCustom, FreshRequest DEF FolderNext, LoadClient

LEMMA AnswerFresh ==
  ASSUME FreshInv, phase = "ready", NEW k, NEW f, f = Answer(k), f # None, f.kind = "casc"
  PROVE  f.load = load
<1>1. FolderInv /\ MapsAgree /\ Numbered /\ Chosen
  BY ChoiceGives DEF FreshInv, ChoiceInv, ListInv, FolderInv
<1>2. CASE k \in Ids
  <2>1. f = dir.idMap[k] /\ f \in dir.children
    BY <1>1, <1>2 DEF Answer, byId, New, MapsAgree
  <2>2. ~mpq
    BY <2>1 DEF FreshInv, OnlyMpq
  <2> QED
    BY <1>2, <2>1, <2>2 DEF FreshInv, Current
<1>3. CASE k \in Names /\ k \notin Ids
  <2>1. f = dir.nameMap[k] /\ f \in dir.children /\ f.name = k
    BY <1>1, <1>3 DEF Answer, byName, New, MapsAgree
  <2>2. ~mpq
    BY <2>1 DEF FreshInv, OnlyMpq
  <2>3. <<f.id, k>> \in Lines /\ f.id \in Present
    BY <1>1, <2>1 DEF Numbered, FreshInv, CascIn
  <2>4. Known(k)
    <3>1. <<f.id, k>>[1] = f.id /\ <<f.id, k>>[2] = k
      OBVIOUS
    <3> QED
      BY <2>3, <3>1 DEF Known
  <2> QED
    BY <1>1, <1>3, <2>1, <2>2, <2>4 DEF Chosen
<1> QED
  BY <1>2, <1>3 DEF Answer
-----------------------------------------------------------------------------
(* The steps of a load *)

Busy == pc \notin {"idle", "crashed"}

(* While a load runs nothing changes that it was answered. *)
LEMMA Quiet ==
  ASSUME FreshInv, Busy => phase = "ready", LoadStep
  PROVE  /\ FreshInv' /\ FolderTypeOK' /\ phase = "ready" /\ phase' = "ready" /\ load' = load
         /\ \A k : Answer(k)' = Answer(k)
         /\ \A f : KeyOf(f)' = KeyOf(f) /\ Of(f)' = Of(f) /\ Opens(f)' = Opens(f) /\ Chunked(f)' = Chunked(f)
         /\ \A f, c : Has(f, c)' = Has(f, c)
         /\ \A f : Complete(f)' = Complete(f)
<1>1. FolderInv
  BY DEF FreshInv, ChoiceInv, ListInv
<1>2. phase = "ready" /\ ((\E k : Request(k)) \/ UNCHANGED fvars)
  <2>1. ASSUME NEW k \in Keys, initCommon(k) PROVE phase = "ready" /\ Request(k)
    BY <2>1 DEF initCommon
  <2>2. openSkeleton \/ readParentSequences => phase = "ready" /\ \E k : Request(k)
    BY DEF openSkeleton, readParentSequences, Busy
  <2>3. readBody => phase = "ready" /\ UNCHANGED fvars
    BY DEF readBody, Busy
  <2>4. readAttachments => phase = "ready" /\ ((\E k : Request(k)) \/ UNCHANGED fvars)
    BY DEF readAttachments, Busy
  <2>5. setLOD => phase = "ready" /\ ((\E k : Request(k)) \/ UNCHANGED fvars)
    BY DEF setLOD, Busy
  <2>6. animateSkeleton \/ openParent => phase = "ready" /\ \E k : Request(k)
    BY DEF animateSkeleton, openParent, Busy
  <2>7. ASSUME NEW x \in todo, readAnimsFromFile(x) PROVE phase = "ready" /\ Request(x.file)
    BY <2>7 DEF readAnimsFromFile, Busy
  <2>8. animateModel \/ animsRead \/ bonesOfModel \/ bonesOfSkeleton \/ finish => phase = "ready" /\ UNCHANGED fvars
    BY DEF animateModel, animsRead, bonesOfModel, bonesOfSkeleton, finish, Busy
  <2> QED
    BY <2>1, <2>2, <2>3, <2>4, <2>5, <2>6, <2>7, <2>8 DEF LoadStep
<1>3. /\ \A k : Answer(k)' = Answer(k)
      /\ UNCHANGED <<nameId, phase, mpq, load, openable, archives>>
  <2>1. CASE \E k : Request(k)
    BY <1>1, <1>2, <2>1, AnswersStay
  <2>2. CASE UNCHANGED fvars
    <3>1. UNCHANGED <<dir, nameId, phase, mpq, load, openable, archives>>
      BY <2>2 DEF fvars
    <3> QED
      BY <3>1 DEF Answer, byId, byName, New
  <2> QED
    BY <1>2, <2>1, <2>2
<1>4. /\ \A f : KeyOf(f)' = KeyOf(f) /\ Of(f)' = Of(f) /\ Opens(f)' = Opens(f) /\ Chunked(f)' = Chunked(f)
      /\ \A f, c : Has(f, c)' = Has(f, c)
  BY <1>3, ContentStays
<1>5. \A f : Complete(f)' = Complete(f)
  <2>1. \A k : Opened(k)' = Opened(k)
    BY <1>3, <1>4 DEF Opened
  <2>2. \A f, s : Apart(f, s)' = Apart(f, s)
    BY <1>3, <1>4 DEF Apart
  <2> QED
    BY <1>3, <1>4, <2>1, <2>2 DEF Complete
<1>6. FreshInv' /\ FolderTypeOK'
  <2>1. [FolderNext]_fvars
    BY LoadSteps DEF Next
  <2>2. FreshInv'
    BY <2>1, FreshStep
  <2> QED
    BY <2>2 DEF FreshInv, ChoiceInv, ListInv, FolderInv
<1> QED
  BY <1>2, <1>3, <1>4, <1>5, <1>6

(* What is open are files, whose current chunks are chunks; the functions of the
   load have the skeleton that the model names, which is there; and the
   animations to visit are those of the file that lists them. *)
Places == {"idle", "sequences", "parentSequences", "body", "attachments", "views",
           "animate", "parentAnims", "anims", "bones", "finish", "crashed"}
Skel == Answer(Of(model).skel)
Typed == /\ pc \in Places /\ {model, skel, parent, source} \subseteq GameFiles \cup {None}
         /\ ok \in BOOLEAN /\ misread \in BOOLEAN /\ Table(at)
         /\ \A x \in todo : x.file \in Keys \cup {NoKey}
Settles == /\ Busy => phase = "ready" /\ Real(model)
           /\ Busy /\ pc # "sequences" /\ Has(model, "SKID") => Skel # None
           /\ pc = "parentSequences" => Has(model, "SKID") /\ skel = Skel /\ Has(skel, "SKPD")
           /\ pc = "parentAnims" => /\ Has(model, "SKID") /\ skel = Skel /\ Has(skel, "SKPD")
                                    /\ parent = None /\ source = None /\ animfiles = {}
           /\ pc \in {"anims", "bones"} => IF Has(model, "SKID") THEN skel = Skel
                                           ELSE skel = None /\ parent = None /\ source = model
           /\ pc \in {"anims", "bones"} => parent = None \/ Real(parent)
           /\ pc = "anims" => Real(source) /\ todo \subseteq Of(source).anims
Held == pc \in {"anims", "bones"} => \A y \in animfiles : y[2] \in DOMAIN at \cup {parent}

LoadInv == FreshInv /\ Typed /\ Settles /\ Held

(* The tables that a chain of calls makes. *)
LEMMA Sets == \A o, f : \A c \in ChunkNames :
                  Table(o) => Table(setChunk(o, f, c)) /\ DOMAIN setChunk(o, f, c) = DOMAIN o
  BY ChunkSet

LEMMA Closes == \A o, F : Table(o) => Table(Close(o, F)) /\ DOMAIN Close(o, F) = DOMAIN o \ F
  BY FilesClosed

LEMMA Opening == \A o, f : Table(o) /\ Real(f) =>
                     Table(Open(o, f)) /\ DOMAIN Open(o, f) = DOMAIN o \cup (IF Opens(f) THEN {f} ELSE {})
  BY FileOpened DEF Real

LEMMA Chunks == {"MD21", "SKID", "SFID", "TXID", "AFID", "SKS1", "SKPD", "SKA1", "SKB1", "AFSB"} \subseteq ChunkNames
  BY DEF ChunkNames

LEMMA Listed4 == \A f : Real(f) => \A x \in Of(f).anims : x.file \in Keys \cup {NoKey}
  BY Contents DEF Real, Of

LEMMA Starts ==
  ASSUME LoadInv, NEW k \in Keys, initCommon(k) PROVE Typed' /\ Settles' /\ Held'
<1> DEFINE f == Answer(k)
           o == Open(at, f)
<1>1. pc = "idle" /\ phase = "ready" /\ FreshInv /\ ChoiceInv /\ Table(at)
  BY DEF initCommon, LoadInv, FreshInv, Typed
<1>2. /\ f # None /\ model' = f /\ ok' \in BOOLEAN /\ misread' = FALSE /\ phase' = "ready"
      /\ UNCHANGED <<skel, parent, source, todo, animfiles>>
      /\ \/ pc' = "sequences" /\ at' = setChunk(o, f, "MD21")
         \/ pc' = "idle" /\ at' = Close(o, {f})
  <2>1. phase' = phase
    BY DEF initCommon, Request, getFileById, getFileByName, fvars
  <2> QED
    BY <1>1, <2>1 DEF initCommon
<1>3. Real(f) /\ (\A g : KeyOf(g)' = KeyOf(g))
  <2>1. LoadStep
    BY DEF LoadStep
  <2> QED
    BY <1>1, <1>2, <2>1, AnswerReal, Quiet DEF Busy
<1> HIDE DEF f
<1>4. Table(at')
  <2>1. Table(o)
    BY <1>1, <1>3, Opening
  <2> HIDE DEF o
  <2> QED
    <3>1. Table(setChunk(o, f, "MD21"))
      BY <2>1, Sets, Chunks
    <3>2. Table(Close(o, {f}))
      BY <2>1, Closes
    <3> QED
      BY <1>2, <3>1, <3>2
<1>5. Typed'
  BY <1>2, <1>3, <1>4 DEF LoadInv, Typed, Places, Real
<1>6. Real(model)'
  BY <1>2, <1>3 DEF Real, Holds
<1>7. Settles' /\ Held'
  BY <1>2, <1>6 DEF Settles, Held, Busy
<1> QED
  BY <1>5, <1>7

(* Every step but the first keeps the model, and what it says of its files. *)
LEMMA Same ==
  ASSUME LoadInv, LoadStep, UNCHANGED model
  PROVE  /\ FreshInv' /\ FolderTypeOK' /\ phase = "ready" /\ phase' = "ready"
         /\ Skel' = Skel /\ \A c : Has(model, c)' = Has(model, c)
         /\ \A f : Real(f)' = Real(f) /\ Of(f)' = Of(f)
         /\ \A f, c : Has(f, c)' = Has(f, c)
         /\ \A k : Answer(k) # None => Real(Answer(k))
         /\ \A k : Answer(k)' = Answer(k)
<1>1. FreshInv /\ (Busy => phase = "ready") /\ ChoiceInv
  BY DEF LoadInv, Settles, FreshInv
<1>2. /\ FreshInv' /\ FolderTypeOK' /\ phase = "ready" /\ phase' = "ready"
      /\ \A k : Answer(k)' = Answer(k)
      /\ \A f : KeyOf(f)' = KeyOf(f) /\ Of(f)' = Of(f)
      /\ \A f, c : Has(f, c)' = Has(f, c)
  BY <1>1, Quiet
<1>3. \A f : Real(f)' = Real(f)
  BY <1>2 DEF Real, Holds
<1>4. Skel' = Skel
  BY <1>2 DEF Skel
<1>5. \A k : Answer(k) # None => Real(Answer(k))
  BY <1>1, <1>2, AnswerReal
<1> QED
  BY <1>2, <1>3, <1>4, <1>5

LEMMA SkeletonOpens == ASSUME LoadInv, openSkeleton PROVE Typed' /\ Settles' /\ Held'
<1>1. LoadStep /\ pc = "sequences" /\ Has(model, "SKID") /\ Table(at) /\ Typed /\ Settles
  BY DEF LoadStep, openSkeleton, LoadInv, Typed
<1>2. CASE Crash
  BY <1>1, <1>2 DEF Crash, Typed, Settles, Held, Busy, Places
<1>3. CASE ~Crash
  <2> DEFINE a == setChunk(at, model, "SKID")
             b == Open(a, Skel)
             o == setChunk(b, Skel, "SKS1")
  <2>1. /\ Skel # None /\ skel' = Skel /\ UNCHANGED <<model, ok, parent, source, todo, animfiles, misread>>
        /\ \/ pc' = "parentSequences" /\ at' = setChunk(o, Skel, "SKPD") /\ Has(Skel, "SKPD")
           \/ pc' = "body" /\ at' = setChunk(Close(o, {Skel}), model, "MD21")
    BY <1>3 DEF openSkeleton, Skel, backToModel
  <2>2. /\ phase = "ready" /\ phase' = "ready" /\ Skel' = Skel /\ \A c : Has(model, c)' = Has(model, c)
        /\ \A f : Real(f)' = Real(f)
        /\ Has(Skel, "SKPD")' = Has(Skel, "SKPD") /\ Real(Skel) /\ Real(model)
    BY <1>1, <2>1, Same DEF Skel, LoadInv, Settles, Busy
  <2>3. Table(a)
    BY <1>1, Sets, Chunks
  <2> HIDE DEF a
  <2>4. Table(b)
    BY <2>2, <2>3, Opening
  <2> HIDE DEF b
  <2>5. Table(o)
    BY <2>4, Sets, Chunks
  <2> HIDE DEF o
  <2>6. Table(setChunk(o, Skel, "SKPD")) /\ Table(Close(o, {Skel}))
    BY <2>5, Sets, Closes, Chunks
  <2>7. Table(setChunk(Close(o, {Skel}), model, "MD21"))
    BY <2>6, Sets, Chunks
  <2>8. Typed'
    BY <1>1, <2>1, <2>2, <2>6, <2>7 DEF Typed, Places, Real
  <2>9. Settles' /\ Held'
    BY <1>1, <2>1, <2>2 DEF Settles, Held, Busy
  <2> QED
    BY <2>8, <2>9
<1> QED
  BY <1>2, <1>3

LEMMA ParentSequencesRead == ASSUME LoadInv, readParentSequences PROVE Typed' /\ Settles' /\ Held'
<1> DEFINE p == Answer(Of(skel).parent)
           o == IF p = None THEN at ELSE setChunk(Open(at, p), p, "SKS1")
           done == IF p # None /\ Has(p, "SKS1") THEN {p, skel} ELSE {skel}
<1>1. LoadStep /\ pc = "parentSequences" /\ Table(at) /\ Typed /\ Settles
  BY DEF LoadStep, readParentSequences, LoadInv, Typed
<1>2. /\ pc' = "body" /\ at' = setChunk(Close(o, done), model, "MD21")
      /\ UNCHANGED <<model, ok, skel, parent, source, todo, animfiles, misread>>
  BY DEF readParentSequences, backToModel
<1>3. /\ phase = "ready" /\ phase' = "ready" /\ Skel' = Skel /\ \A c : Has(model, c)' = Has(model, c)
      /\ \A f : Real(f)' = Real(f)
      /\ p # None => Real(p)
      /\ Real(model) /\ skel = Skel /\ Skel # None
  BY <1>1, <1>2, Same DEF Settles, Busy
<1> HIDE DEF p, done
<1>4. Table(o)
  <2>1. p # None => Table(Open(at, p))
    BY <1>1, <1>3, Opening
  <2>2. p # None => Table(setChunk(Open(at, p), p, "SKS1"))
    BY <2>1, Sets, Chunks
  <2> QED
    BY <1>1, <2>2
<1> HIDE DEF o
<1>5. Table(Close(o, done))
  BY <1>4, Closes
<1>6. Table(setChunk(Close(o, done), model, "MD21"))
  BY <1>5, Sets, Chunks
<1>7. Typed'
  BY <1>1, <1>2, <1>6 DEF Typed, Places
<1>8. Settles' /\ Held'
  BY <1>1, <1>2, <1>3 DEF Settles, Held, Busy
<1> QED
  BY <1>7, <1>8

LEMMA BodyRead == ASSUME LoadInv, readBody PROVE Typed' /\ Settles' /\ Held'
<1> DEFINE a == setChunk(at, model, "SFID")
           b == setChunk(a, model, "MD21")
           c == setChunk(b, model, "TXID")
           d == setChunk(c, model, "MD21")
<1>1. /\ LoadStep /\ Table(at) /\ Typed /\ Settles
      /\ (pc = "sequences" /\ ~Has(model, "SKID")) \/ pc = "body"
  BY DEF LoadStep, readBody, LoadInv, Typed
<1>2. /\ pc' = "attachments" /\ at' = d /\ misread' \in BOOLEAN
      /\ UNCHANGED <<model, ok, skel, parent, source, todo, animfiles>>
  BY <1>1 DEF readBody, backToModel, Typed
<1>3. /\ phase = "ready" /\ phase' = "ready" /\ Skel' = Skel /\ \A e : Has(model, e)' = Has(model, e)
      /\ \A f : Real(f)' = Real(f)
      /\ Real(model) /\ (Has(model, "SKID") => Skel # None)
  BY <1>1, <1>2, Same DEF Settles, Busy
<1>4. Table(a)
  BY <1>1, Sets, Chunks
<1> HIDE DEF a
<1>5. Table(b)
  BY <1>4, Sets, Chunks
<1> HIDE DEF b
<1>6. Table(c)
  BY <1>5, Sets, Chunks
<1> HIDE DEF c
<1>7. Table(d)
  BY <1>6, Sets, Chunks
<1> HIDE DEF d
<1>8. Typed'
  BY <1>1, <1>2, <1>7 DEF Typed, Places
<1>9. Settles' /\ Held'
  BY <1>1, <1>2, <1>3 DEF Settles, Held, Busy
<1> QED
  BY <1>8, <1>9

LEMMA AttachmentsRead == ASSUME LoadInv, readAttachments PROVE Typed' /\ Settles' /\ Held'
<1> DEFINE a == setChunk(at, model, "SKID")
           b == Open(a, Skel)
           c == setChunk(b, Skel, "SKA1")
           d == Close(c, {Skel})
           e == setChunk(d, model, "MD21")
<1>1. LoadStep /\ Table(at) /\ Typed /\ Settles /\ pc = "attachments"
  BY DEF LoadStep, readAttachments, LoadInv, Typed
<1>2. /\ pc' = "views" /\ misread' \in BOOLEAN
      /\ at' = IF Has(model, "SKID") THEN e ELSE at
      /\ UNCHANGED <<model, ok, skel, parent, source, todo, animfiles>>
  BY <1>1 DEF readAttachments, backToModel, Skel, Typed
<1>3. /\ phase = "ready" /\ phase' = "ready" /\ Skel' = Skel /\ \A x : Has(model, x)' = Has(model, x)
      /\ \A f : Real(f)' = Real(f)
      /\ Real(model) /\ (Has(model, "SKID") => Skel # None /\ Real(Skel))
  BY <1>1, <1>2, Same DEF Settles, Busy, Skel
<1>4. Table(a)
  BY <1>1, Sets, Chunks
<1> HIDE DEF a
<1>5. Has(model, "SKID") => Table(b)
  BY <1>3, <1>4, Opening
<1> HIDE DEF b
<1>6. Has(model, "SKID") => Table(c)
  BY <1>5, Sets, Chunks
<1> HIDE DEF c
<1>7. Has(model, "SKID") => Table(d)
  BY <1>6, Closes
<1> HIDE DEF d
<1>8. Has(model, "SKID") => Table(e)
  BY <1>7, Sets, Chunks
<1> HIDE DEF e
<1>9. Typed'
  BY <1>1, <1>2, <1>8 DEF Typed, Places
<1>10. Settles' /\ Held'
  BY <1>1, <1>2, <1>3 DEF Settles, Held, Busy
<1> QED
  BY <1>9, <1>10

LEMMA ViewsRead == ASSUME LoadInv, setLOD PROVE Typed' /\ Settles' /\ Held'
<1>1. LoadStep /\ Table(at) /\ Typed /\ Settles /\ pc = "views"
  BY DEF LoadStep, setLOD, LoadInv, Typed
<1>2. CASE Crash
  BY <1>1, <1>2 DEF Crash, Typed, Settles, Held, Busy, Places
<1>3. CASE ~Crash
  <2> DEFINE g == Answer(Of(model).skin)
             o == IF g = None THEN at ELSE Open(at, g)
  <2>1. /\ pc' \in {"animate", "finish"} /\ at' = Close(o, {g}) /\ misread' \in BOOLEAN
        /\ UNCHANGED <<model, ok, skel, parent, source, todo, animfiles>>
    BY <1>1, <1>3 DEF setLOD, Typed
  <2>2. /\ phase = "ready" /\ phase' = "ready" /\ Skel' = Skel /\ \A x : Has(model, x)' = Has(model, x)
        /\ \A f : Real(f)' = Real(f)
        /\ Real(model) /\ (g # None => Real(g))
    BY <1>1, <2>1, Same DEF Settles, Busy
  <2> HIDE DEF g
  <2>3. Table(o)
    BY <1>1, <2>2, Opening
  <2> HIDE DEF o
  <2>4. Table(at')
    BY <2>1, <2>3, Closes
  <2>5. Typed'
    BY <1>1, <2>1, <2>4 DEF Typed, Places
  <2>6. Settles' /\ Held'
    BY <1>1, <2>1, <2>2 DEF Settles, Held, Busy
  <2> QED
    BY <2>5, <2>6
<1> QED
  BY <1>2, <1>3

LEMMA ModelAnimates == ASSUME LoadInv, animateModel PROVE Typed' /\ Settles' /\ Held'
<1> DEFINE a == setChunk(at, model, "AFID")
           b == setChunk(a, model, "MD21")
<1>1. LoadStep /\ Table(at) /\ Typed /\ Settles /\ pc = "animate" /\ ~Has(model, "SKID")
  BY DEF LoadStep, animateModel, LoadInv, Typed
<1>2. /\ pc' \in {"finish", "anims"} /\ at' \in {at, b}
      /\ source' = model /\ todo' = Of(model).anims /\ animfiles' = {}
      /\ skel' = None /\ parent' = None /\ UNCHANGED <<model, ok, misread>>
  BY DEF animateModel, backToModel
<1>3. /\ phase = "ready" /\ phase' = "ready" /\ Skel' = Skel /\ \A x : Has(model, x)' = Has(model, x)
      /\ \A f : Real(f)' = Real(f) /\ Of(f)' = Of(f)
      /\ Real(model) /\ model \in GameFiles
  BY <1>1, <1>2, Same DEF Settles, Busy, Real
<1>4. Table(a)
  BY <1>1, Sets, Chunks
<1> HIDE DEF a
<1>5. Table(b)
  BY <1>4, Sets, Chunks
<1> HIDE DEF b
<1>6. \A x \in todo' : x.file \in Keys \cup {NoKey}
  BY <1>2, <1>3, Listed4
<1>7. Typed'
  BY <1>1, <1>2, <1>3, <1>5, <1>6 DEF Typed, Places
<1>8. Real(source)' /\ (todo \subseteq Of(source).anims)'
  BY <1>2, <1>3
<1>9. Settles' /\ Held'
  BY <1>1, <1>2, <1>3, <1>8 DEF Settles, Held, Busy
<1> QED
  BY <1>7, <1>9

LEMMA SkeletonAnimates == ASSUME LoadInv, animateSkeleton PROVE Typed' /\ Settles' /\ Held'
<1> DEFINE a == setChunk(at, model, "SKID")
           b == Open(a, Skel)
           c == setChunk(b, Skel, "AFID")
           o == setChunk(c, Skel, "SKS1")
           d == Close(o, {Skel})
           e == setChunk(o, Skel, "SKPD")
           g == setChunk(d, model, "MD21")
<1>1. LoadStep /\ Table(at) /\ Typed /\ Settles /\ pc = "animate" /\ Has(model, "SKID")
  BY DEF LoadStep, animateSkeleton, LoadInv, Typed
<1>2. /\ skel' = Skel /\ parent' = None /\ animfiles' = {}
      /\ source' = IF Has(Skel, "SKPD") THEN None ELSE Skel
      /\ UNCHANGED <<model, ok, misread>>
      /\ \/ pc' = "finish" /\ at' = g /\ todo' = {}
         \/ pc' = "parentAnims" /\ at' = e /\ todo' = {} /\ Has(Skel, "SKPD")
         \/ pc' = "anims" /\ at' = o /\ todo' = Of(Skel).anims /\ ~Has(Skel, "SKPD")
  BY DEF animateSkeleton, backToModel, Skel
<1>3. /\ phase = "ready" /\ phase' = "ready" /\ Skel' = Skel /\ \A x : Has(model, x)' = Has(model, x)
      /\ \A f : Real(f)' = Real(f) /\ Of(f)' = Of(f)
      /\ \A f, x : Has(f, x)' = Has(f, x)
      /\ Real(model) /\ Skel # None /\ Real(Skel) /\ Skel \in GameFiles
  BY <1>1, <1>2, Same DEF Settles, Busy, Skel, Real
<1>4. Table(a)
  BY <1>1, Sets, Chunks
<1> HIDE DEF a
<1>5. Table(b)
  BY <1>3, <1>4, Opening
<1> HIDE DEF b
<1>6. Table(c)
  BY <1>5, Sets, Chunks
<1> HIDE DEF c
<1>7. Table(o)
  BY <1>6, Sets, Chunks
<1> HIDE DEF o
<1>8. Table(d) /\ Table(e)
  BY <1>7, Sets, Closes, Chunks
<1> HIDE DEF d, e
<1>9. Table(g)
  BY <1>8, Sets, Chunks
<1> HIDE DEF g
<1>10. Table(at')
  BY <1>2, <1>7, <1>8, <1>9
<1>11. \A x \in todo' : x.file \in Keys \cup {NoKey}
  BY <1>2, <1>3, Listed4
<1>12. Typed'
  BY <1>1, <1>2, <1>3, <1>10, <1>11 DEF Typed, Places
<1>13. (pc = "anims" => Real(source) /\ todo \subseteq Of(source).anims)'
  BY <1>2, <1>3
<1>14. (pc = "parentAnims" => Has(skel, "SKPD"))'
  BY <1>2, <1>3
<1>15. Settles' /\ Held'
  BY <1>1, <1>2, <1>3, <1>13, <1>14 DEF Settles, Held, Busy
<1> QED
  BY <1>12, <1>15

LEMMA ParentOpens == ASSUME LoadInv, openParent PROVE Typed' /\ Settles' /\ Held'
<1> DEFINE p == Answer(Of(skel).parent)
           a == Open(at, p)
           b == setChunk(a, p, "AFID")
           o == setChunk(b, p, "SKS1")
           d == Close(o, {p})
<1>1. LoadStep /\ Table(at) /\ Typed /\ Settles /\ pc = "parentAnims"
  BY DEF LoadStep, openParent, LoadInv, Typed
<1>2. /\ parent' = p /\ UNCHANGED <<model, ok, skel, animfiles, misread>>
      /\ \/ p # None /\ pc' = "anims" /\ at' = o /\ source' = p /\ todo' = Of(p).anims
         \/ pc' = "bones" /\ UNCHANGED <<source, todo>> /\ at' = IF p = None THEN at ELSE d
  BY DEF openParent
<1>3. /\ phase = "ready" /\ phase' = "ready" /\ Skel' = Skel /\ \A x : Has(model, x)' = Has(model, x)
      /\ \A f : Real(f)' = Real(f) /\ Of(f)' = Of(f)
      /\ Real(model) /\ (p # None => Real(p) /\ p \in GameFiles)
      /\ Has(model, "SKID") /\ skel = Skel /\ Skel # None /\ animfiles = {}
  BY <1>1, <1>2, Same DEF Settles, Busy, Real
<1> HIDE DEF p
<1>4. p # None => Table(a)
  BY <1>1, <1>3, Opening
<1> HIDE DEF a
<1>5. p # None => Table(b)
  BY <1>4, Sets, Chunks
<1> HIDE DEF b
<1>6. p # None => Table(o)
  BY <1>5, Sets, Chunks
<1> HIDE DEF o
<1>7. p # None => Table(d)
  BY <1>6, Closes
<1> HIDE DEF d
<1>8. Table(at')
  BY <1>1, <1>2, <1>6, <1>7
<1>9. \A x \in todo' : x.file \in Keys \cup {NoKey}
  BY <1>1, <1>2, <1>3, Listed4 DEF Typed
<1>10. Typed'
  BY <1>1, <1>2, <1>3, <1>8, <1>9 DEF Typed, Places
<1>11. (pc = "anims" => Real(source) /\ todo \subseteq Of(source).anims)'
  BY <1>2, <1>3
<1>12. Settles' /\ Held'
  BY <1>1, <1>2, <1>3, <1>11 DEF Settles, Held, Busy
<1> QED
  BY <1>10, <1>12

LEMMA AnimationRead == ASSUME LoadInv, NEW x \in todo, readAnimsFromFile(x) PROVE Typed' /\ Settles' /\ Held'
<1> DEFINE f == Answer(x.file)
           a == Open(at, f)
           b == setChunk(a, f, "AFSB")
<1>1. LoadStep /\ Table(at) /\ Typed /\ Settles /\ pc = "anims" /\ Held
  BY DEF LoadStep, readAnimsFromFile, LoadInv, Typed
<1>2. /\ todo' = todo \ {x} /\ UNCHANGED <<pc, model, ok, skel, parent, source, misread>>
      /\ \/ at' = at /\ animfiles' = animfiles
         \/ f # None /\ at' = b /\ animfiles' = animfiles
         \/ f # None /\ f \in DOMAIN b /\ at' = b /\ animfiles' = keepAnim(x, f)
  BY DEF readAnimsFromFile, usable
<1>3. /\ phase = "ready" /\ phase' = "ready" /\ Skel' = Skel /\ \A c : Has(model, c)' = Has(model, c)
      /\ \A g : Real(g)' = Real(g) /\ Of(g)' = Of(g)
      /\ Real(model) /\ Real(source) /\ todo \subseteq Of(source).anims /\ (f # None => Real(f))
  BY <1>1, <1>2, Same DEF Settles, Busy
<1> HIDE DEF f
<1>4. f # None => Table(a) /\ DOMAIN at \subseteq DOMAIN a
  BY <1>1, <1>3, Opening
<1> HIDE DEF a
<1>5. f # None => Table(b) /\ DOMAIN at \subseteq DOMAIN b
  BY <1>4, Sets, Chunks
<1> HIDE DEF b
<1>6. Table(at') /\ DOMAIN at \subseteq DOMAIN at'
  BY <1>1, <1>2, <1>5
<1>7. Typed'
  BY <1>1, <1>2, <1>6 DEF Typed
<1>8. Real(source)' /\ (todo \subseteq Of(source).anims)'
  BY <1>2, <1>3
<1>9. Settles'
  BY <1>1, <1>2, <1>3, <1>8 DEF Settles, Busy
<1>10. \A y \in animfiles' : y[2] \in DOMAIN at' \cup {parent}
  BY <1>1, <1>2, <1>6 DEF Held, keepAnim
<1>11. Held'
  BY <1>2, <1>10 DEF Held
<1> QED
  BY <1>7, <1>9, <1>11

LEMMA AnimationsRead == ASSUME LoadInv, animsRead PROVE Typed' /\ Settles' /\ Held'
<1>1. LoadStep /\ Table(at) /\ Typed /\ Settles /\ pc = "anims" /\ Held
  BY DEF LoadStep, animsRead, LoadInv, Typed
<1>2. /\ pc' = "bones" /\ UNCHANGED <<model, ok, skel, parent, source, todo, animfiles, misread>>
      /\ at' = IF parent # None THEN Close(at, {parent}) ELSE at
  BY DEF animsRead
<1>3. /\ phase = "ready" /\ phase' = "ready" /\ Skel' = Skel /\ \A c : Has(model, c)' = Has(model, c)
      /\ \A g : Real(g)' = Real(g)
      /\ Real(model)
  BY <1>1, <1>2, Same DEF Settles, Busy
<1>4. Table(at') /\ DOMAIN at \subseteq DOMAIN at' \cup {parent}
  BY <1>1, <1>2, Closes
<1>5. Typed'
  BY <1>1, <1>2, <1>4 DEF Typed, Places
<1>6. Settles'
  BY <1>1, <1>2, <1>3 DEF Settles, Busy
<1>7. Held'
  BY <1>1, <1>2, <1>4 DEF Held
<1> QED
  BY <1>5, <1>6, <1>7

LEMMA ModelBones == ASSUME LoadInv, bonesOfModel PROVE Typed' /\ Settles' /\ Held'
<1>1. LoadStep /\ Table(at) /\ Typed /\ Settles /\ pc = "bones"
  BY DEF LoadStep, bonesOfModel, LoadInv, Typed
<1>2. /\ pc' = "finish" /\ UNCHANGED <<model, ok, skel, parent, source, todo, animfiles>>
      /\ at' = Close(Sought(at), {y[2] : y \in animfiles}) /\ misread' \in BOOLEAN
  BY <1>1 DEF bonesOfModel, closeAnims, Typed
<1>3. /\ phase = "ready" /\ phase' = "ready" /\ Skel' = Skel /\ \A c : Has(model, c)' = Has(model, c)
      /\ \A g : Real(g)' = Real(g)
      /\ Real(model)
  BY <1>1, <1>2, Same DEF Settles, Busy
<1>4. Table(at')
  BY <1>1, <1>2, Closes, Sets, Chunks DEF Sought
<1>5. Typed'
  BY <1>1, <1>2, <1>4 DEF Typed, Places
<1>6. Settles' /\ Held'
  <2>1. Has(model, "SKID") => Skel # None
    BY <1>1 DEF Settles, Busy
  <2> QED
    BY <1>2, <1>3, <2>1 DEF Settles, Busy, Held
<1> QED
  BY <1>5, <1>6

LEMMA SkeletonBones == ASSUME LoadInv, bonesOfSkeleton PROVE Typed' /\ Settles' /\ Held'
<1>1. LoadStep /\ Table(at) /\ Typed /\ Settles /\ pc = "bones"
  BY DEF LoadStep, bonesOfSkeleton, LoadInv, Typed
<1>2. CASE Crash
  BY <1>1, <1>2 DEF Crash, Typed, Settles, Held, Busy, Places
<1>3. CASE ~Crash
  <2> DEFINE use == IF parent = None THEN skel ELSE parent
             F == {y[2] : y \in animfiles}
             a == setChunk(at, skel, "SKB1")
             b == Open(a, parent)
             c == setChunk(b, parent, "SKB1")
             o == IF parent = None THEN a ELSE Close(c, {skel})
             d == Close(o, {use, skel})
             e == setChunk(d, model, "MD21")
             g == Close(e, F)
             h == Close(at, {skel})
             i == Close(h, F)
             j == setChunk(i, model, "MD21")
  <2>1. /\ pc' = "finish" /\ UNCHANGED <<model, ok, skel, parent, source, todo, animfiles>>
        /\ misread' \in BOOLEAN /\ at' \in {g, j}
    BY <1>1, <1>3 DEF bonesOfSkeleton, closeAnims, backToModel, reopenParent, Typed
  <2>2. /\ phase = "ready" /\ phase' = "ready" /\ Skel' = Skel /\ \A x : Has(model, x)' = Has(model, x)
        /\ \A f : Real(f)' = Real(f)
        /\ Real(model) /\ (Has(model, "SKID") => Skel # None) /\ (parent # None => Real(parent))
    BY <1>1, <2>1, Same DEF Settles, Busy
  <2> HIDE DEF use, F
  <2>3. Table(a)
    BY <1>1, Sets, Chunks
  <2> HIDE DEF a
  <2>4. parent # None => Table(b)
    BY <2>2, <2>3, Opening
  <2> HIDE DEF b
  <2>5. parent # None => Table(c)
    BY <2>4, Sets, Chunks
  <2> HIDE DEF c
  <2>6. Table(o)
    BY <2>3, <2>5, Closes
  <2> HIDE DEF o
  <2>7. Table(d) /\ Table(h)
    BY <1>1, <2>6, Closes
  <2> HIDE DEF d, h
  <2>8. Table(e) /\ Table(i)
    BY <2>7, Closes, Sets, Chunks
  <2> HIDE DEF e, i
  <2>9. Table(g) /\ Table(j)
    BY <2>8, Closes, Sets, Chunks
  <2> HIDE DEF g, j
  <2>10. Typed'
    BY <1>1, <2>1, <2>9 DEF Typed, Places
  <2>11. Settles' /\ Held'
    BY <1>1, <2>1, <2>2 DEF Settles, Held, Busy
  <2> QED
    BY <2>10, <2>11
<1> QED
  BY <1>2, <1>3

LEMMA LoadEnds == ASSUME LoadInv, finish PROVE Typed' /\ Settles' /\ Held'
<1>1. LoadStep /\ Table(at) /\ Typed
  BY DEF LoadStep, finish, LoadInv, Typed
<1>2. /\ pc' = "idle" /\ at' = Close(at, {model}) /\ misread' \in BOOLEAN /\ UNCHANGED <<model, ok>>
      /\ skel' = None /\ parent' = None /\ source' = None /\ todo' = {}
  BY <1>1 DEF finish, Typed
<1>3. Table(at')
  BY <1>1, <1>2, Closes
<1>4. Typed'
  BY <1>1, <1>2, <1>3 DEF Typed, Places
<1>5. Settles' /\ Held'
  BY <1>2 DEF Settles, Busy, Held
<1> QED
  BY <1>4, <1>5

LEMMA LoadInvInit == LoadInit => LoadInv
<1> SUFFICES ASSUME LoadInit PROVE LoadInv
  OBVIOUS
<1>1. FreshInv
  BY FreshInit DEF LoadInit
<1>2. Table(at)
  BY DEF LoadInit, NoFiles, Table
<1> QED
  BY <1>1, <1>2 DEF LoadInit, LoadInv, Typed, Settles, Held, Places, Busy

LEMMA LoadInvStep == LoadInv /\ [Next]_vars => LoadInv'
<1> SUFFICES ASSUME LoadInv, [Next]_vars PROVE LoadInv'
  OBVIOUS
<1>1. CASE LoadStep
  <2>1. FreshInv'
    BY <1>1, Quiet DEF LoadInv, Settles
  <2> QED
    BY <1>1, <2>1, Starts, SkeletonOpens, ParentSequencesRead, BodyRead, AttachmentsRead, ViewsRead,
       ModelAnimates, SkeletonAnimates, ParentOpens, AnimationRead, AnimationsRead, ModelBones,
       SkeletonBones, LoadEnds DEF LoadStep, LoadInv
<1>2. CASE pc = "idle" /\ LoadClient /\ UNCHANGED lvars
  <2>1. FreshInv'
    BY <1>2, FreshStep DEF LoadInv, FolderNext
  <2>2. Typed' /\ Held'
    BY <1>2 DEF lvars, LoadInv, Typed, Held
  <2>3. Settles'
    BY <1>2 DEF lvars, Settles, Busy
  <2> QED
    BY <2>1, <2>2, <2>3 DEF LoadInv
<1>3. CASE UNCHANGED vars
  <2>1. FreshInv'
    BY <1>3, FreshStep DEF LoadInv, vars
  <2>2. Typed' /\ Held'
    BY <1>3 DEF vars, lvars, LoadInv, Typed, Held
  <2>3. UNCHANGED <<dir, nameId, phase, mpq, load, openable, archives>>
    BY <1>3 DEF vars, fvars
  <2>4. UNCHANGED <<Skel, model, source, parent, skel, pc, todo, animfiles>>
    BY <1>3, <2>3 DEF vars, lvars, Skel, Of, KeyOf, StoredAs, Answer, byId, byName, New
  <2>5. /\ \A f : Real(f)' = Real(f) /\ Of(f)' = Of(f)
        /\ \A f, c : Has(f, c)' = Has(f, c)
    BY <2>3 DEF Real, Holds, KeyOf, StoredAs, Of, Has
  <2>6. Settles'
    BY <2>3, <2>4, <2>5 DEF LoadInv, Settles, Busy
  <2> QED
    BY <2>1, <2>2, <2>6 DEF LoadInv
<1> QED
  BY <1>1, <1>2, <1>3 DEF Next

LEMMA LoadInvariant == Spec => []LoadInv
<1>1. LoadInit => LoadInv
  BY LoadInvInit
<1>2. LoadInv /\ [Next]_vars => LoadInv'
  BY LoadInvStep
<1> QED
  BY <1>1, <1>2, PTL DEF Spec

(* TypeOK: a load keeps the pointers of its functions at files of the client or at
   none, its open files at chunks there are, and each file in data.animfiles open
   or the parent's while the bones are read from them. *)
THEOREM LoadTyping == Spec => []TypeOK
<1>1. LoadInv => TypeOK
  <2> SUFFICES ASSUME LoadInv PROVE TypeOK
    OBVIOUS
  <2>1. FolderTypeOK
    BY DEF LoadInv, FreshInv, ChoiceInv, ListInv, FolderInv
  <2>2. \A f \in DOMAIN at : at[f] \in ChunkNames \cup {"all"}
    BY DEF LoadInv, Typed, Table, Spots
  <2>3. DOMAIN at \subseteq GameFiles
    BY DEF LoadInv, Typed, Table
  <2> QED
    BY <2>1, <2>2, <2>3 DEF LoadInv, Typed, Held, TypeOK, Places
<1> QED
  BY <1>1, LoadInvariant, PTL
-----------------------------------------------------------------------------
(* NothingLeftOpen: what a load opens it closes *)

LEMMA Doms ==
  /\ \A o, f, c, g : g \in DOMAIN setChunk(o, f, c) <=> g \in DOMAIN o
  /\ \A o, F, g : g \in DOMAIN Close(o, F) <=> g \in DOMAIN o /\ g \notin F
  /\ \A o, f, g : g \in DOMAIN o => g \in DOMAIN Open(o, f)
  /\ \A o, f, g : g \in DOMAIN Open(o, f) => g \in DOMAIN o \/ g = f
<1>1. \A o, f, c, g : g \in DOMAIN setChunk(o, f, c) <=> g \in DOMAIN o
  BY DEF setChunk
<1>2. \A o, F, g : g \in DOMAIN Close(o, F) <=> g \in DOMAIN o /\ g \notin F
  BY DEF Close
<1>3. \A o, f, g : g \in DOMAIN o => g \in DOMAIN Open(o, f)
  BY DEF Open, With
<1>4. \A o, f, g : g \in DOMAIN Open(o, f) => g \in DOMAIN o \/ g = f
  BY DEF Open, With
<1> QED
  BY <1>1, <1>2, <1>3, <1>4

(* The files that a later step of the load closes, among those that are open. *)
Owed(f) == \/ f = model
           \/ f = skel /\ pc \in {"parentSequences", "parentAnims", "anims", "bones"}
           \/ f = parent /\ pc = "anims"
           \/ pc \in {"anims", "bones"} /\ \E y \in animfiles : f = y[2]
Lost(f) == Replaced(f) \/ Parental(f)
Owing == pc # "crashed" => \A f \in DOMAIN at : Lost(f) \/ (Busy /\ Owed(f))
Visited == pc = "anims" => \A y \in animfiles : \E z \in Of(source).anims \ todo :
                              z.anim = y[1] /\ z.file \in {y[2].id, y[2].name}
OpenInv == Owing /\ Visited

LEMMA OwingStarts == ASSUME LoadInv, OpenInv, NEW k \in Keys, initCommon(k) PROVE OpenInv'
<1>1. pc = "idle" /\ DOMAIN at' \subseteq DOMAIN at \cup {model'}
      /\ \/ pc' = "sequences"
         \/ pc' = "idle" /\ model' \notin DOMAIN at'
  BY Doms DEF initCommon
<1> QED
  BY <1>1 DEF OpenInv, Owing, Owed, Busy, Visited

LEMMA OwingSkeleton == ASSUME LoadInv, OpenInv, openSkeleton PROVE OpenInv'
<1>1. CASE Crash
  BY <1>1 DEF Crash, OpenInv, Owing, Visited
<1>2. CASE ~Crash
  <2>1. /\ pc = "sequences" /\ DOMAIN at' \subseteq DOMAIN at \cup {skel'} /\ model' = model
        /\ \/ pc' = "parentSequences"
           \/ pc' = "body" /\ skel' \notin DOMAIN at'
    BY <1>2, Doms DEF openSkeleton, backToModel
  <2> QED
    BY <2>1 DEF OpenInv, Owing, Owed, Busy, Visited
<1> QED
  BY <1>1, <1>2

LEMMA OwingParentSequences == ASSUME LoadInv, OpenInv, readParentSequences PROVE OpenInv'
<1> DEFINE p == Answer(Of(skel).parent)
<1>1. pc = "parentSequences" /\ pc' = "body" /\ model' = model /\ skel \notin DOMAIN at'
      /\ \/ DOMAIN at' \subseteq DOMAIN at
         \/ p # None /\ ~Has(p, "SKS1") /\ DOMAIN at' \subseteq DOMAIN at \cup {p}
  BY Doms DEF readParentSequences, backToModel
<1>2. ASSUME p # None, ~Has(p, "SKS1") PROVE Parental(p)
  <2>1. phase = "ready" /\ ChoiceInv /\ FolderInv /\ skel # None
    BY <1>1 DEF LoadInv, FreshInv, ChoiceInv, ListInv, Settles, Busy
  <2>2. Real(p) /\ p = Answer(Of(skel).parent) /\ Of(skel).parent \in {p.id, p.name}
    BY <1>2, <2>1, AnswerReal, Answered
  <2>3. Real(skel)
    BY <1>1, <2>1, AnswerReal DEF LoadInv, Settles, Skel
  <2> HIDE DEF p
  <2> QED
    BY <1>2, <2>2, <2>3 DEF Parental, Real, Of, Has
<1> HIDE DEF p
<1> QED
  BY <1>1, <1>2 DEF OpenInv, Owing, Owed, Busy, Visited, Lost

LEMMA OwingBody ==
  ASSUME LoadInv, OpenInv, readBody \/ readAttachments \/ setLOD PROVE OpenInv'
<1>1. CASE readBody
  <2>1. pc \in {"sequences", "body"} /\ pc' = "attachments" /\ model' = model /\ DOMAIN at' = DOMAIN at
    BY <1>1, Doms DEF readBody, backToModel
  <2> QED
    BY <2>1 DEF OpenInv, Owing, Owed, Busy, Visited
<1>2. CASE readAttachments
  <2>1. pc = "attachments" /\ pc' = "views" /\ model' = model /\ DOMAIN at' \subseteq DOMAIN at
    BY <1>2, Doms DEF readAttachments, backToModel
  <2> QED
    BY <2>1 DEF OpenInv, Owing, Owed, Busy, Visited
<1>3. CASE setLOD
  <2>1. CASE Crash
    BY <2>1 DEF Crash, OpenInv, Owing, Visited
  <2>2. CASE ~Crash
    <3>1. pc = "views" /\ pc' \in {"animate", "finish"} /\ model' = model /\ DOMAIN at' \subseteq DOMAIN at
      BY <1>3, <2>2, Doms DEF setLOD
    <3> QED
      BY <3>1 DEF OpenInv, Owing, Owed, Busy, Visited
  <2> QED
    BY <2>1, <2>2
<1> QED
  BY <1>1, <1>2, <1>3

LEMMA OwingAnimated ==
  ASSUME LoadInv, OpenInv, animateModel \/ animateSkeleton \/ openParent PROVE OpenInv'
<1>1. CASE animateModel
  <2>1. /\ pc = "animate" /\ pc' \in {"finish", "anims"} /\ model' = model /\ DOMAIN at' = DOMAIN at
        /\ animfiles' = {}
    BY <1>1, Doms DEF animateModel, backToModel
  <2> QED
    BY <2>1 DEF OpenInv, Owing, Owed, Busy, Visited
<1>2. CASE animateSkeleton
  <2>1. /\ pc = "animate" /\ model' = model /\ DOMAIN at' \subseteq DOMAIN at \cup {skel'} /\ animfiles' = {}
        /\ \/ pc' \in {"parentAnims", "anims"}
           \/ pc' = "finish" /\ skel' \notin DOMAIN at'
    BY <1>2, Doms DEF animateSkeleton, backToModel
  <2> QED
    BY <2>1 DEF OpenInv, Owing, Owed, Busy, Visited
<1>3. CASE openParent
  <2>1. /\ pc = "parentAnims" /\ UNCHANGED <<model, skel, animfiles>>
        /\ \/ pc' = "anims" /\ DOMAIN at' \subseteq DOMAIN at \cup {parent'}
           \/ pc' = "bones" /\ DOMAIN at' \subseteq DOMAIN at
    BY <1>3, Doms DEF openParent
  <2>2. animfiles = {}
    BY <2>1 DEF LoadInv, Settles
  <2> QED
    BY <2>1, <2>2 DEF OpenInv, Owing, Owed, Busy, Visited
<1> QED
  BY <1>1, <1>2, <1>3

LEMMA OwingAnimation == ASSUME LoadInv, OpenInv, NEW x \in todo, readAnimsFromFile(x) PROVE OpenInv'
<1> DEFINE f == Answer(x.file)
           o == IF f = None THEN at ELSE setChunk(Open(at, f), f, "AFSB")
<1>1. /\ pc = "anims" /\ pc' = "anims" /\ todo' = todo \ {x} /\ UNCHANGED <<model, skel, parent, source>>
      /\ at' = o /\ animfiles' = IF usable(o, f) THEN keepAnim(x, f) ELSE animfiles
  BY DEF readAnimsFromFile
<1>2. /\ Of(source)' = Of(source) /\ phase = "ready" /\ FolderInv /\ Real(source)
      /\ todo \subseteq Of(source).anims
  <2>1. LoadStep
    BY DEF LoadStep
  <2> QED
    BY <1>1, <2>1, Same DEF LoadInv, FreshInv, ChoiceInv, ListInv, Settles
<1>3. /\ \A g : g \in DOMAIN at => g \in DOMAIN o
      /\ \A g : g \in DOMAIN o => g \in DOMAIN at \/ (f # None /\ g = f)
  BY Doms
<1>4. f # None => x.file \in {f.id, f.name}
  BY <1>2, Answered
<1> HIDE DEF f, o
<1>5. CASE ~usable(o, f)
  <2>1. DOMAIN at' = DOMAIN at /\ animfiles' = animfiles
    BY <1>1, <1>3, <1>5 DEF usable
  <2> QED
    BY <1>1, <1>2, <2>1 DEF OpenInv, Owing, Owed, Busy, Visited
<1>6. CASE usable(o, f)
  <2>1. f # None /\ DOMAIN at' \subseteq DOMAIN at \cup {f} /\ animfiles' = keepAnim(x, f)
    BY <1>1, <1>3, <1>6 DEF usable
  <2>2. \A y \in animfiles : y[1] = x.anim => Replaced(y[2])
    <3> SUFFICES ASSUME NEW y \in animfiles, y[1] = x.anim PROVE Replaced(y[2])
      OBVIOUS
    <3>1. PICK z \in Of(source).anims \ todo : z.anim = y[1] /\ z.file \in {y[2].id, y[2].name}
      BY <1>1 DEF OpenInv, Visited
    <3>2. x \in Of(source).anims /\ z # x /\ z.anim = x.anim
      BY <1>2, <3>1
    <3> QED
      BY <1>2, <3>1, <3>2 DEF Replaced, Of, Real
  <2>3. /\ <<x.anim, f>> \in animfiles' /\ <<x.anim, f>>[2] = f
        /\ \A y \in animfiles : y \in animfiles' \/ Replaced(y[2])
    BY <2>1, <2>2 DEF keepAnim
  <2>4. Owing'
    <3>1. ASSUME NEW g \in DOMAIN at' PROVE Lost(g) \/ Owed(g)'
      <4>1. CASE g = f
        BY <1>1, <2>3, <4>1 DEF Owed
      <4>2. CASE g \in DOMAIN at /\ ~Lost(g) /\ \E y \in animfiles : g = y[2]
        BY <1>1, <2>3, <4>2 DEF Owed, Lost
      <4>3. CASE g \in DOMAIN at /\ ~Lost(g) /\ ~\E y \in animfiles : g = y[2]
        BY <1>1, <4>3 DEF Owed, OpenInv, Owing
      <4> QED
        BY <2>1, <4>1, <4>2, <4>3
    <3> QED
      BY <1>1, <3>1 DEF Owing, Busy
  <2>5. Visited'
    <3>1. ASSUME NEW y \in animfiles'
          PROVE  \E z \in Of(source).anims \ todo' : z.anim = y[1] /\ z.file \in {y[2].id, y[2].name}
      <4>1. CASE y = <<x.anim, f>>
        BY <1>1, <1>2, <1>4, <2>1, <4>1
      <4>2. CASE y \in animfiles
        BY <1>1, <4>2 DEF OpenInv, Visited
      <4> QED
        BY <2>1, <4>1, <4>2 DEF keepAnim
    <3> QED
      BY <1>1, <1>2, <3>1 DEF Visited
  <2> QED
    BY <2>4, <2>5 DEF OpenInv
<1> QED
  BY <1>5, <1>6

LEMMA OwingBones ==
  ASSUME LoadInv, OpenInv, animsRead \/ bonesOfModel \/ bonesOfSkeleton \/ finish PROVE OpenInv'
<1>1. CASE animsRead
  <2>1. /\ pc = "anims" /\ pc' = "bones" /\ UNCHANGED <<model, skel, animfiles>>
        /\ DOMAIN at' \subseteq DOMAIN at
        /\ parent \notin DOMAIN at' \/ parent = None
    BY <1>1, Doms DEF animsRead
  <2>2. None \notin DOMAIN at
    BY NoneAssumption DEF LoadInv, Typed, Table
  <2> QED
    BY <2>1, <2>2 DEF OpenInv, Owing, Owed, Busy, Visited
<1>2. CASE bonesOfModel
  <2>1. /\ pc = "bones" /\ pc' = "finish" /\ UNCHANGED <<model>> /\ skel = None
        /\ DOMAIN at' = DOMAIN at \ {y[2] : y \in animfiles}
    BY <1>2, Doms DEF bonesOfModel, closeAnims, Sought
  <2>2. None \notin DOMAIN at
    BY NoneAssumption DEF LoadInv, Typed, Table
  <2> QED
    BY <2>1, <2>2 DEF OpenInv, Owing, Owed, Busy, Visited
<1>3. CASE bonesOfSkeleton
  <2>1. CASE Crash
    BY <2>1 DEF Crash, OpenInv, Owing, Visited
  <2>2. CASE ~Crash
    <3>1. /\ pc = "bones" /\ pc' = "finish" /\ UNCHANGED <<model>>
          /\ skel \notin DOMAIN at' /\ DOMAIN at' \subseteq DOMAIN at \ {y[2] : y \in animfiles}
      BY <1>3, <2>2, Doms DEF bonesOfSkeleton, closeAnims, reopenParent, backToModel
    <3> QED
      BY <3>1 DEF OpenInv, Owing, Owed, Busy, Visited
  <2> QED
    BY <2>1, <2>2
<1>4. CASE finish
  <2>1. pc = "finish" /\ pc' = "idle" /\ UNCHANGED <<model>> /\ DOMAIN at' = DOMAIN at \ {model}
    BY <1>4, Doms DEF finish
  <2> QED
    BY <2>1 DEF OpenInv, Owing, Owed, Busy, Visited
<1> QED
  BY <1>1, <1>2, <1>3, <1>4

LEMMA OpenInvStep == LoadInv /\ OpenInv /\ [Next]_vars => OpenInv'
<1> SUFFICES ASSUME LoadInv, OpenInv, [Next]_vars PROVE OpenInv'
  OBVIOUS
<1>1. CASE LoadStep
  BY <1>1, OwingStarts, OwingSkeleton, OwingParentSequences, OwingBody, OwingAnimated, OwingAnimation,
     OwingBones DEF LoadStep
<1>2. CASE pc = "idle" /\ UNCHANGED lvars
  BY <1>2 DEF lvars, OpenInv, Owing, Owed, Busy, Visited
<1>3. CASE UNCHANGED vars
  <2>1. UNCHANGED nameId /\ UNCHANGED openable /\ UNCHANGED lvars
    BY <1>3 DEF vars, fvars
  <2>2. Of(source)' = Of(source)
    BY <2>1 DEF Of, KeyOf, StoredAs, lvars
  <2> QED
    BY <2>1, <2>2 DEF lvars, OpenInv, Owing, Owed, Busy, Visited
<1> QED
  BY <1>1, <1>2, <1>3 DEF Next

(* NothingLeftOpen: when no load runs, no file is open but one that another file
   of the same animation replaced and a parent skeleton without sequences, whatever
   the files contain and whichever of them are missing or named twice. *)
THEOREM Closed == Spec => []NothingLeftOpen
<1>1. LoadInit => OpenInv
  BY DEF LoadInit, NoFiles, OpenInv, Owing, Visited
<1>2. OpenInv => NothingLeftOpen
  BY DEF OpenInv, Owing, Busy, Lost, NothingLeftOpen
<1> QED
  BY <1>1, <1>2, OpenInvStep, LoadInvariant, PTL DEF Spec
-----------------------------------------------------------------------------
(* ReadsRight: the bytes of each structure *)

(* What a file holds is what it held when it was opened: it is not a file of an
   earlier load of a CASC client. *)
Unmoved(f) == f.kind # "casc" \/ f.load = load
Flat(o) == \A f \in DOMAIN o : Unmoved(f) /\ ~Chunked(f) => o[f] = "all"
Past == /\ \A f \in DOMAIN at : f.load <= load /\ (phase = "listfile" => f.load < load)
        /\ parent # None => parent.load <= load

LEMMA Kept ==
  /\ \A o, f, c, g : g \in DOMAIN o /\ (g # f \/ ~Has(f, c)) => setChunk(o, f, c)[g] = o[g]
  /\ \A o, f, c : f \in DOMAIN o /\ Has(f, c) => setChunk(o, f, c)[f] = c
  /\ \A o, F, g : g \in DOMAIN Close(o, F) => Close(o, F)[g] = o[g]
  /\ \A o, f, g : g \in DOMAIN o => Open(o, f)[g] = o[g]
  /\ \A o, f : f \notin DOMAIN o /\ f \in DOMAIN Open(o, f) => Open(o, f)[f] = FirstChunk(f)
  /\ \A o, f : Opens(f) => f \in DOMAIN Open(o, f)
<1>1. /\ \A o, f, c, g : g \in DOMAIN o /\ (g # f \/ ~Has(f, c)) => setChunk(o, f, c)[g] = o[g]
      /\ \A o, f, c : f \in DOMAIN o /\ Has(f, c) => setChunk(o, f, c)[f] = c
  BY DEF setChunk
<1>2. \A o, F, g : g \in DOMAIN Close(o, F) => Close(o, F)[g] = o[g]
  BY DEF Close
<1>3. \A o, f, g : g \in DOMAIN o => Open(o, f)[g] = o[g]
  BY DEF Open, With
<1>4. \A o, f : f \notin DOMAIN o /\ f \in DOMAIN Open(o, f) => Open(o, f)[f] = FirstChunk(f)
  BY DEF Open, With
<1>5. \A o, f : Opens(f) => f \in DOMAIN Open(o, f)
  BY DEF Open, With
<1> QED
  BY <1>1, <1>2, <1>3, <1>4, <1>5

LEMMA Flats ==
  /\ \A o, f, c : Flat(o) => Flat(setChunk(o, f, c))
  /\ \A o, F : Flat(o) => Flat(Close(o, F))
  /\ \A o, f : Flat(o) => Flat(Open(o, f))
<1>1. \A f, c : Has(f, c) => Chunked(f)
  BY DEF Has, Chunked
<1>2. ASSUME NEW o, NEW f, NEW c, Flat(o) PROVE Flat(setChunk(o, f, c))
  BY <1>1, <1>2, Doms, Kept DEF Flat
<1>3. ASSUME NEW o, NEW F, Flat(o) PROVE Flat(Close(o, F))
  BY <1>3, Doms, Kept DEF Flat
<1>4. ASSUME NEW o, NEW f, Flat(o) PROVE Flat(Open(o, f))
  <2>1. ~Chunked(f) => FirstChunk(f) = "all"
    BY DEF FirstChunk, Chunked
  <2> QED
    BY <1>4, <2>1, Doms, Kept DEF Flat
<1> QED
  BY <1>2, <1>3, <1>4

LEMMA Rights ==
  /\ \A o, f, c, g, d : Right(o, g, d) /\ g # f => Right(setChunk(o, f, c), g, d)
  /\ \A o, f, c : f \in DOMAIN o /\ Has(f, c) => Right(setChunk(o, f, c), f, c)
  /\ \A o, f, c, d : Right(o, f, c) /\ ~Chunked(f) => Right(setChunk(o, f, d), f, c)
  /\ \A o, F, g, d : Right(o, g, d) /\ g \notin F => Right(Close(o, F), g, d)
  /\ \A o, f, g, d : Right(o, g, d) => Right(Open(o, f), g, d)
<1>1. \A f, c : Has(f, c) => Chunked(f)
  BY DEF Has, Chunked
<1>2. \A o, f, c, g, d : Right(o, g, d) /\ g # f => Right(setChunk(o, f, c), g, d)
  BY Doms, Kept DEF Right
<1>3. \A o, f, c : f \in DOMAIN o /\ Has(f, c) => Right(setChunk(o, f, c), f, c)
  BY <1>1, Doms, Kept DEF Right
<1>4. \A o, f, c, d : Right(o, f, c) /\ ~Chunked(f) => Right(setChunk(o, f, d), f, c)
  BY <1>1, Doms, Kept DEF Right
<1>5. \A o, F, g, d : Right(o, g, d) /\ g \notin F => Right(Close(o, F), g, d)
  BY Doms, Kept DEF Right
<1>6. \A o, f, g, d : Right(o, g, d) => Right(Open(o, f), g, d)
  BY Doms, Kept DEF Right
<1> QED
  BY <1>2, <1>3, <1>4, <1>5, <1>6

(* What a step opens was answered, or is the parent that was. *)
LEMMA Asked ==
  ASSUME LoadStep
  PROVE  /\ \A g \in DOMAIN at' : g \in DOMAIN at \/ g = parent \/ \E k : g = Answer(k)
         /\ parent' = None \/ parent' = parent \/ \E k : parent' = Answer(k)
<1>1. ASSUME NEW k \in Keys, initCommon(k)
      PROVE  (\A g \in DOMAIN at' : g \in DOMAIN at \/ \E j : g = Answer(j)) /\ parent' = parent
  BY <1>1, Doms DEF initCommon
<1>2. CASE openSkeleton
  BY <1>2, Doms DEF openSkeleton, backToModel, Crash
<1>3. CASE readParentSequences
  BY <1>3, Doms DEF readParentSequences, backToModel
<1>4. CASE readBody
  BY <1>4, Doms DEF readBody, backToModel
<1>5. CASE readAttachments
  BY <1>5, Doms DEF readAttachments, backToModel
<1>6. CASE setLOD
  BY <1>6, Doms DEF setLOD, Crash
<1>7. CASE animateModel
  BY <1>7, Doms DEF animateModel, backToModel
<1>8. CASE animateSkeleton
  BY <1>8, Doms DEF animateSkeleton, backToModel
<1>9. CASE openParent
  BY <1>9, Doms DEF openParent
<1>10. ASSUME NEW x \in todo, readAnimsFromFile(x)
       PROVE  (\A g \in DOMAIN at' : g \in DOMAIN at \/ \E j : g = Answer(j)) /\ parent' = parent
  BY <1>10, Doms DEF readAnimsFromFile
<1>11. CASE animsRead
  BY <1>11, Doms DEF animsRead
<1>12. CASE bonesOfModel
  BY <1>12, Doms DEF bonesOfModel, closeAnims, Sought
<1>13. CASE bonesOfSkeleton
  BY <1>13, Doms DEF bonesOfSkeleton, closeAnims, reopenParent, backToModel, Crash
<1>14. CASE finish
  BY <1>14, Doms DEF finish
<1> QED
  BY <1>1, <1>2, <1>3, <1>4, <1>5, <1>6, <1>7, <1>8, <1>9, <1>10, <1>11, <1>12, <1>13, <1>14 DEF LoadStep

LEMMA Flattened == ASSUME LoadStep, Flat(at) PROVE Flat(at')
<1>1. ASSUME NEW k \in Keys, initCommon(k) PROVE Flat(at')
  BY <1>1, Flats DEF initCommon
<1>2. CASE openSkeleton
  BY <1>2, Flats DEF openSkeleton, backToModel, Crash
<1>3. CASE readParentSequences
  BY <1>3, Flats DEF readParentSequences, backToModel
<1>4. CASE readBody
  BY <1>4, Flats DEF readBody, backToModel
<1>5. CASE readAttachments
  BY <1>5, Flats DEF readAttachments, backToModel
<1>6. CASE setLOD
  BY <1>6, Flats DEF setLOD, Crash
<1>7. CASE animateModel
  BY <1>7, Flats DEF animateModel, backToModel
<1>8. CASE animateSkeleton
  BY <1>8, Flats DEF animateSkeleton, backToModel
<1>9. CASE openParent
  BY <1>9, Flats DEF openParent
<1>10. ASSUME NEW x \in todo, readAnimsFromFile(x) PROVE Flat(at')
  BY <1>10, Flats DEF readAnimsFromFile
<1>11. CASE animsRead
  BY <1>11, Flats DEF animsRead
<1>12. CASE bonesOfModel
  BY <1>12, Flats DEF bonesOfModel, closeAnims, Sought
<1>13. CASE bonesOfSkeleton
  BY <1>13, Flats DEF bonesOfSkeleton, closeAnims, reopenParent, backToModel, Crash
<1>14. CASE finish
  BY <1>14, Flats DEF finish
<1> QED
  BY <1>1, <1>2, <1>3, <1>4, <1>5, <1>6, <1>7, <1>8, <1>9, <1>10, <1>11, <1>12, <1>13, <1>14 DEF LoadStep

LEMMA SteadyStep == ASSUME LoadInv, Flat(at), Past, [Next]_vars PROVE Flat(at)' /\ Past'
<1> USE FolderAssumption
<1>1. CASE LoadStep
  <2>1. FolderInv /\ FreshInv /\ phase = "ready" /\ phase' = "ready" /\ load' = load
        /\ \A f : Chunked(f)' = Chunked(f)
    BY <1>1, Quiet DEF LoadInv, Settles, FreshInv, ChoiceInv, ListInv
  <2>2. Flat(at)'
    BY <1>1, <2>1, Flattened DEF Flat, Unmoved
  <2>3. Past'
    <3>1. DOMAIN at' \subseteq GameFiles
      BY <1>1, LoadInvStep DEF LoadInv, Typed, Table, Next
    <3>2. \A g \in GameFiles : (\E k : g = Answer(k)) => g.load <= load
      BY <2>1, Answered, NoneAssumption
    <3>3. parent' \in GameFiles \cup {None}
      BY <1>1, LoadInvStep DEF LoadInv, Typed, Next
    <3> QED
      BY <1>1, <2>1, <3>1, <3>2, <3>3, Asked, NoneAssumption DEF Past
  <2> QED
    BY <2>2, <2>3
<1>2. CASE LoadClient /\ UNCHANGED lvars
  <2>1. \A f \in GameFiles : f.load \in Nat
    BY DEF GameFiles
  <2>2. at' = at /\ parent' = parent /\ DOMAIN at \subseteq GameFiles /\ load \in Nat
        /\ parent \in GameFiles \cup {None}
    BY <1>2 DEF lvars, LoadInv, Typed, Table, FreshInv, ChoiceInv, ListInv, FolderInv, FolderTypeOK
  <2>3. openable' = openable /\ (load' = load + 1 \/ load' = load)
        /\ (phase' = "listfile" => load' = load + 1 \/ phase = "listfile")
        /\ (nameId' = nameId \/ load' = load + 1 \/ phase = "listfile")
    BY <1>2 DEF LoadClient, LoadWoW, ListfileRead, LoadWoWFromMpq, Ready, initFromListfile, addCustomFiles, initMpq
  <2>4. Past'
    BY <2>1, <2>2, <2>3 DEF Past
  <2>5. ASSUME NEW f \in DOMAIN at, Unmoved(f)' PROVE Unmoved(f) /\ Chunked(f)' = Chunked(f)
    <3>1. CASE f.kind # "casc"
      BY <3>1 DEF Unmoved, Chunked, Of, KeyOf
    <3>2. CASE f.kind = "casc"
      <4>1. f.load = load' /\ f.load <= load /\ (phase = "listfile" => f.load < load)
        BY <2>5, <3>2 DEF Unmoved, Past
      <4>2. load' = load /\ nameId' = nameId
        BY <2>1, <2>2, <2>3, <4>1
      <4> QED
        BY <2>3, <2>5, <4>2 DEF Unmoved, Chunked, Of, KeyOf, StoredAs
    <3> QED
      BY <3>1, <3>2
  <2>6. Flat(at)'
    BY <2>2, <2>5 DEF Flat
  <2> QED
    BY <2>4, <2>6
<1>3. CASE UNCHANGED vars
  <2>1. UNCHANGED <<at, parent, load, phase, nameId, openable>>
    BY <1>3 DEF vars, lvars, fvars
  <2> QED
    BY <2>1 DEF Flat, Past, Unmoved, Chunked, Of, KeyOf, StoredAs
<1> QED
  BY <1>1, <1>2, <1>3 DEF Next

(* While the model is complete: it is open, and at its main chunk but while the
   skeleton is read; the skeleton is open then; and the animations are listed by
   the file whose bones are read. *)
Away == Has(model, "SKID") /\ pc \in {"parentSequences", "parentAnims", "anims", "bones"}
Par == Answer(Of(Skel).parent)
Fit == /\ model \in DOMAIN at
       /\ Chunked(model) => Has(model, "MD21")
       /\ Unmoved(model)
       /\ Away \/ Right(at, model, "MD21")
       /\ Away => Skel \in DOMAIN at
       /\ pc \in {"anims", "bones"} => \A y \in animfiles : y[2] # model
       /\ pc \in {"anims", "bones"} =>
             IF ~Has(model, "SKID") THEN Of(model).anims # {}
             ELSE IF Has(Skel, "SKPD") THEN parent = Par /\ source = Par
             ELSE parent = None /\ source = Skel
ReadInv == Flat(at) /\ Past /\ (Busy /\ Complete(model) => Fit)

LEMMA Needs ==
  ASSUME Complete(model)
  PROVE  /\ Chunked(model) => Has(model, "SFID")
         /\ Answer(Of(model).skin) # model
         /\ ~Has(model, "SKID") => \A x \in Of(model).anims : Answer(x.file) # model
         /\ ~Has(model, "SKID") /\ Has(model, "SKB1") => Of(model).anims = {}
         /\ Has(model, "SKID") => Skel # None /\ Opens(Skel) /\ Skel # model /\ Chunked(model)
         /\ Has(model, "SKID") /\ ~Has(Skel, "SKPD") =>
               Of(Skel).anims # {} /\ \A x \in Of(Skel).anims : Answer(x.file) # model
         /\ Has(model, "SKID") /\ Has(Skel, "SKPD") =>
               /\ Par # None /\ Opens(Par) /\ Par # model /\ Par # Skel
               /\ Has(Par, "SKS1") /\ Has(Par, "SKB1") /\ Of(Par).anims # {}
               /\ \A x \in Of(Par).anims : Answer(x.file) # model
<1>1. Has(model, "SKID") => Chunked(model)
  BY DEF Has, Chunked
<1> QED
  BY <1>1 DEF Complete, Opened, Apart, Skel, Par

LEMMA Fits ==
  ASSUME LoadInv, LoadStep, UNCHANGED model, Fit, model \in DOMAIN at',
         Right(at', model, "MD21") \/ Away',
         Away' => Skel \in DOMAIN at',
         pc' \in {"anims", "bones"} => \A y \in animfiles' : y[2] # model,
         pc' \in {"anims", "bones"} =>
             IF ~Has(model, "SKID") THEN Of(model).anims # {}
             ELSE IF Has(Skel, "SKPD") THEN parent' = Par /\ source' = Par
             ELSE parent' = None /\ source' = Skel
  PROVE  Fit'
<1>1. /\ Skel' = Skel /\ load' = load
      /\ \A f, c : Has(f, c)' = Has(f, c)
      /\ \A f : Chunked(f)' = Chunked(f) /\ Of(f)' = Of(f)
      /\ \A k : Answer(k)' = Answer(k)
  BY Same, Quiet DEF LoadInv, Settles
<1>2. Par' = Par
  BY <1>1 DEF Par
<1>3. Unmoved(model)' /\ (Chunked(model) => Has(model, "MD21"))' /\ Has(model, "SKID")' = Has(model, "SKID")
  BY <1>1 DEF Fit, Unmoved
<1>4. Has(Skel, "SKPD")' = Has(Skel, "SKPD")
  BY <1>1
<1>5. Right(at', model, "MD21") => Right(at, model, "MD21")'
  BY <1>1 DEF Right
<1> QED
  BY <1>1, <1>2, <1>3, <1>4, <1>5 DEF Fit

(* A step keeps what a complete model needs, and takes no structure from elsewhere. *)
Harmless == (Busy' => Fit') /\ ~Fails

LEMMA BackToModel ==
  ASSUME Fit, NEW o, model \in DOMAIN o, Has(model, "SKID") \/ Right(o, model, "MD21")
  PROVE  Right(backToModel(o), model, "MD21")
<1>1. CASE Chunked(model)
  BY <1>1, Rights DEF Fit, backToModel
<1>2. CASE ~Chunked(model)
  <2>1. ~Has(model, "SKID")
    BY <1>2 DEF Has, Chunked
  <2> QED
    BY <1>2, <2>1, Rights DEF backToModel
<1> QED
  BY <1>1, <1>2

LEMMA FitSkeleton == ASSUME LoadInv, Fit, Complete(model), openSkeleton PROVE Harmless
<1> DEFINE a == setChunk(at, model, "SKID")
           b == Open(a, Skel)
           o == setChunk(b, Skel, "SKS1")
<1>1. LoadStep /\ pc = "sequences" /\ Has(model, "SKID") /\ Skel # None /\ Opens(Skel) /\ Skel # model
  BY Needs DEF LoadStep, openSkeleton
<1>2. /\ UNCHANGED <<model, misread>>
      /\ \/ pc' = "parentSequences" /\ at' = setChunk(o, Skel, "SKPD")
         \/ pc' = "body" /\ at' = backToModel(Close(o, {Skel}))
  BY <1>1 DEF openSkeleton, Skel
<1>3. model \in DOMAIN o /\ Skel \in DOMAIN o
  BY <1>1, Doms, Kept DEF Fit
<1> HIDE DEF o
<1>4. CASE pc' = "parentSequences" /\ at' = setChunk(o, Skel, "SKPD")
  <2>1. model \in DOMAIN at' /\ Skel \in DOMAIN at'
    BY <1>3, <1>4, Doms
  <2>2. Away'
    BY <1>1, <1>2, <1>4, Same DEF Away
  <2> QED
    BY <1>1, <1>2, <1>4, <2>1, <2>2, Fits DEF Harmless, Fails
<1>5. CASE pc' = "body" /\ at' = backToModel(Close(o, {Skel}))
  <2>1. model \in DOMAIN Close(o, {Skel})
    BY <1>1, <1>3, Doms
  <2>2. Right(at', model, "MD21") /\ model \in DOMAIN at'
    BY <1>1, <1>5, <2>1, Doms, BackToModel DEF Right
  <2> QED
    BY <1>1, <1>2, <1>5, <2>2, Fits DEF Harmless, Fails, Away
<1> QED
  BY <1>2, <1>4, <1>5

LEMMA FitParentSequences == ASSUME LoadInv, Fit, Complete(model), readParentSequences PROVE Harmless
<1> DEFINE o == setChunk(Open(at, Par), Par, "SKS1")
<1>1. /\ LoadStep /\ pc = "parentSequences" /\ Has(model, "SKID") /\ skel = Skel
      /\ Skel # model /\ Par # model /\ Par # None
  BY Needs DEF LoadStep, readParentSequences, LoadInv, Settles
<1>2. /\ UNCHANGED <<model, misread>> /\ pc' = "body"
      /\ \E F \in SUBSET {Par, Skel} : at' = backToModel(Close(o, F))
  BY <1>1 DEF readParentSequences, Par
<1>3. PICK F \in SUBSET {Par, Skel} : at' = backToModel(Close(o, F))
  BY <1>2
<1>4. model \in DOMAIN Close(o, F)
  BY <1>1, Doms DEF Fit
<1> HIDE DEF o
<1>5. Right(at', model, "MD21") /\ model \in DOMAIN at'
  BY <1>1, <1>3, <1>4, Doms, BackToModel DEF Right
<1> QED
  BY <1>1, <1>2, <1>5, Fits DEF Harmless, Fails, Away

LEMMA FitBody == ASSUME LoadInv, Fit, Complete(model), readBody PROVE Harmless
<1> DEFINE a == setChunk(at, model, "SFID")
           b == backToModel(a)
           c == setChunk(b, model, "TXID")
<1>1. LoadStep /\ pc \in {"sequences", "body"}
  BY DEF LoadStep, readBody
<1>2. /\ model' = model /\ pc' = "attachments" /\ at' = backToModel(c)
      /\ misread' = (misread \/ ~Right(at, model, "MD21") \/ ~Right(at', model, "MD21"))
  BY DEF readBody
<1>3. Right(at, model, "MD21") /\ model \in DOMAIN at
  BY <1>1 DEF Fit, Away
<1>4. CASE Chunked(model)
  <2>1. model \in DOMAIN c
    BY <1>3, Doms DEF backToModel
  <2>2. Right(at', model, "MD21") /\ model \in DOMAIN at'
    BY <1>2, <1>4, <2>1, Rights DEF Fit, backToModel, Right
  <2> QED
    BY <1>1, <1>2, <1>3, <2>2, Fits DEF Harmless, Fails, Away
<1>5. CASE ~Chunked(model)
  <2>1. Right(a, model, "MD21")
    BY <1>3, <1>5, Rights
  <2> HIDE DEF a
  <2>2. Right(b, model, "MD21")
    BY <1>5, <2>1, Rights DEF backToModel
  <2> HIDE DEF b
  <2>3. Right(c, model, "MD21")
    BY <1>5, <2>2, Rights
  <2> HIDE DEF c
  <2>4. Right(at', model, "MD21") /\ model \in DOMAIN at'
    BY <1>2, <1>5, <2>3, Rights DEF backToModel, Right
  <2> QED
    BY <1>1, <1>2, <1>3, <2>4, Fits DEF Harmless, Fails, Away
<1> QED
  BY <1>4, <1>5

LEMMA FitAttachments == ASSUME LoadInv, Fit, Complete(model), readAttachments PROVE Harmless
<1> DEFINE a == setChunk(at, model, "SKID")
           b == Open(a, Skel)
           o == setChunk(b, Skel, "SKA1")
<1>1. /\ LoadStep /\ pc = "attachments" /\ Right(at, model, "MD21") /\ model \in DOMAIN at
      /\ Has(model, "SKID") => Skel # model
  BY Needs DEF LoadStep, readAttachments, Fit, Away
<1>2. model' = model /\ pc' = "views"
  BY DEF readAttachments
<1>3. CASE ~Has(model, "SKID")
  <2>1. at' = at /\ misread' = misread
    BY <1>3 DEF readAttachments
  <2> QED
    BY <1>1, <1>2, <2>1, Fits DEF Harmless, Fails, Away
<1>4. CASE Has(model, "SKID")
  <2>1. /\ at' = backToModel(Close(o, {Skel}))
        /\ misread' = (misread \/ (Has(Skel, "SKA1") /\ Skel \in DOMAIN o /\ ~Right(o, Skel, "SKA1")))
    BY <1>4 DEF readAttachments, Skel
  <2>2. Skel \in DOMAIN o /\ Has(Skel, "SKA1") => Right(o, Skel, "SKA1")
    BY Doms, Rights
  <2>3. model \in DOMAIN Close(o, {Skel})
    BY <1>1, <1>4, Doms
  <2> HIDE DEF o
  <2>4. Right(at', model, "MD21") /\ model \in DOMAIN at'
    BY <1>4, <2>1, <2>3, Doms, BackToModel DEF Right
  <2> QED
    BY <1>1, <1>2, <2>1, <2>2, <2>4, Fits DEF Harmless, Fails, Away
<1> QED
  BY <1>3, <1>4

LEMMA FitViews == ASSUME LoadInv, Fit, Complete(model), setLOD PROVE Harmless
<1> DEFINE g == Answer(Of(model).skin)
           o == IF g = None THEN at ELSE Open(at, g)
<1>1. /\ LoadStep /\ pc = "views" /\ Right(at, model, "MD21") /\ model \in DOMAIN at
      /\ g # model /\ (Chunked(model) => Has(model, "SFID"))
  BY Needs DEF LoadStep, setLOD, Fit, Away
<1>2. /\ model' = model /\ pc' \in {"animate", "finish"} /\ at' = Close(o, {g})
      /\ misread' = (misread \/ ~Right(o, model, "MD21"))
  BY <1>1 DEF setLOD
<1>3. Right(o, model, "MD21")
  BY <1>1, Rights
<1> HIDE DEF o, g
<1>4. Right(at', model, "MD21")
  BY <1>1, <1>2, <1>3, Rights
<1>5. model \in DOMAIN at'
  BY <1>4 DEF Right
<1> QED
  BY <1>1, <1>2, <1>3, <1>4, <1>5, Fits DEF Harmless, Fails, Away

LEMMA FitModel == ASSUME LoadInv, Fit, Complete(model), animateModel PROVE Harmless
<1> DEFINE a == setChunk(at, model, "AFID")
<1>1. /\ LoadStep /\ pc = "animate" /\ ~Has(model, "SKID")
      /\ Right(at, model, "MD21") /\ model \in DOMAIN at
  BY DEF LoadStep, animateModel, Fit, Away
<1>2. /\ UNCHANGED <<model, misread>> /\ pc' \in {"finish", "anims"} /\ animfiles' = {}
      /\ at' = at \/ at' = backToModel(a)
  BY DEF animateModel
<1>3. Right(backToModel(a), model, "MD21")
  <2>1. CASE Chunked(model)
    BY <1>1, <2>1, Doms, Rights DEF Fit, backToModel
  <2>2. CASE ~Chunked(model)
    <3>1. Right(a, model, "MD21")
      BY <1>1, <2>2, Rights
    <3> HIDE DEF a
    <3> QED
      BY <2>2, <3>1, Rights DEF backToModel
  <2> QED
    BY <2>1, <2>2
<1> HIDE DEF a
<1>4. Right(at', model, "MD21")
  BY <1>1, <1>2, <1>3
<1>5. model \in DOMAIN at' /\ ~Away'
  BY <1>1, <1>2, <1>4, Same DEF Right, Away
<1>6. pc' = "anims" => ~Has(model, "SKID") /\ Of(model).anims # {}
  BY DEF animateModel
<1> QED
  BY <1>1, <1>2, <1>4, <1>5, <1>6, Fits DEF Harmless, Fails

LEMMA FitAnimated == ASSUME LoadInv, Fit, Complete(model), animateSkeleton PROVE Harmless
<1> DEFINE a == setChunk(at, model, "SKID")
           b == Open(a, Skel)
           c == setChunk(b, Skel, "AFID")
           o == setChunk(c, Skel, "SKS1")
<1>1. /\ LoadStep /\ pc = "animate" /\ Has(model, "SKID") /\ model \in DOMAIN at
      /\ Skel # model /\ Opens(Skel)
  BY Needs DEF LoadStep, animateSkeleton, Fit
<1>2. /\ UNCHANGED <<model, misread>> /\ animfiles' = {} /\ parent' = None
      /\ \/ pc' = "finish" /\ at' = backToModel(Close(o, {Skel}))
         \/ pc' = "parentAnims" /\ at' = setChunk(o, Skel, "SKPD")
         \/ pc' = "anims" /\ at' = o /\ ~Has(Skel, "SKPD") /\ source' = Skel
  BY DEF animateSkeleton, Skel
<1>3. model \in DOMAIN o /\ Skel \in DOMAIN o
  BY <1>1, Doms, Kept
<1> HIDE DEF o
<1>4. CASE pc' = "finish" /\ at' = backToModel(Close(o, {Skel}))
  <2>1. model \in DOMAIN Close(o, {Skel})
    BY <1>1, <1>3, Doms
  <2>2. Right(at', model, "MD21") /\ model \in DOMAIN at'
    BY <1>1, <1>4, <2>1, BackToModel DEF Right
  <2> QED
    BY <1>1, <1>2, <1>4, <2>2, Fits DEF Harmless, Fails, Away
<1>5. CASE pc' = "parentAnims" /\ at' = setChunk(o, Skel, "SKPD")
  <2>1. model \in DOMAIN at' /\ Skel \in DOMAIN at'
    BY <1>3, <1>5, Doms
  <2>2. Away'
    BY <1>1, <1>2, <1>5, Same DEF Away
  <2> QED
    BY <1>1, <1>2, <1>5, <2>1, <2>2, Fits DEF Harmless, Fails
<1>6. CASE pc' = "anims" /\ at' = o /\ ~Has(Skel, "SKPD") /\ source' = Skel
  <2>1. Away'
    BY <1>1, <1>2, <1>6, Same DEF Away
  <2> QED
    BY <1>1, <1>2, <1>3, <1>6, <2>1, Fits DEF Harmless, Fails
<1> QED
  BY <1>2, <1>4, <1>5, <1>6

LEMMA FitParent == ASSUME LoadInv, Fit, Complete(model), openParent PROVE Harmless
<1> DEFINE a == Open(at, Par)
           b == setChunk(a, Par, "AFID")
           o == setChunk(b, Par, "SKS1")
<1>1. /\ LoadStep /\ pc = "parentAnims" /\ Has(model, "SKID") /\ skel = Skel /\ Has(Skel, "SKPD")
      /\ Par # None /\ Opens(Par) /\ Has(Par, "SKS1") /\ animfiles = {}
      /\ model \in DOMAIN at /\ Skel \in DOMAIN at
  BY Needs DEF LoadStep, openParent, LoadInv, Settles, Fit, Away
<1>2. Par \in DOMAIN o /\ model \in DOMAIN o /\ Skel \in DOMAIN o
  BY <1>1, Doms, Kept
<1>3. Par = Answer(Of(skel).parent)
  BY <1>1 DEF Par
<1>4. /\ UNCHANGED <<model, misread, animfiles>> /\ parent' = Par /\ source' = Par
      /\ pc' = "anims" /\ at' = o
  BY <1>1, <1>2, <1>3 DEF openParent
<1>5. Away'
  BY <1>1, <1>4, Same DEF Away
<1> HIDE DEF o
<1> QED
  BY <1>1, <1>2, <1>4, <1>5, Fits DEF Harmless, Fails

LEMMA FitAnimation ==
  ASSUME LoadInv, Fit, Complete(model), NEW x \in todo, readAnimsFromFile(x) PROVE Harmless
<1> DEFINE f == Answer(x.file)
           o == IF f = None THEN at ELSE setChunk(Open(at, f), f, "AFSB")
<1>1. /\ LoadStep /\ pc = "anims" /\ model \in DOMAIN at
      /\ Away \/ Right(at, model, "MD21")
      /\ Away => Skel \in DOMAIN at
      /\ \A y \in animfiles : y[2] # model
  BY DEF LoadStep, readAnimsFromFile, Fit
<1>2. /\ UNCHANGED <<pc, model, parent, source, misread>> /\ at' = o
      /\ animfiles' = animfiles \/ (f # None /\ animfiles' = keepAnim(x, f))
  BY DEF readAnimsFromFile, usable
<1>3. f # model
  <2>1. x \in Of(source).anims /\ (~Has(model, "SKID") => source = model)
    BY <1>1 DEF LoadInv, Settles
  <2> QED
    BY <1>1, <2>1, Needs DEF Fit
<1>4. model \in DOMAIN o /\ (Right(at, model, "MD21") => Right(o, model, "MD21"))
      /\ (Skel \in DOMAIN at => Skel \in DOMAIN o)
  BY <1>1, <1>3, Doms, Rights
<1> HIDE DEF f, o
<1>5. \A y \in animfiles' : y[2] # model
  BY <1>1, <1>2, <1>3 DEF keepAnim
<1>6. Away' <=> Away
  BY <1>1, <1>2, Same DEF Away
<1>7. IF ~Has(model, "SKID") THEN Of(model).anims # {}
       ELSE IF Has(Skel, "SKPD") THEN parent' = Par /\ source' = Par
       ELSE parent' = None /\ source' = Skel
  BY <1>1, <1>2 DEF Fit
<1> QED
  BY <1>1, <1>2, <1>4, <1>5, <1>6, <1>7, Fits DEF Harmless, Fails

LEMMA FitAnimations == ASSUME LoadInv, Fit, Complete(model), animsRead PROVE Harmless
<1>1. /\ LoadStep /\ pc = "anims" /\ model \in DOMAIN at
      /\ Away \/ Right(at, model, "MD21")
      /\ Away => Skel \in DOMAIN at
      /\ \A y \in animfiles : y[2] # model
  BY DEF LoadStep, animsRead, Fit
<1>2. /\ UNCHANGED <<model, parent, source, misread, animfiles>> /\ pc' = "bones"
      /\ at' = IF parent # None THEN Close(at, {parent}) ELSE at
  BY DEF animsRead
<1>3. parent # None => parent # model /\ (Away => parent # Skel)
  <2>1. ~Has(model, "SKID") => parent = None
    BY <1>1 DEF LoadInv, Settles
  <2> QED
    BY <1>1, <2>1, Needs DEF Fit
<1>4. /\ model \in DOMAIN at'
      /\ Right(at, model, "MD21") => Right(at', model, "MD21")
      /\ Away => Skel \in DOMAIN at'
  <2>1. CASE parent = None
    BY <1>1, <1>2, <2>1
  <2>2. CASE parent # None
    <3>1. at' = Close(at, {parent})
      BY <1>2, <2>2
    <3> QED
      BY <1>1, <1>3, <2>2, <3>1, Doms, Rights
  <2> QED
    BY <2>1, <2>2
<1>5. Away' <=> Away
  BY <1>1, <1>2, Same DEF Away
<1>6. IF ~Has(model, "SKID") THEN Of(model).anims # {}
       ELSE IF Has(Skel, "SKPD") THEN parent' = Par /\ source' = Par
       ELSE parent' = None /\ source' = Skel
  BY <1>1, <1>2 DEF Fit
<1> QED
  BY <1>1, <1>2, <1>4, <1>5, <1>6, Fits DEF Harmless, Fails

LEMMA FitModelBones == ASSUME LoadInv, Fit, Complete(model), bonesOfModel PROVE Harmless
<1> DEFINE F == {y[2] : y \in animfiles}
<1>1. /\ LoadStep /\ pc = "bones" /\ model \in DOMAIN at
      /\ \A y \in animfiles : y[2] # model
  BY DEF LoadStep, bonesOfModel, Fit
<1>2. ~Has(model, "SKID") /\ source = model
  BY <1>1 DEF LoadInv, Settles, Busy, bonesOfModel
<1>a. Sought(at) = at
  <2>1. ~Has(model, "SKB1")
    BY <1>1, <1>2, Needs DEF Fit
  <2> QED
    BY <1>2, <2>1 DEF Sought, setChunk
<1>3. Right(at, model, "MD21") /\ Tracks(at, "MD21")
  BY <1>1, <1>2 DEF Fit, Away, Tracks
<1>4. UNCHANGED <<model, misread>> /\ pc' = "finish" /\ at' = Close(at, F)
  BY <1>3, <1>a DEF bonesOfModel, closeAnims, LoadInv, Typed
<1>5. model \notin F
  BY <1>1
<1> HIDE DEF F
<1>6. Right(at', model, "MD21")
  BY <1>3, <1>4, <1>5, Rights
<1>7. model \in DOMAIN at'
  BY <1>6 DEF Right
<1> QED
  BY <1>1, <1>4, <1>6, <1>7, Fits DEF Harmless, Fails, Away

LEMMA FitSkeletonBones == ASSUME LoadInv, Fit, Complete(model), bonesOfSkeleton PROVE Harmless
<1> DEFINE F == {y[2] : y \in animfiles}
           use == IF parent = None THEN skel ELSE parent
           a == setChunk(at, skel, "SKB1")
           o == reopenParent(a)
<1>1. /\ LoadStep /\ pc = "bones" /\ model \in DOMAIN at /\ Away
      /\ \A y \in animfiles : y[2] # model
      /\ Has(model, "SKID") /\ skel = Skel /\ Skel # model /\ Skel \in DOMAIN at
      /\ \/ parent = None /\ source = Skel /\ Of(Skel).anims # {} /\ Skel # None
         \/ /\ parent = Par /\ source = Par /\ Par # None /\ Opens(Par) /\ Par # Skel /\ Par # model
            /\ Has(Par, "SKB1") /\ Of(Par).anims # {}
  <2>1. LoadStep /\ pc = "bones" /\ skel # None
    BY DEF LoadStep, bonesOfSkeleton
  <2>2. Has(model, "SKID") /\ skel = Skel /\ Away
    BY <2>1 DEF LoadInv, Settles, Away
  <2> QED
    BY <2>1, <2>2, Needs DEF Fit
<1>2. model \notin F
  BY <1>1
<1>3. CASE ~Has(skel, "SKB1")
  <2>1. UNCHANGED <<model, misread>> /\ pc' = "finish" /\ at' = backToModel(Close(Close(at, {skel}), F))
    BY <1>3 DEF bonesOfSkeleton, closeAnims
  <2> HIDE DEF F
  <2>2. model \in DOMAIN Close(Close(at, {skel}), F)
    BY <1>1, <1>2, Doms
  <2>3. Right(at', model, "MD21") /\ model \in DOMAIN at'
    BY <1>1, <2>1, <2>2, BackToModel DEF Right
  <2> QED
    BY <1>1, <2>1, <2>3, Fits DEF Harmless, Fails, Away
<1>4. CASE Has(skel, "SKB1")
  <2>1. use \in DOMAIN o /\ Right(o, use, "SKB1") /\ model \in DOMAIN o /\ use = source /\ use # model
    <3>1. CASE parent = None
      BY <1>1, <1>4, <3>1, Doms, Rights DEF reopenParent
    <3>2. CASE parent # None
      <4> DEFINE c == setChunk(Open(a, parent), parent, "SKB1")
      <4>1. parent \in DOMAIN c /\ model \in DOMAIN c /\ Right(c, parent, "SKB1")
        BY <1>1, <3>2, Doms, Kept, Rights
      <4>2. o = Close(c, {skel}) /\ use = parent /\ source = parent /\ parent \notin {skel} /\ model \notin {skel}
            /\ parent # model
        BY <1>1, <3>2 DEF reopenParent
      <4> HIDE DEF o, use, c
      <4> QED
        BY <4>1, <4>2, Doms, Rights
    <3> QED
      BY <3>1, <3>2
  <2>2. source # None /\ Of(source).anims # {} /\ Tracks(o, "SKB1")
    BY <1>1, <2>1 DEF Tracks
  <2> HIDE DEF F, o
  <2>3. /\ model' = model /\ pc' = "finish" /\ at' = Close(backToModel(Close(o, {use, skel})), F)
        /\ misread' = misread
    BY <1>4, <2>1, <2>2 DEF bonesOfSkeleton, closeAnims, F, o, LoadInv, Typed
  <2>4. model \in DOMAIN Close(o, {use, skel})
    BY <1>1, <2>1, Doms
  <2>5. Right(backToModel(Close(o, {use, skel})), model, "MD21")
    BY <1>1, <2>4, BackToModel
  <2>6. Right(at', model, "MD21")
    BY <1>2, <2>3, <2>5, Rights
  <2>7. model \in DOMAIN at'
    BY <2>6 DEF Right
  <2> QED
    BY <1>1, <2>3, <2>6, <2>7, Fits DEF Harmless, Fails, Away
<1> QED
  BY <1>3, <1>4

LEMMA FitEnds == ASSUME LoadInv, Fit, finish PROVE Harmless
<1>1. pc = "finish" /\ Right(at, model, "MD21")
  BY DEF finish, Fit, Away
<1> QED
  BY <1>1 DEF finish, Harmless, Fails, Busy, LoadInv, Typed

LEMMA FitStarts ==
  ASSUME LoadInv, Flat(at), NEW k \in Keys, initCommon(k) PROVE Harmless
<1> DEFINE f == Answer(k)
           o == Open(at, f)
<1>1. /\ LoadStep /\ pc = "idle" /\ phase = "ready" /\ f # None /\ model' = f /\ misread' = FALSE
      /\ \/ pc' = "idle"
         \/ /\ pc' = "sequences" /\ at' = setChunk(o, f, "MD21")
            /\ f \in DOMAIN o /\ (Chunked(f) => Has(f, "MD21"))
  BY DEF LoadStep, initCommon
<1>2. /\ \A g, c : Has(g, c)' = Has(g, c)
      /\ \A g : Chunked(g)' = Chunked(g)
      /\ load' = load
  BY <1>1, Quiet DEF Busy, LoadInv
<1>3. Unmoved(f)
  BY <1>1, AnswerFresh DEF Unmoved, LoadInv
<1>4. Flat(o)
  BY Flats
<1> HIDE DEF o, f
<1>5. CASE pc' = "idle"
  BY <1>1, <1>5 DEF Harmless, Fails, Busy
<1>6. CASE pc' = "sequences"
  <2>1. Right(setChunk(o, f, "MD21"), f, "MD21")
    <3>1. CASE Chunked(f)
      BY <1>1, <1>6, <3>1, Rights
    <3>2. CASE ~Chunked(f)
      <4>1. Right(o, f, "MD21")
        BY <1>1, <1>3, <1>4, <1>6, <3>2 DEF Flat, Right
      <4> QED
        BY <3>2, <4>1, Rights
    <3> QED
      BY <3>1, <3>2
  <2>2. Right(at, model, "MD21")' /\ (model \in DOMAIN at)'
    BY <1>1, <1>2, <1>6, <2>1 DEF Right
  <2>3. Unmoved(model)' /\ (Chunked(model) => Has(model, "MD21"))'
    BY <1>1, <1>2, <1>3, <1>6 DEF Unmoved
  <2>4. Fit'
    BY <1>6, <2>2, <2>3 DEF Fit, Away
  <2> QED
    BY <1>1, <1>6, <2>4 DEF Harmless, Fails
<1> QED
  BY <1>1, <1>5, <1>6

LEMMA LoadHarmless == ASSUME LoadInv, ReadInv, LoadStep, Complete(model)' PROVE Harmless
<1>1. CASE \E k \in Keys : initCommon(k)
  BY <1>1, FitStarts DEF ReadInv
<1>2. CASE ~\E k \in Keys : initCommon(k)
  <2>1. model' = model /\ Busy
    BY <1>2 DEF LoadStep, openSkeleton, readParentSequences, readBody, readAttachments, setLOD, animateModel,
           animateSkeleton, openParent, readAnimsFromFile, animsRead, bonesOfModel, bonesOfSkeleton, finish,
           Crash, Busy
  <2>2. Complete(model)
    BY <2>1, Quiet DEF LoadInv, Settles
  <2>3. Fit
    BY <2>1, <2>2 DEF ReadInv
  <2> QED
    BY <1>2, <2>2, <2>3, FitSkeleton, FitParentSequences, FitBody, FitAttachments, FitViews, FitModel, FitAnimated,
       FitParent, FitAnimation, FitAnimations, FitModelBones, FitSkeletonBones, FitEnds DEF LoadStep
<1> QED
  BY <1>1, <1>2

LEMMA ReadInvStep == LoadInv /\ ReadInv /\ [Next]_vars => ReadInv'
<1> SUFFICES ASSUME LoadInv, ReadInv, [Next]_vars PROVE ReadInv'
  OBVIOUS
<1>1. Flat(at)' /\ Past'
  BY SteadyStep DEF ReadInv
<1>2. ASSUME Busy', Complete(model)' PROVE Fit'
  <2>1. CASE LoadStep
    BY <1>2, <2>1, LoadHarmless DEF Harmless
  <2>2. CASE pc = "idle" /\ UNCHANGED lvars
    BY <1>2, <2>2 DEF Busy, lvars
  <2>3. CASE UNCHANGED vars
    <3>1. UNCHANGED <<dir, nameId, mpq, load, openable, archives>> /\ UNCHANGED lvars
      BY <2>3 DEF vars, fvars
    <3>2. \A k : Answer(k)' = Answer(k)
      BY <3>1 DEF Answer, byId, byName, New
    <3>3. /\ \A f : Of(f)' = Of(f) /\ Opens(f)' = Opens(f) /\ Chunked(f)' = Chunked(f)
          /\ \A f, c : Has(f, c)' = Has(f, c)
      BY <3>1, ContentStays
    <3>4. \A k : Opened(k)' = Opened(k)
      BY <3>2, <3>3 DEF Opened
    <3>5. \A f, s : Apart(f, s)' = Apart(f, s)
      BY <3>2, <3>3 DEF Apart
    <3>6. \A f : Complete(f)' = Complete(f)
      BY <3>2, <3>3, <3>4, <3>5 DEF Complete
    <3>7. UNCHANGED <<model, pc, at, parent, source, animfiles, load>>
      BY <3>1 DEF lvars
    <3>8. Fit
      BY <1>2, <3>6, <3>7 DEF ReadInv, Busy
    <3>9. Skel' = Skel /\ Par' = Par
      BY <3>2, <3>3, <3>7 DEF Skel, Par
    <3>10. Right(at, model, "MD21")' = Right(at, model, "MD21") /\ Unmoved(model)' = Unmoved(model)
      BY <3>3, <3>7 DEF Right, Unmoved
    <3>11. Away' = Away
      BY <3>3, <3>7 DEF Away
    <3> QED
      BY <3>3, <3>7, <3>8, <3>9, <3>10, <3>11 DEF Fit
  <2> QED
    BY <2>1, <2>2, <2>3 DEF Next
<1> QED
  BY <1>1, <1>2 DEF ReadInv

(* ReadsRight: a load follows no null pointer and takes no structure from another
   chunk or from a file that is not open, unless a file that the model names is
   missing, does not open, lacks a chunk or is named twice, or the model has no
   skeleton but a chunk of bones of its own beside animations. *)
THEOREM RightBytes == Spec => ReadsRight
<1>1. LoadInit => ReadInv
  BY DEF LoadInit, NoFiles, ReadInv, Flat, Past, Busy
<1>2. LoadInv /\ ReadInv /\ [Next]_vars => [Fails => ~Complete(model)]_vars
  <2> SUFFICES ASSUME LoadInv, ReadInv, Next, Fails, Complete(model) PROVE FALSE
    BY DEF vars, lvars
  <2>1. CASE LoadStep
    <3>1. CASE \E k \in Keys : initCommon(k)
      BY <3>1 DEF initCommon, Fails
    <3>2. CASE ~\E k \in Keys : initCommon(k)
      <4>1. model' = model
        BY <2>1, <3>2 DEF LoadStep, openSkeleton, readParentSequences, readBody, readAttachments, setLOD,
           animateModel, animateSkeleton, openParent, readAnimsFromFile, animsRead, bonesOfModel, bonesOfSkeleton,
           finish, Crash
      <4>2. Complete(model)'
        BY <2>1, <4>1, Quiet DEF LoadInv, Settles
      <4> QED
        BY <2>1, <4>2, LoadHarmless DEF Harmless
    <3> QED
      BY <3>1, <3>2
  <2>2. CASE UNCHANGED lvars
    BY <2>2 DEF lvars, Fails
  <2> QED
    BY <2>1, <2>2 DEF Next
<1> QED
  BY <1>1, <1>2, ReadInvStep, LoadInvariant, PTL DEF Spec, ReadsRight
=============================================================================
