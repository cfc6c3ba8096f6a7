----------------------------- MODULE GameFolder -----------------------------
(***************************************************************************)
(* The directory of game files: core::GameFolder, wow::WoWFolder and the   *)
(* Container below them.  It lists the files of a client, lets files of the*)
(* user's own folder stand for them, and answers requests by name and by   *)
(* identifier, opening by identifier or creating by name what it does not  *)
(* list.                                                                   *)
(*                                                                         *)
(* A GameFile is the record of what its constructor was given and of the   *)
(* load that made it.  A load of a client runs to its end on the UI thread;*)
(* it is cut after each line of the listfile, each custom file and each    *)
(* name of the archives because their order is not specified, and nobody   *)
(* asks for files meanwhile.  The listfile has no line twice.              *)
(***************************************************************************)
EXTENDS Naturals

CONSTANTS Ids, Names,     \* identifiers (positive) and names of files
          Lines,          \* the listfile: pairs of an identifier and a name
          Present,        \* identifiers that CASCFolder::fileExists knows
          Openables,      \* possible sets of identifiers that the storage opens
          CustomDir,      \* the names of the files in the user's folder
          Archived,       \* the names that the MPQ archives hold
          MpqListed,      \* those of them that listAllFiles finds
          MaxLoads,       \* bound: clients loaded
          NoId,           \* the identifier -1
          None            \* no file, no name

ASSUME FolderAssumption ==
    /\ NoId \notin Ids /\ Ids \cap Names = {} /\ Lines \subseteq Ids \X Names /\ Present \subseteq Ids
    /\ Openables \subseteq SUBSET Ids /\ CustomDir \subseteq Names
    /\ MpqListed \subseteq Archived /\ Archived \subseteq Names /\ MaxLoads \in Nat

Kinds == {"casc", "unk", "disk", "mpq"}
GameFiles == [kind : Kinds, name : Names \cup {None}, id : Ids \cup {NoId}, load : 1..MaxLoads]
ASSUME NoneAssumption == None \notin GameFiles \cup Names

VARIABLES dir,      \* the folder: children, m_nameMap and m_idMap
          nameId,   \* m_nameIdMap
          phase,    \* "none", then "listfile", "custom", "archives" or "ready"
          left,     \* the lines, paths or names that the load has yet to visit
          mpq,      \* storage of m_clientProfile: MPQ and not CASC
          bypass,   \* customFilesConflictPolicy
          load,     \* clients loaded so far
          openable, \* identifiers that the storage opens
          archives, \* names that the archives of an MPQ client hold
          deleted   \* deleted GameFiles

fvars == <<dir, nameId, phase, left, mpq, bypass, load, openable, archives, deleted>>

(***************************************************************************)
(* The maps.  A file that was opened by identifier only is called          *)
(* "File????????.unk": requests by name are folded to lower case and never *)
(* find it, so it has no name here.                                        *)
(***************************************************************************)
Folders == [children : SUBSET GameFiles,
            nameMap : [Names -> GameFiles \cup {None}],
            idMap : [Ids \cup {NoId} -> GameFiles \cup {None}]]

EmptyFolder == [children |-> {}, nameMap |-> [n \in Names |-> None],
                idMap |-> [i \in Ids \cup {NoId} |-> None]]
NoNameIds == [n \in Names |-> NoId]

onChildAdded(d, f) ==
    [d EXCEPT !.nameMap = IF f.name \in Names THEN [@ EXCEPT ![f.name] = f] ELSE @,
              !.idMap[f.id] = f]
addChild(d, f) == [onChildAdded(d, f) EXCEPT !.children = @ \cup {f}]

onChildRemoved(d, f) ==
    [d EXCEPT !.nameMap = IF f.name \in Names THEN [@ EXCEPT ![f.name] = None] ELSE @,
              !.idMap[f.id] = None]
\* A mutation: the set keeps it.
forgetChild(d, f) == onChildRemoved(d, f)
removeChild(d, f) == [onChildRemoved(d, f) EXCEPT !.children = @ \ {f}]

New(k, n, i) == [kind |-> k, name |-> n, id |-> i, load |-> load]

(***************************************************************************)
(* Loading a client: LoadWoW and LoadWoWFromMpq.                           *)
(***************************************************************************)
Init == /\ dir = EmptyFolder /\ nameId = NoNameIds /\ deleted = {}
        /\ phase = "none" /\ left = {} /\ mpq = FALSE /\ bypass = FALSE /\ load = 0
        /\ openable \in Openables /\ archives = {}

Idle == phase \in {"none", "ready"} /\ load < MaxLoads

\* A second CASC client is read into the folder of the first.
LoadWoW == /\ Idle /\ load' = load + 1
           /\ phase' = "listfile" /\ left' = Lines
           /\ mpq' = FALSE /\ archives' = {} /\ bypass' \in BOOLEAN
           /\ IF phase = "none" \/ mpq THEN dir' = EmptyFolder /\ nameId' = NoNameIds
                                       ELSE UNCHANGED <<dir, nameId>>
           /\ UNCHANGED <<openable, deleted>>

\* A mutation: names that the folder has are not added again.
listOnce(d, l) == IF l[1] \in Present /\ d.nameMap[l[2]] = None
                  THEN addChild(d, New("casc", l[2], l[1])) ELSE d
listLine(d, l) == IF l[1] \in Present THEN addChild(d, New("casc", l[2], l[1])) ELSE d

initFromListfile(l) ==
    /\ phase = "listfile" /\ l \in left /\ left' = left \ {l}
    /\ nameId' = [nameId EXCEPT ![l[2]] = l[1]]
    /\ dir' = listLine(dir, l)
    /\ UNCHANGED <<phase, mpq, bypass, load, openable, archives, deleted>>

ListfileRead == /\ phase = "listfile" /\ left = {}
                /\ phase' = "custom" /\ left' = CustomDir
                /\ UNCHANGED <<dir, nameId, mpq, bypass, load, openable, archives, deleted>>

\* The identifier of a custom file: that of the file it stands for, or of the
\* listfile.  A mutation: the listfile's is not looked up.
replacedId(p) == IF dir.nameMap[p] = None THEN NoId ELSE dir.nameMap[p].id
originalId(p) == IF dir.nameMap[p] = None THEN nameId[p] ELSE dir.nameMap[p].id

addCustomFiles(p) ==
    /\ phase = "custom" /\ p \in left /\ left' = left \ {p}
    /\ LET original == dir.nameMap[p]
           new == New("disk", p, originalId(p))
       IN  IF original = None
           THEN dir' = addChild(dir, new) /\ UNCHANGED deleted
           ELSE IF bypass
           THEN /\ dir' = addChild(removeChild(dir, original), new)
                /\ deleted' = deleted \cup {original}
           ELSE UNCHANGED <<dir, deleted>>
    /\ UNCHANGED <<nameId, phase, mpq, bypass, load, openable, archives>>

\* A fresh folder; with no archive in it nothing is listed.
LoadWoWFromMpq == /\ Idle /\ load' = load + 1
                  /\ archives' \in {{}, Archived}
                  /\ phase' = "archives" /\ left' = MpqListed \cap archives'
                  /\ mpq' = TRUE /\ dir' = EmptyFolder /\ nameId' = NoNameIds
                  /\ UNCHANGED <<bypass, openable, deleted>>

initMpq(n) == /\ phase = "archives" /\ n \in left /\ left' = left \ {n}
              /\ dir' = addChild(dir, New("mpq", n, NoId))
              /\ UNCHANGED <<nameId, phase, mpq, bypass, load, openable, archives, deleted>>

Ready == /\ phase \in {"custom", "archives"} /\ left = {}
         /\ phase' = "ready"
         /\ UNCHANGED <<dir, nameId, left, mpq, bypass, load, openable, archives, deleted>>

(***************************************************************************)
(* Requests.                                                               *)
(***************************************************************************)
byId(i) == IF dir.idMap[i] # None THEN dir.idMap[i]
           ELSE IF ~mpq /\ i \in openable THEN New("unk", None, i) ELSE None

byName(n) == IF dir.nameMap[n] # None THEN dir.nameMap[n]
             ELSE IF n \in archives THEN New("mpq", n, NoId)
             ELSE None

\* A mutation: a file that is listed already is added again.
keepAgain(f) == IF f = None THEN dir ELSE addChild(dir, f)
keep(f) == IF f = None \/ f \in dir.children THEN dir ELSE addChild(dir, f)

getFileById(i) == /\ phase = "ready" /\ dir' = keep(byId(i))
                  /\ UNCHANGED <<nameId, phase, left, mpq, bypass, load, openable, archives, deleted>>
getFileByName(n) == /\ phase = "ready" /\ dir' = keep(byName(n))
                    /\ UNCHANGED <<nameId, phase, left, mpq, bypass, load, openable, archives, deleted>>

LoadClient == \/ LoadWoW \/ ListfileRead \/ LoadWoWFromMpq \/ Ready
              \/ \E l \in Lines : initFromListfile(l)
              \/ \E p \in CustomDir : addCustomFiles(p)
              \/ \E n \in MpqListed : initMpq(n)

FolderNext == LoadClient \/ (\E i \in Ids : getFileById(i)) \/ (\E n \in Names : getFileByName(n))

FolderSpec == Init /\ [][FolderNext]_fvars

(***************************************************************************)
(* Properties.                                                             *)
(***************************************************************************)
FolderTypeOK ==
    /\ dir \in Folders /\ nameId \in [Names -> Ids \cup {NoId}]
    /\ phase \in {"none", "listfile", "custom", "archives", "ready"}
    /\ left \subseteq Lines \cup Names
    /\ mpq \in BOOLEAN /\ bypass \in BOOLEAN /\ load \in 0..MaxLoads
    /\ openable \in SUBSET Ids /\ archives \subseteq Names /\ deleted \subseteq GameFiles

\* Container::removeChild and the two overrides: what a map answers is a live
\* child that has that name or identifier, and a child with a name or identifier
\* is never hidden: some child answers for it.
MapsAgree ==
    /\ \A n \in Names : dir.nameMap[n] # None =>
          dir.nameMap[n] \in dir.children /\ dir.nameMap[n].name = n
    /\ \A i \in Ids \cup {NoId} : dir.idMap[i] # None =>
          dir.idMap[i] \in dir.children /\ dir.idMap[i].id = i
    /\ \A f \in dir.children : /\ f \notin deleted /\ dir.idMap[f.id] # None
                               /\ f.name \in Names => dir.nameMap[f.name] # None

\* Once a CASC client is loaded, a name of the user's folder leads to the user's
\* file if it may replace the client's or the client has none, and the listed
\* identifier of such a name leads to a user's file; other listed names lead to
\* the client's.
Known(n) == \E l \in Lines : l[2] = n /\ l[1] \in Present
Chosen == phase = "ready" /\ ~mpq =>
    \A n \in Names : LET f == dir.nameMap[n] IN
        /\ n \in CustomDir /\ (bypass \/ ~Known(n)) =>
              /\ f # None /\ f.kind = "disk"
              /\ (\E l \in Lines : l[2] = n) => f.id # NoId /\ dir.idMap[f.id].kind = "disk"
        /\ Known(n) /\ (n \notin CustomDir \/ ~bypass) =>
              f.kind = "casc" /\ <<f.id, n>> \in Lines /\ f.load = load

Service == INSTANCE FolderService WITH
    Keys <- Ids \cup Names, Answers <- GameFiles, Nothing <- None,
    serving <- phase = "ready",
    answer <- [k \in Ids \cup Names |-> IF k \in Ids THEN dir.idMap[k] ELSE dir.nameMap[k]]

\* getFile: while a client is loaded, what was answered once stays the answer,
\* and a request disturbs no other.
ServiceKept == Service!Spec
=============================================================================
