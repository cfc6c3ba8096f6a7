------------------------------ MODULE ModelLoad ------------------------------
(***************************************************************************)
(* Loading a model: WoWModel::initCommon with setLOD, initAnimated and     *)
(* readAnimsFromFile.  A model names the files of its skeleton, of that    *)
(* one's parent, of its skin and of its animations; the load asks the game *)
(* directory for each, opens it, reads it chunk by chunk and closes it.    *)
(*                                                                         *)
(* The load runs to its end on the UI thread.  It is cut after each request*)
(* to the directory, so that each step is a step of GameFolder.            *)
(***************************************************************************)
EXTENDS GameFolder

CONSTANTS Data,  \* what the file of each identifier or name contains
          NoKey  \* no file is named

Keys == Ids \cup Names
ChunkNames == {"MD21", "SKID", "SFID", "TXID", "AFID", "SKS1", "SKPD", "SKA1", "SKB1", "AFSB"}

\* A file without chunks has the set {}.  A model is "short" (no header), has the
\* wrong magic, is "cut" (ends before its emitters) or is whole.  skel is what
\* SKID names, parent what SKPD names, skin what SFID or the naming convention
\* does, and anims has the animations that SKS1 or the header lists with the
\* files that AFID or the naming convention gives them.
FileData == [chunks : SUBSET ChunkNames, body : {"short", "magic", "cut", "whole"},
             skel : Keys \cup {NoKey}, parent : Keys \cup {NoKey}, skin : Keys \cup {NoKey},
             anims : SUBSET [anim : Nat, sub : Nat, file : Keys \cup {NoKey}],
             animated : BOOLEAN]
ASSUME DataAssumption ==
    /\ NoKey \notin Keys /\ DOMAIN Data = Keys
    /\ \A k \in Keys : Data[k].anims \subseteq [anim : Nat, sub : Nat, file : Keys \cup {NoKey}]
                       /\ [Data[k] EXCEPT !.anims = {}] \in [chunks : SUBSET ChunkNames,
                            body : {"short", "magic", "cut", "whole"}, skel : Keys \cup {NoKey},
                            parent : Keys \cup {NoKey}, skin : Keys \cup {NoKey},
                            anims : {{}}, animated : BOOLEAN]

VARIABLES pc,     \* where the load is; "idle", or "crashed"
          model,  \* the file of the model: WoWModel::gamefile
          ok,     \* WoWModel::ok
          at,     \* the open files, each with its current chunk, or "all"
          skel, parent, \* skelFile and parentFile of the function that runs
          source, \* the file that readAnimsFromFile reads
          todo,   \* the animations it has yet to visit
          animfiles, \* data.animfiles: pairs of an animation and a file
          misread \* the last load took bytes of another chunk, or of no file, for a structure

lvars == <<pc, model, ok, at, skel, parent, source, todo, animfiles, misread>>
vars == <<fvars, lvars>>

(***************************************************************************)
(* GameFile.  o is the function from open files to their chunk.            *)
(***************************************************************************)
\* CASCFile::openFile tries the identifier, then the one that the listfile gives
\* the name: what a file contains is what it opens.
StoredAs(f) == IF f.id \in openable \/ f.name \notin Names THEN f.id ELSE nameId[f.name]
KeyOf(f) == IF f.kind = "casc" /\ StoredAs(f) \in openable THEN StoredAs(f)
            ELSE IF f.id # NoId THEN f.id ELSE f.name
Of(f) == Data[KeyOf(f)]
Has(f, c) == c \in Of(f).chunks
Chunked(f) == Of(f).chunks # {}
FirstChunk(f) == IF \E c \in Of(f).chunks : Of(f).chunks = {c}
                 THEN CHOOSE c \in Of(f).chunks : TRUE ELSE "all"

Opens(f) == CASE f.kind = "disk" -> TRUE
              [] f.kind = "mpq" -> f.name \in archives
              [] OTHER -> ~mpq /\ StoredAs(f) \in openable

With(o, f, c) == [g \in DOMAIN o \cup {f} |-> IF g = f THEN c ELSE o[g]]
\* open() of an open file leaves it at the chunk it is at.
Open(o, f) == IF f \in DOMAIN o \/ ~Opens(f) THEN o ELSE With(o, f, FirstChunk(f))
Close(o, F) == [g \in DOMAIN o \ F |-> o[g]]
setChunk(o, f, c) == IF f \in DOMAIN o /\ Has(f, c) THEN [o EXCEPT ![f] = c] ELSE o
\* The bytes of f's buffer are those of the structure that chunk c holds.
Right(o, f, c) == f \in DOMAIN o /\ o[f] = IF Chunked(f) THEN c ELSE "all"

Request(k) == IF k \in Ids THEN getFileById(k)
              ELSE IF k \in Names THEN getFileByName(k)
              ELSE UNCHANGED fvars
Answer(k) == IF k \in Ids THEN byId(k) ELSE IF k \in Names THEN byName(k) ELSE None

\* Chunked models go back to their main chunk.  A mutation: not after SKID.
stayInChunk(o) == o
backToModel(o) == setChunk(o, model, "MD21")

(***************************************************************************)
(* initCommon.                                                             *)
(***************************************************************************)
NoFiles == [f \in {} |-> "all"]
LoadInit == /\ Init /\ pc = "idle" /\ model = None /\ ok = FALSE /\ at = NoFiles
            /\ skel = None /\ parent = None /\ source = None /\ todo = {}
            /\ animfiles = {} /\ misread = FALSE

Crash == /\ pc' = "crashed"
         /\ UNCHANGED <<model, ok, at, skel, parent, source, todo, animfiles, misread>>

\* The header.
initCommon(k) ==
    /\ pc = "idle" /\ phase = "ready" /\ Request(k)
    /\ LET f == Answer(k)
           o == Open(at, f)
           readable == f \in DOMAIN o /\ Of(f).body # "short" /\ (Chunked(f) => Has(f, "MD21"))
       IN  /\ f # None /\ model' = f
           /\ ok' = (readable /\ Of(f).body # "magic")
           /\ IF readable /\ Of(f).body = "whole"
              THEN pc' = "sequences" /\ at' = setChunk(o, f, "MD21")
              ELSE pc' = "idle" /\ at' = Close(o, {f})
    /\ misread' = FALSE /\ UNCHANGED <<skel, parent, source, todo, animfiles>>

\* The global sequences, of the skeleton and of its parent, or of the model.
openSkeleton ==
    /\ pc = "sequences" /\ Has(model, "SKID") /\ Request(Of(model).skel)
    /\ LET s == Answer(Of(model).skel)
           o == setChunk(Open(setChunk(at, model, "SKID"), s), s, "SKS1")
       IN  IF s = None THEN Crash
           ELSE /\ skel' = s
                /\ IF s \in DOMAIN o /\ Has(s, "SKS1") /\ Has(s, "SKPD")
                   THEN pc' = "parentSequences" /\ at' = setChunk(o, s, "SKPD")
                   ELSE pc' = "body" /\ at' = backToModel(Close(o, {s}))
                /\ UNCHANGED <<model, ok, parent, source, todo, animfiles, misread>>

readParentSequences ==
    /\ pc = "parentSequences" /\ Request(Of(skel).parent)
    /\ LET p == Answer(Of(skel).parent)
           o == IF p = None THEN at ELSE setChunk(Open(at, p), p, "SKS1")
           done == IF p # None /\ Has(p, "SKS1") THEN {p, skel} ELSE {skel}
       IN  at' = backToModel(Close(o, done))
    /\ pc' = "body"
    /\ UNCHANGED <<model, ok, skel, parent, source, todo, animfiles, misread>>

\* What the model itself holds, with the lists of skins and textures.
readBody ==
    /\ (pc = "sequences" /\ ~Has(model, "SKID")) \/ pc = "body"
    /\ LET o == backToModel(setChunk(at, model, "SFID"))
           p == backToModel(setChunk(o, model, "TXID"))
       IN  /\ at' = p
           /\ misread' = (misread \/ ~Right(at, model, "MD21") \/ ~Right(p, model, "MD21"))
    /\ pc' = "attachments" /\ UNCHANGED fvars
    /\ UNCHANGED <<model, ok, skel, parent, source, todo, animfiles>>

readAttachments ==
    /\ pc = "attachments"
    /\ IF ~Has(model, "SKID")
       THEN pc' = "views" /\ UNCHANGED <<fvars, at, misread>>
       ELSE /\ Request(Of(model).skel)
            /\ LET s == Answer(Of(model).skel)
                   o == setChunk(Open(setChunk(at, model, "SKID"), s), s, "SKA1")
               IN  /\ pc' = "views" /\ at' = backToModel(Close(o, {s}))
                   /\ misread' = (misread \/ (Has(s, "SKA1") /\ s \in DOMAIN o /\ ~Right(o, s, "SKA1")))
    /\ UNCHANGED <<model, ok, skel, parent, source, todo, animfiles>>

\* A chunked model without SFID indexes an empty list.
setLOD ==
    /\ pc = "views"
    /\ IF Chunked(model) /\ ~Has(model, "SFID") THEN Crash /\ UNCHANGED fvars
       ELSE /\ Request(Of(model).skin)
            /\ LET g == Answer(Of(model).skin)
                   o == IF g = None THEN at ELSE Open(at, g)
               IN  /\ at' = Close(o, {g})
                   /\ misread' = (misread \/ ~Right(o, model, "MD21"))
            /\ pc' = IF Of(model).animated THEN "animate" ELSE "finish"
            /\ UNCHANGED <<model, ok, skel, parent, source, todo, animfiles>>

(***************************************************************************)
(* initAnimated.                                                           *)
(***************************************************************************)
animateModel ==
    /\ pc = "animate" /\ ~Has(model, "SKID")
    /\ pc' = (IF Of(model).anims = {} THEN "finish" ELSE "anims")
    /\ at' = IF Of(model).anims = {} THEN at ELSE backToModel(setChunk(at, model, "AFID"))
    /\ source' = model /\ todo' = Of(model).anims /\ animfiles' = {}
    /\ skel' = None /\ parent' = None
    /\ UNCHANGED <<fvars, model, ok, misread>>

animateSkeleton ==
    /\ pc = "animate" /\ Has(model, "SKID") /\ Request(Of(model).skel)
    /\ LET s == Answer(Of(model).skel)
           o == setChunk(setChunk(Open(setChunk(at, model, "SKID"), s), s, "AFID"), s, "SKS1")
       IN  /\ skel' = s /\ parent' = None /\ animfiles' = {}
           /\ source' = IF Has(s, "SKPD") THEN None ELSE s
           /\ IF s \notin DOMAIN o \/ ~Has(s, "SKS1")
              THEN pc' = "finish" /\ at' = backToModel(Close(o, {s})) /\ todo' = {}
              ELSE IF Has(s, "SKPD")
              THEN pc' = "parentAnims" /\ at' = setChunk(o, s, "SKPD") /\ todo' = {}
              ELSE pc' = "anims" /\ at' = o /\ todo' = Of(s).anims
    /\ UNCHANGED <<model, ok, misread>>

openParent ==
    /\ pc = "parentAnims" /\ Request(Of(skel).parent)
    /\ LET p == Answer(Of(skel).parent)
           o == setChunk(setChunk(Open(at, p), p, "AFID"), p, "SKS1")
       IN  /\ parent' = p
           /\ IF p # None /\ p \in DOMAIN o /\ Has(p, "SKS1")
              THEN pc' = "anims" /\ at' = o /\ source' = p /\ todo' = Of(p).anims
              ELSE /\ pc' = "bones" /\ UNCHANGED <<source, todo>>
                   /\ at' = IF p = None THEN at ELSE Close(o, {p})
    /\ UNCHANGED <<model, ok, skel, animfiles, misread>>

\* A later file of an animation takes the place of a former one.
keepAnim(x, f) == {y \in animfiles : y[1] # x.anim} \cup {<<x.anim, f>>}
\* A mutation: whether the file opens is not asked.
found(o, f) == f # None
usable(o, f) == f # None /\ f \in DOMAIN o
readAnimsFromFile(x) ==
    /\ pc = "anims" /\ x \in todo /\ todo' = todo \ {x}
    /\ Request(x.file)
    /\ LET f == Answer(x.file)
           o == IF f = None THEN at ELSE setChunk(Open(at, f), f, "AFSB")
       IN  /\ at' = o
           /\ animfiles' = IF usable(o, f) THEN keepAnim(x, f) ELSE animfiles
    /\ UNCHANGED <<pc, model, ok, skel, parent, source, misread>>

animsRead ==
    /\ pc = "anims" /\ todo = {} /\ pc' = "bones"
    /\ at' = IF parent # None THEN Close(at, {parent}) ELSE at
    /\ UNCHANGED <<fvars, model, ok, skel, parent, source, todo, animfiles, misread>>

\* The bones of the skeleton are read from its parent if it has one, and each
\* track from the file of its animation at the place that source tells.
reopenParent(o) == IF parent = None THEN o
                   ELSE Close(setChunk(Open(o, parent), parent, "SKB1"), {skel})

\* Each track whose animation has a file of its own first moves the file that the
\* animations were read from to its chunk of bones, if it has one, and no track
\* moves it back: some bone has such a track.  A skeleton is there already.
Sought(o) == IF animfiles = {} THEN o ELSE setChunk(o, source, "SKB1")

\* A mutation: the loop over animfiles is left out.
closeNone(o) == o
closeAnims(o) == Close(o, {y[2] : y \in animfiles})
Tracks(o, c) == animfiles = {} \/ Right(o, source, c)
bonesOfModel ==
    /\ pc = "bones" /\ skel = None
    /\ misread' = (misread \/ ~Right(at, model, "MD21") \/ ~Tracks(Sought(at), "MD21"))
    /\ at' = closeAnims(Sought(at)) /\ pc' = "finish"
    /\ UNCHANGED <<fvars, model, ok, skel, parent, source, todo, animfiles>>

\* The parent's buffer may be null, and animIndexToAnimId.at throws if no animation
\* was read: some bone moves.
bonesOfSkeleton ==
    /\ pc = "bones" /\ skel # None /\ UNCHANGED fvars
    /\ LET use == IF parent = None THEN skel ELSE parent
           o == reopenParent(setChunk(at, skel, "SKB1"))
       IN  IF ~Has(skel, "SKB1")
           THEN /\ pc' = "finish" /\ at' = backToModel(closeAnims(Close(at, {skel})))
                /\ UNCHANGED <<model, ok, skel, parent, source, todo, animfiles, misread>>
           ELSE IF use \notin DOMAIN o \/ source = None \/ Of(source).anims = {}
           THEN Crash
           ELSE /\ pc' = "finish"
                /\ at' = closeAnims(backToModel(Close(o, {use, skel})))
                /\ misread' = (misread \/ ~Right(o, use, "SKB1") \/ ~Tracks(o, "SKB1"))
                /\ UNCHANGED <<model, ok, skel, parent, source, todo, animfiles>>

\* Texture animations, events, particles, ribbons, cameras and lights.
finish == /\ pc = "finish" /\ pc' = "idle"
          /\ misread' = (misread \/ ~Right(at, model, "MD21"))
          /\ at' = Close(at, {model}) /\ animfiles' = {}
          /\ skel' = None /\ parent' = None /\ source' = None /\ todo' = {}
          /\ UNCHANGED <<fvars, model, ok>>

LoadStep == \/ \E k \in Keys : initCommon(k)
            \/ openSkeleton \/ readParentSequences \/ readBody \/ readAttachments \/ setLOD
            \/ animateModel \/ animateSkeleton \/ openParent
            \/ \E x \in todo : readAnimsFromFile(x)
            \/ animsRead \/ bonesOfModel \/ bonesOfSkeleton \/ finish

Next == \/ pc = "idle" /\ LoadClient /\ UNCHANGED lvars
        \/ LoadStep

Spec == LoadInit /\ [][Next]_vars

(***************************************************************************)
(* Properties.                                                             *)
(***************************************************************************)
TypeOK == /\ FolderTypeOK
          /\ pc \in {"idle", "sequences", "parentSequences", "body", "attachments", "views",
                      "animate", "parentAnims", "anims", "bones", "finish", "crashed"}
          /\ {model, skel, parent, source} \subseteq GameFiles \cup {None}
          /\ ok \in BOOLEAN /\ misread \in BOOLEAN /\ DOMAIN at \subseteq GameFiles
          /\ \A f \in DOMAIN at : at[f] \in ChunkNames \cup {"all"}
          /\ \A x \in todo : x.file \in Keys \cup {NoKey}
          /\ pc \in {"anims", "bones"} => \A y \in animfiles : y[2] \in DOMAIN at \cup {parent}

\* What a skeletal model needs is there and opens, no file stands for the model's
\* own or for its skeleton's, and a model without a skeleton that has animations
\* has no chunk of bones, which would take the place of its main one.
Opened(k) == Answer(k) # None /\ Opens(Answer(k))
Apart(f, s) == \A x \in Of(s).anims : Answer(x.file) # f
Complete(f) ==
    /\ Chunked(f) => Has(f, "SFID")
    /\ Answer(Of(f).skin) # f
    /\ ~Has(f, "SKID") => Apart(f, f) /\ (Has(f, "SKB1") => Of(f).anims = {})
    /\ Has(f, "SKID") =>
          /\ Opened(Of(f).skel) /\ Answer(Of(f).skel) # f
          /\ LET s == Answer(Of(f).skel) IN
              IF ~Has(s, "SKPD") THEN Of(s).anims # {} /\ Apart(f, s)
              ELSE /\ Opened(Of(s).parent) /\ Answer(Of(s).parent) \notin {f, s}
                   /\ LET p == Answer(Of(s).parent) IN
                          Has(p, "SKS1") /\ Has(p, "SKB1") /\ Of(p).anims # {} /\ Apart(f, p)

\* Every structure is read from an open file at the chunk that holds it, and no
\* null pointer is followed, unless a file that the model names is missing, does
\* not open, lacks a chunk or is named twice, or the model has bones of its own
\* beside animations.
Fails == \/ misread' /\ ~misread
         \/ pc' = "crashed" /\ pc # "crashed"
ReadsRight == [][Fails => ~Complete(model)]_vars

\* After a load no file stays open but an animation file whose place in animfiles
\* another one took, and a parent skeleton without sequences.
Replaced(f) == \E k \in Keys : \E x, y \in Data[k].anims :
                  x # y /\ x.anim = y.anim /\ x.file \in {f.id, f.name}
Holds(f, k) == k = f.id \/ (f.id = NoId /\ k = f.name) \/ <<k, f.name>> \in Lines
Parental(f) == \E j, k \in Keys : /\ Data[j].parent \in {f.id, f.name}
                                  /\ Holds(f, k) /\ "SKS1" \notin Data[k].chunks
NothingLeftOpen == pc = "idle" => \A f \in DOMAIN at : Replaced(f) \/ Parental(f)

\* The file of the displayed model is deleted by a later load only if it is a file
\* of the user's that stands for none of the client's.
ShownIsAlive == model \in deleted => model.kind = "disk" /\ ~Known(model.name)
=============================================================================
