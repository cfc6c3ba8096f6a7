----------------------------- MODULE CharDetails -----------------------------
(***************************************************************************)
(* Character customization: games/wow/CharDetails.cpp with the callers in  *)
(* CharDetailsFrame, CharDetailsCustomizationChoice, CharControl and       *)
(* ModelViewer that drive it.  A model has options, an option has choices, *)
(* a choice brings elements (textures, skinned models, geosets), and an    *)
(* element may be gated by a choice of another option, its parent.  set()  *)
(* keeps the elements of every option in a bucket and refresh() shows the  *)
(* contents of all buckets.                                                *)
(*                                                                         *)
(* Every handler runs to its end on the UI thread, so it is one action; the*)
(* loops over options go in the order of std::map, by option ID.           *)
(* The tables of the game database are constants.                          *)
(***************************************************************************)
EXTENDS Functions, Loops

CONSTANTS OptionIDs,   \* the options of the model, as a sequence by ID
          ChoicesOf,   \* choicesPerOptionMap_: each option's choices, in order
          Elements,    \* ChrCustomizationElement: [choice, related, kind, what]
          DHOnly,      \* choices exclusive to Demon Hunters
          Locked,      \* choices with an achievement, quest or item requirement
          Imports,     \* armory answers: sequences of <<option, choice>>
          Mounts       \* whether a mount with customization options exists

Options == Range(OptionIDs)
AllChoices == UNION {Range(ChoicesOf[o]) : o \in Options}
None == 0     \* the choice operator[] inserts; RelatedChrCustomizationChoiceID 0
Unset == -1   \* the option has no entry in currentCustomization_

ASSUME TablesAssumption ==
    /\ OptionIDs \in Seq(Nat)
    /\ \A o \in Options : ChoicesOf[o] \in Seq(Nat \ {None})
    /\ \A o, p \in Options : o # p => Range(ChoicesOf[o]) \cap Range(ChoicesOf[p]) = {}
    /\ \A e \in Elements : /\ e.choice \in AllChoices
                           /\ e.related \in (AllChoices \cup {None}) \ {e.choice}
                           /\ e.kind \in {"geoset", "model", "skin", "bind"}

\* The armory knows the choices of an option that the client knows.
ASSUME ImportsAssumption ==
    \A i \in DOMAIN Imports :
       /\ Imports[i] \in Seq(Nat \X Nat)
       /\ \A e \in Range(Imports[i]) : e[1] \in Options => e[2] \in Range(ChoicesOf[e[1]])

VARIABLES cur,     \* currentCustomization_
          bucket,  \* customizationElementsPerOption_
          dh,      \* isDemonHunter_
          linked,  \* LINKED_OPTIONS_MAP_ holds the links of this model
          view,    \* what the last WoWModel::refresh applied
          last     \* the last operation

cdVars == <<cur, bucket, dh, linked, view, last>>

(***************************************************************************)
(* The tables.                                                             *)
(***************************************************************************)
OptionOf == [c \in AllChoices |-> CHOOSE o \in Options : c \in Range(ChoicesOf[o])]
Rows == [c \in AllChoices \cup {None} |-> [related \in AllChoices \cup {None} |->
            {e \in Elements : e.choice = c /\ e.related = related}]]

isChoiceAvailable(d, c) == c \notin Locked /\ (c \in DHOnly => d)
\* The places of the available choices in the list of o.
AvailableAt(d, o) == {i \in DOMAIN ChoicesOf[o] : isChoiceAvailable(d, ChoicesOf[o][i])}
FirstAvailable(d, o) ==
    ChoicesOf[o][CHOOSE i \in AvailableAt(d, o) : \A j \in AvailableAt(d, o) : i <= j]

\* initLinkedOptionsMap: the options whose choices gate elements of o.
Links == [o \in Options |->
             {OptionOf[e.related] :
                 e \in {x \in Elements : x.related # None /\ OptionOf[x.choice] = o}} \ {o}]
getParentOptions(l, o) == IF l THEN Links[o] ELSE {}
\* A mutation: only the first option a choice gates is re-resolved.
FirstChild(l, p) == LET all == {o \in Options : p \in getParentOptions(l, o)}
                    IN  {o \in all : \A q \in all : o <= q}
getChildOptions(l, p) == {o \in Options : p \in getParentOptions(l, o)}

(***************************************************************************)
(* The state of one CharDetails object as a record, and refresh().         *)
(***************************************************************************)
Now == [cur |-> cur, bucket |-> bucket, dh |-> dh, linked |-> linked, view |-> view,
        batch |-> FALSE]

get(s, o) == IF s.cur[o] = Unset THEN None ELSE s.cur[o]

Collected(b) == UNION {b[o] : o \in Options}

\* applyCustomizationGeosets, with refreshTextures and refreshSkinnedModels.
\* The geosets come from the choices themselves, the rest from the buckets.
ActiveChoices(s) == {s.cur[o] : o \in Options} \ {Unset}
ShownGeosets(s) == {e.what : e \in {x \in Elements :
                       /\ x.kind = "geoset" /\ x.choice \in ActiveChoices(s)
                       /\ x.related \in ActiveChoices(s) \cup {None}}}
ViewOf(s) == [textures |-> {e \in Collected(s.bucket) : e.kind \in {"skin", "bind"}},
              files |-> {e.what : e \in {x \in Collected(s.bucket) : x.kind = "model"}},
              geosets |-> ShownGeosets(s)]

\* WoWModel::refresh on this object.
Refresh(s) == [s EXCEPT !.view = ViewOf(s)]

\* The end of set(): notify makes CharControl refresh, then set itself does;
\* neither does while a batch is on.
Announce(s) == IF s.batch THEN s ELSE Refresh(Refresh(s))

\* Steps 1 to 3 of set(): o's own bucket is rebuilt from its direct elements
\* and those its children get through o; what o gets through its parents is
\* ADDED to their buckets.
\* A mutation: the children are queried without their gate.
OwnBucketUngated(s, o, c, current) ==
    Rows[c][None] \cup UNION {Rows[IF current[k] = Unset THEN None ELSE current[k]][None] :
                                 k \in getChildOptions(s.linked, o)}
OwnBucket(s, o, c, current) ==
    Rows[c][None] \cup
    UNION {Rows[IF current[k] = Unset THEN None ELSE current[k]][c] :
              k \in getChildOptions(s.linked, o)}

ApplyChoice(s, o, c) ==
    LET parents == getParentOptions(s.linked, o)
        current == [p \in Options |->
                       IF p = o THEN c
                       ELSE IF p \in parents /\ s.cur[p] = Unset THEN None
                       ELSE s.cur[p]]
    IN  [s EXCEPT !.cur = current,
                  !.bucket = [p \in Options |->
                      IF p = o THEN OwnBucket(s, o, c, current)
                      ELSE IF p \in parents THEN s.bucket[p] \cup Rows[c][current[p]]
                      ELSE s.bucket[p]]]

\* autoSelectTextureGating: the choices that could texture the skinned model
\* choice c adds, when every direct-bind texture of it is gated.
GatesOf == [c \in AllChoices \cup {None, Unset} |->
    LET binds == {e \in Elements : e.choice = c /\ e.kind = "bind"}
    IN  IF \/ ~\E e \in Elements : e.choice = c /\ e.kind = "model"
           \/ \E e \in binds : e.related = None
        THEN {}
        ELSE {e.related : e \in binds}]
Compatible(c, o) == GatesOf[c] \cap Range(ChoicesOf[o])

\* The order in which the query lists compatible choices is not specified.
\* The inner set() finds autoSelectInProgress_ on and selects nothing more.
OpenGate(s, o, c) ==
    LET good == Compatible(c, o)
    IN  IF good = {} \/ get(s, o) \in good THEN s
        ELSE Announce(ApplyChoice(s, o, CHOOSE x \in good : TRUE))

\* A mutation: no option is switched.
LeaveGates(s, c) == s
autoSelectTextureGating(s, c) == Loop(LAMBDA t, o : OpenGate(t, o, c), s, OptionIDs)

set(s, o, c) == Announce(autoSelectTextureGating(ApplyChoice(s, o, c), c))

(***************************************************************************)
(* The operations.                                                         *)
(***************************************************************************)
BatchOn(s) == [s EXCEPT !.batch = TRUE]
BatchOff(s) == Refresh([s EXCEPT !.batch = FALSE])

DefaultChoice(s, o) ==
    IF AvailableAt(s.dh, o) = {} THEN s ELSE set(s, o, FirstAvailable(s.dh, o))
reset(s) ==
    BatchOff(Loop(DefaultChoice,
                  BatchOn([s EXCEPT !.cur = [o \in Options |-> Unset], !.dh = FALSE]),
                  OptionIDs))

\* draw is where randint lands in the list of each option.
RandomChoice(s, o, draw) ==
    IF AvailableAt(s.dh, o) = {} THEN s ELSE set(s, o, ChoicesOf[o][draw[o]])
randomise(s, draw) ==
    BatchOff(Loop(LAMBDA t, o : RandomChoice(t, o, draw), BatchOn(s), OptionIDs))

DropElements(s, o) == [s EXCEPT !.bucket[o] = {}]
Reresolve(s, o) ==
    LET c == get(s, o)
    IN  IF c # None /\ isChoiceAvailable(s.dh, c) THEN set(s, o, c)
        ELSE IF AvailableAt(s.dh, o) # {} THEN set(s, o, FirstAvailable(s.dh, o))
        ELSE DropElements(s, o)
setDemonHunterMode(s, val) ==
    IF val = s.dh THEN s ELSE Loop(Reresolve, [s EXCEPT !.dh = val], OptionIDs)

\* save writes every entry and the mode; load sets them in file order, the
\* mode last, and ModelViewer::LoadChar refreshes at the end.
saved(s) == [cur |-> s.cur, dh |-> s.dh]
LoadEntry(s, o, file) == IF file.cur[o] = Unset THEN s ELSE set(s, o, file.cur[o])
LoadChoices(s, file) == Loop(LAMBDA t, o : LoadEntry(t, o, file), s, OptionIDs)
\* A mutation: the mode is not written or read.
LoadWithoutMode(s, file) == Refresh(LoadChoices(s, file))
load(s, file) == Refresh(setDemonHunterMode(LoadChoices(s, file), file.dh))

\* ModelViewer::ImportArmoury: foreign options are dropped and the rest is
\* applied twice.
hasOption(e) == e[1] \in Options
ImportEntry(s, e) == IF hasOption(e) THEN set(s, e[1], e[2]) ELSE s
\* A mutation: one pass.
ImportOnce(s, entries) == Loop(ImportEntry, s, entries)
ImportArmoury(s, entries) == Loop(ImportEntry, Loop(ImportEntry, s, entries), entries)

\* A CharDetails as the constructor of WoWModel leaves it.
Constructed ==
    reset([cur |-> [o \in Options |-> Unset], bucket |-> [o \in Options |-> {}],
           dh |-> FALSE, linked |-> TRUE, batch |-> FALSE,
           view |-> [textures |-> {}, files |-> {}, geosets |-> {}]])

(***************************************************************************)
(* The state machine.                                                      *)
(***************************************************************************)
Become(after, op) ==
    \E s \in {after} : /\ cur' = s.cur /\ bucket' = s.bucket /\ dh' = s.dh
                       /\ view' = s.view /\ last' = op /\ UNCHANGED linked

Op(name, c) == [name |-> name, choice |-> c]

Init == /\ cur = Constructed.cur /\ bucket = Constructed.bucket
        /\ dh = FALSE /\ linked = TRUE /\ view = Constructed.view
        /\ last = Op("reset", None)

\* LoadModel of another file starts over from a new object that UpdateModel
\* resets again or randomises: Init, or onRandomise from it.
\* The combo box of an option lists its available choices.
onChoice(o, c) == /\ \E i \in AvailableAt(dh, o) : c = ChoicesOf[o][i]
                  /\ Become(set(Now, o, c), Op("choice", c))

\* Where randint may land in the list of each option; 1 where it is not asked.
Longest == CHOOSE n \in {1} \cup {Len(ChoicesOf[o]) : o \in Options} :
              \A o \in Options : Len(ChoicesOf[o]) <= n
Draws(d) == {draw \in [Options -> 1..Longest] :
                \A o \in Options : IF AvailableAt(d, o) = {} THEN draw[o] = 1
                                   ELSE draw[o] \in AvailableAt(d, o)}
onRandomise == \E draw \in Draws(dh) : Become(randomise(Now, draw), Op("randomise", None))

\* The check box.  onDHMode refreshes once more: setDemonHunterMode may end
\* with options that only dropped elements.  A mutation: it does not.
ToggleOnly(s) == setDemonHunterMode(s, ~s.dh)
ToggleAndRefresh(s) == Refresh(setDemonHunterMode(s, ~s.dh))
onDHMode == Become(ToggleAndRefresh(Now), Op("dh", None))

Import == \E i \in 1..Len(Imports) :
             Become(Refresh(ImportArmoury(Now, Imports[i])), Op("import", None))

\* A mount with options of its own clears and refills the shared static map.
MountUp == /\ Mounts /\ linked
           /\ linked' = FALSE
           /\ UNCHANGED <<cur, bucket, dh, view, last>>

Next == \/ \E o \in Options, c \in AllChoices : onChoice(o, c)
        \/ onRandomise \/ onDHMode \/ Import \/ MountUp

Spec == Init /\ [][Next]_cdVars

(***************************************************************************)
(* Properties.                                                             *)
(***************************************************************************)
\* A bucket holds elements of its own option or gated by it; and, as long as
\* the option has no choice, plain elements of the options that it gates,
\* which set() asks for with 0 as the related choice.
BelongsTo(e, o) == \/ {e.choice, e.related} \cap Range(ChoicesOf[o]) # {}
                   \/ cur[o] \in {None, Unset} /\ e.related = None /\ o \in Links[OptionOf[e.choice]]
TypeOK == /\ \A o \in Options : cur[o] \in Range(ChoicesOf[o]) \cup {None, Unset}
          /\ cur \in [Options -> Int]
          /\ bucket \in [Options -> SUBSET Elements]
          /\ \A o \in Options : \A e \in bucket[o] : BelongsTo(e, o)
          /\ dh \in BOOLEAN /\ linked \in BOOLEAN
          /\ view.textures \subseteq Elements

\* The elements the current choices call for, directly or through a parent or
\* a child.
Chosen(c) == c = None \/ cur[OptionOf[c]] = c
Wanted == {e \in Elements : Chosen(e.choice) /\ Chosen(e.related)}

\* Whatever the order of the choices, every element they call for is in a
\* bucket, save what leaving Demon Hunter mode dropped: no part of the
\* character is left untextured.
AllApplied == {e \in Wanted : /\ isChoiceAvailable(dh, e.choice)
                              /\ e.related = None \/ isChoiceAvailable(dh, e.related)}
                  \subseteq Collected(bucket)
NothingMissing == linked => AllApplied

\* set() re-resolves the children of an option also once the character is
\* mounted.
MountedAllApplied == ~linked => AllApplied

\* No bucket keeps an element that the current choices do not call for.
NothingStale == Collected(bucket) \subseteq Wanted

\* A default set or a complete armory import leaves only the elements of its
\* choices: the second pass of the import is what makes this true.
ExactAfterImport == linked /\ last.name \in {"reset", "import"} => NothingStale

\* What that takes.  No default choice switches an option that is gated
\* itself.  Each answer names every option, says one thing of each, and holds
\* the gates of its choices, save those that are not gated themselves.
DefaultsSettle ==
    \A o, p \in Options :
       AvailableAt(FALSE, o) # {} /\ Compatible(FirstAvailable(FALSE, o), p) # {} => Links[p] = {}
ImportsSettle ==
    \A i \in DOMAIN Imports :
       /\ \A o \in Options : \E e \in Range(Imports[i]) : e[1] = o
       /\ \A e, f \in Range(Imports[i]) :
             e[1] \in Options /\ f[1] \in Options =>
                /\ e[1] = f[1] => e[2] = f[2]
                /\ Compatible(e[2], f[1]) # {} => Links[f[1]] = {} \/ f[2] \in Compatible(e[2], f[1])

\* Once an operation is over the viewport shows the current buckets and
\* choices, also for those that refresh only once at the end.
ViewIsCurrent == view = ViewOf(Now)

\* After the user picks a choice that adds a skinned model, the options that
\* gate its texture hold compatible values, so that it is not drawn white.
PickedIsTextured ==
    last.name = "choice" =>
       \A o \in Options : Compatible(last.choice, o) # {} =>
                             cur[o] \in Compatible(last.choice, o)

\* Saving and reloading keeps every choice, if the texture gates hold and, for
\* a Demon Hunter, no import left a choice that entering the mode replaces.
GatesHold == \A c \in {cur[o] : o \in Options}, o \in Options :
                Compatible(c, o) # {} => cur[o] \in Compatible(c, o)
ModeHolds == dh => \A o \in Options : \/ get(Now, o) = None
                                      \/ isChoiceAvailable(dh, cur[o])
                                      \/ AvailableAt(dh, o) = {}
ReloadKeepsChoices ==
    GatesHold /\ ModeHolds =>
       LET again == load(Constructed, saved(Now))
       IN  again.dh = dh /\ \A o \in Options : get(again, o) = get(Now, o)
=============================================================================
