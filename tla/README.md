# WoW Model Viewer: TLA+ models, model checking and proofs

WoW Model Viewer is a wxWidgets application that reads World of Warcraft game
data, shows models, lets the user dress and animate them, and exports them.
This directory holds TLA+ modules of the parts of it whose correctness depends
on the order in which things happen, the TLC configurations that check them,
and proofs of the main results. Paths below are relative to `src/Source/`
unless they start with `src/`.

1. [The system](#1-the-system)
2. [Modules](#2-modules)
3. [Runs, bounds and fairness](#3-runs-bounds-and-fairness)
4. [Proofs](#4-proofs)
5. [Disagreements between the code and its comments](#5-disagreements-between-the-code-and-its-comments)
6. [Seen while modelling, without a run](#6-seen-while-modelling-without-a-run)
7. [What is not modelled](#7-what-is-not-modelled)
8. [Plan](#8-plan)

Parse with `tlasany M.tla`, check with `tlc -config X.cfg M`, prove with
`tlapm M.tla`. `PROJECT.json` maps every definition to the lines it models and
gives each property a mutation of the model that breaks it.

## 1. The system

### Threads, timers and processes

Everything except the export children runs on one UI thread. What looks
sequential is not: timers (canvas, export poll, image sequence), process-end
events and modal message boxes with an event loop of their own let one handler
run in the middle of what another one started. Two instances of the
application share only the file system.

    file tree, menus, importers        user
            |                            |
    FileControl / ModelViewer     CharControl, AnimControl, CharDetailsFrame
            |  load, clear               |  edit
            v                            v
    ModelCanvas -- owns --> WoWModel --> CharDetails --> Observable/Observer
        | canvas timer          |            |                |
        v                       v            | refresh        v
      draw, tick ------> AnimManager         v           the panel's choices
        ^                                  buckets
        | seeks
    ImageSequenceExporter        ExportJobManager --> child process (app.cpp)
                                     |  poll timer       |
                                     +-- .lock, .status, target file

### Components

| Component | State | Operations | Hard because | Correct when |
|---|---|---|---|---|
| Export jobs (`wowmodelviewer/ExportJobManager.cpp`, the child's part of `app.cpp`) | jobs, poll timer, `.lock` and `.status` sidecars, target file, temporary `.chr` | start, poll (drain, cancel, watchdog), process end, finalize, close | several processes and instances, crash, hang, nested dialogs, stale locks | one writer per target, success means one's own complete file, every job ends |
| Character customization (`games/wow/CharDetails.cpp`, `CharDetailsFrame`, `CharDetailsCustomizationChoice`) | choices, element buckets, Demon Hunter mode, links between options | set, reset, randomise, mode switch, import, save, load, refresh | options gate one another; choices come in any order; batches suppress refreshes | the buckets hold what the choices call for, and what is shown is current |
| Displayed model and its panels (`modelcanvas`, `modelviewer`, `filecontrol`, `charcontrol`, `modelcontrol`) | one owned model or world map object, an attachment tree, many raw pointers, flags | select, load, clear, mount, dismount, import | each handler deletes through a different path, panels keep pointers | nothing deleted is drawn or edited |
| Observer pattern (`core/metaclasses/Observable.cpp`, `Observer.cpp`) | two lists that mirror each other, the stack of notifications | attach, detach, notify, destructors | handlers change the lists being walked, and notify again | no dead observer is called, none is skipped, none called twice |
| Animation playback (`games/wow/AnimManager.cpp`, `animcontrol`, `ImageSequenceExporter`) | a queue of at most four clips, play head, loop count, controls, export | tick, seek, stop, play, choose, queue, export | mutual recursion, uninitialised slots, two timers on one play head | Stop returns, no garbage plays, an export keeps its place in the queue and puts the model back |
| Equipment (`games/wow/WoWItem.cpp`, slots of `charcontrol`), with merged models and attachments (`games/wow/WoWModel.cpp`, `Attachment.cpp`) | item, look, level and modifiers of each slot, the models it brought; the set of merged models and its cache; the attachment tree | setId, setLevel, setModifierId, setDisplayId, load, unload, refresh; merge, unmerge, pool; attach, delete slot | maps of the former item survive; four owners name the same models; a cache with a limit | nothing deleted is drawn, nothing is lost, what is drawn is what is worn |
| Game folder (`core/GameFolder.cpp`, `games/wow/WoWFolder.cpp`, `CASCFolder.cpp`, the providers), the one `Container` (`core/metaclasses/Container.h`) whose children change | children, maps by name and by identifier, the listfile's names, the storage | load a CASC or an MPQ client, add the user's files, look up, create on demand | two maps of one set, names and identifiers listed twice, a second client read into the same folder | a lookup names a live and the right file, and keeps its answer |
| Game files (`core/GameFile.cpp`, `CASCFile`, `MpqFile`, `HardDriveFile`) and the load of a model (`games/wow/WoWModel.cpp`) | which files are open, the current chunk of each; the load's place | open, close, setChunk; header, skeleton and its parent, skin, animations, bones | one current chunk for all readers of a file; any file may be missing, not open or lack a chunk | each structure is read from its own chunk, and what was opened is closed |
| Shared textures and models (`games/wow/manager.h`) | items with counts | add, del, clear | counts from several owners | an item lives while it is used |
| Database and table formats (`core/GameDatabase.cpp`, `games/wow/wdc*.cpp`, `wdb*.cpp`) | SQL tables filled at start | load, query | file formats | tables equal files |
| Web importers, plug-ins, settings, logger, rendering, world map objects, animation writers, start-up | see `PROJECT.json` | | mostly sequential or arithmetic | |

### How they interact

* A tree selection (`FileControl`) or a menu (`ModelViewer`) clears and loads
  the canvas; the load passes the new pointer to every panel. `ModelPanel`
  models this chain of calls as one action for each handler.
* The customization frame calls `CharDetails::set`, which notifies through
  `Observable`; `CharControl`'s handler refreshes the model unless a batch is
  on. `CharDetails` models that call and its answer together; `Observer`
  models the mechanism for any number of handlers that do anything.
* The canvas timer and the image sequence exporter both move the play head of
  the `AnimManager` the animation panel controls: `Playback` composes the three.
* Whoever loads a model asks the game folder for its file, and the load asks it
  for the skeleton, the skin and the animations that the file names:
  `ModelLoad` composes with `GameFolder`, so that files are listed, replaced and
  deleted by a second client between loads and created by the loads themselves.
* The main window writes a temporary character file and asks the export
  manager for a job; the child is this program again, run headless. It reports
  by lines on its standard output, by the status sidecar and by its end:
  `ExportJobs` composes instances, children and files.

## 2. Modules

State is held in VARIABLES whose names are those of the source where TLA+
permits it. Every handler is a single action that makes all the changes the
handler makes: all of them run to their end on the UI thread. The exceptions
are the handlers that give up control, cut where they do.

### ExportService and ExportJobs

`ExportService` is the abstract specification, a dozen lines: exports to one
target take turns, only an export that may still run touches its target, and a
reported success is the complete file of that export.

`ExportJobs` is the code. `Refuse`, `Admit`, `WriteLock`, `Spawn` and
`SpawnFails` are `startExport` cut at each access to shared files;
`ChildLine`, `ChildOpensTarget`, `ChildFinishesTarget`, `ChildWritesStatus`
and `ChildExits` are the headless child, which may stop talking, crash or fail
at any point; `Poll` is `onPoll` (drain, forward a cancellation, watchdog);
`OnTerminate` is `onProcessTerminated` with `finalize` up to its message box,
and `DismissBox` what follows it. While a box is open (`modal`) its nested
event loop serves all other handlers of that instance. `CloseApp`,
`LateTerminate` and `EndDrain` are the destructor and what the event loop
delivers after it. `AgeLock` is the passing of `LOCK_STALE_HOURS`; `LongExports`
says whether it may pass while an export still runs. Time is one `Tick` of
silence for all running jobs, and 45 s and 240 s are `HangWarn` and `HangKill`.

The refinement mapping is `JobView` (phase and result give the abstract state
of a job) and `file`.

### Observer

An element of `Observers` or `Observables` is an *address*, so that a new object
may appear where one was destroyed, which is the case the recheck by address
in `Observable::notify` has to survive. The two `std::list`s are counts of
entries; their order, which only orders calls, is left open. `Notify` pushes a
snapshot, `Visit` takes an entry of it, rechecks and calls or skips,
`HandlerReturns` pops; between the two the handler may do anything, another
`Notify` included. `DestroyObserver` and `DestroyObservable` are the
destructors; the latter notifies before it cuts its links.
`got` and `kept` are history variables that only properties read.

### CharDetails

The tables of the game database are constants: options, their choices, and
elements, each brought by a choice and perhaps gated by a choice of another
option. `set` fills the buckets of the option, of its parents and of its
children in the source's order, `autoSelectTextureGating` may call `set` again,
`refresh` collects the buckets into `view`. Loops over `std::map` go in the
order of the key, by the operator `Loop` of `Loops`: a recursive function, about
which the lemmas of `LoopLemmas` let one reason. `onChoice`, `onRandomise`, `onDHMode` and `Import` are the
user's operations; `MountUp` is the construction of a second `CharDetails`,
which refills the *static* table of links. Saving and loading are pure
operators (`saved`, `load`) checked in every state by `ReloadKeepsChoices`, which
compares what `get` answers: an option that was never set and one set to no choice
both answer 0. It excepts a Demon Hunter with a choice that may not be chosen
(`ModeHolds`), and looks that do not suit one another (`GatesHold`): section 6.

### ModelPanel

Objects are addresses; `heap` says which are live. An address that a pointer
still names is not allocated again, so a dangling pointer stays visible. The
handlers are compositions of the operators `canvasLoadModel`, `LoadModel`,
`ClearCanvas`, `LoadWMO`, `MountOn` and so on, in the order of the calls in the
source; one that follows a null or deleted pointer sets `fault` and nothing
happens after it. `scene`, chosen at the start, says which files fail to load
(`BrokenFiles`) and what the user does besides picking models (`Uses`).

### Playback

`anim` is the `AnimManager` with its C array of four slots, of which three start
uninitialised (`Garbage`), `panel` the animation panel, `export` the image
sequence exporter. `Tick`, `NextClip`, `SetFrame` and `Stop` call one another as
the source's functions do. The first three take as a parameter what `Stop` does
(`TickWith`, `NextClip`, `SetFrameWith`), and `Stop` itself is a recursive function
of the calls that may still be nested: `Stopping[left]` seeks with
`Stopping[left - 1]`, and the one call too many after `MaxNesting` stands for a stack
overflow (`runaway`). `Loop` takes the ticks of a seek. `frame` is a `size_t`; a
negative number stands for the huge value it wraps to, as both compare past the
end. The scaled time is truncated as C truncates. The exporter saves 32
bits of the head (`ImageSequenceExporter.cpp:151`), which is the identity here and
not for such a huge value where `size_t` has 64: `ExportRestores` speaks of the time
only where the saved one was not below zero.

### FolderService, GameFolder and ModelLoad

`FolderService` is what those who ask for files rely on, in thirty lines: while
a client is loaded a name or identifier that was answered keeps its answer, and
a request changes no other.

`GameFolder` is the code. `addChild`, `removeChild` and their overrides
`onChildAdded` and `onChildRemoved` keep the children and the two maps;
`LoadWoW`, `initFromListfile`, `ListfileRead`, `addCustomFiles` and `Ready` are
the load of a CASC client, cut after each line and each file since neither order
is specified; `LoadWoWFromMpq` and `initMpq` that of an MPQ client, into a fresh
folder; `getFileById` and `getFileByName` create what the storage opens and the
folder does not list. A file is the record of its kind, name, identifier and the
load that made it. The refinement mapping is the two maps, and "serving" is
being `ready`.

`ModelLoad` extends it with the load of a model, cut at each request to the
folder, so that every step is a step of the folder or leaves it alone. `at` gives
each open file its current chunk; `initCommon` to `setLOD` are the first part of
the load, `animateModel` to `bonesOfSkeleton` are `initAnimated`, and `finish` is
what follows. A read at a chunk that does not hold the structure, or of no
file, sets `misread`; a null pointer, an empty list or a throwing map ends in
`crashed`. `Sought` is the side effect of `Animated::init` (`animated.h:326`, 366):
a track with an animation file moves the file that named the animations to its chunk
of bones, if it has one. What a file contains is the constant `Data`.

### Equipment

One character: the slots' `WoWItem`s (`item`), the children of its attachment
(`tree`), its merged models and their `cache`, and what the customization merged
(`custom`). An object is a pair of a file and a number; `heap` is the set of
those that live, and one that is still named is not allocated again. The cache is a
set too, as each object names its file. `setId`,
`load`, `unload`, `delSlot`, `mergeFile`, `poolMergedModel` and the others are
operators on this state with the names of their functions, and their loops go by
`Loop`; a handler that tells every item something goes by `TellAll`. An action is a
handler of the character panel or the main window, and each ends with the refresh
that the handler asks for. `Init` is a new model: picked bare, read from a saved
file, imported, or an NPC; handlers that load another model start anew and are
therefore the initial states. `LoadChar` is the same file read onto the model
that is displayed. `order` is the unspecified order of the
`std::unordered_set` that holds the items. A model that fails to load is counted
neither as live nor as lost (section 6).

### MC modules and proofs

`MCExportJobs`, `MCObserver`, `MCCharDetails`, `MCModelPanel`, `MCPlayback`,
`MCEquipment` and `MCModelLoad` extend their component with finite values.
`ExportJobsProofs`, `ObserverProofs`, `CharDetailsProofs`, `ModelPanelProofs`,
`PlaybackProofs`, `EquipmentProofs` and `ModelLoadProofs` extend theirs with
theorems; the last has those about the folder first, then those about the load.
`LoopLemmas` is what `CharDetailsProofs`, `EquipmentProofs` and `PlaybackProofs` use
of loops.

Definitions commented "A mutation" or "Faulty variant" are plausible bugs that
the properties must catch; no specification uses them.

## 3. Runs, bounds and fairness

| Run | Asks | Result |
|---|---|---|
| `ExportJobs_one` | one instance, two requests for one target; the refinement and the end of every job | holds |
| `ExportJobs_three` | three requests, locks that fail or go stale, nested boxes | holds |
| `ExportJobs_cross` | two instances, one target: is there one writer? | violated |
| `Observer_reentrant` | three observers, two observables, notifications nested twice | holds |
| `CharDetails_looks` | customization under every order of operations | holds |
| `CharDetails_mount` | does the rider's customization survive a mount with options? | violated |
| `ModelPanel_scenes` | picks, imports and mounts of files that load; then broken and missing files with all but images, world map objects, or models brought over them | holds |
| `Playback_clips` | normal and double speed, every control, exports | holds |
| `Playback_stop` | does Stop return at half speed? | violated |
| `Equipment_wear` | what is drawn and what is worn, under every order of operations | holds |
| `Equipment_twice` | is a model ever attached twice? | violated |
| `ModelLoad_clients` | two clients and any models: which file a name leads to, and how it is read | holds |

**ExportJobs.** `ExportJobs_one`: `OneWriter`, the action property
`OnlySilentKilled`, the refinement `ServiceImplemented` and, under fairness,
`LaunchedEnds`. Two requests for one target meet in every phase; two lines per
child let a line wait in the pipe while another is drained; `HangKill` above
`HangWarn` keeps the two thresholds apart. `ExportJobs_three` drops lines and
liveness to afford a third job, which is what nested result boxes and a second
overlap of children need, and lets locks fail and exports outlive them
(`LockMayFail`, `LongExports`): `NoDuplicateActive` and `PollerRuns` do not rest
on locks. Its properties are kept apart from
`OneWriter` because under these two assumptions `OneWriter` is false.

*Fairness.* `Tick`, `Poll` and `OnTerminate` (an open event loop serves its
timer and its process events), `WriteLock` and `Spawn` or `SpawnFails`
(`startExport` is sequential code and returns), `DismissBox` (a modal box blocks
the frame until the user closes it). All are weak. Nothing is assumed of the
children: a child may hang for ever, and the watchdog must end it. Weak fairness
of `Poll` is enough since it stays enabled while a job runs. Deadlock is not
checked, as all requests may be done.

**Observer_reentrant.** Three observers: one whose handler runs, one it destroys,
one waiting in the snapshot. Two observables, so that an observer is linked to
another sender while one is notified. Nesting of two, so that a handler's own
notification meets the outer snapshot. Symmetric in both sets. The proofs cover
every size.

**CharDetails_looks.** Eight options: two gated by one colour with a choice without
a row, a skinned model gated by a glow, two Demon Hunter options of which one gates
the look of an option after it, a locked choice, a choice that has rows with and
without a gate. Random draws of 0 and 1 reach both choices of each option that has
two; two imports give the options in both orders, with a foreign option, with
Demon Hunter choices and with the locked one. `MCSettles` has TLC evaluate that these
tables and answers meet the hypotheses of `ExactImports` (section 4).

**ModelPanel_scenes.** One character and two other files: the third file is what
lets a dangling pointer to a former model differ from both the displayed one and
the rider. Six addresses are more than any state of this run has pointers to
different objects. Four scenes split the uses: in the first (`Tame`) every file
loads and only models are picked, so that no pointer may dangle and no handler
may fault; in the others they may, and the claim is only about what is drawn.
These three are the largest sets of uses that are not `Mixed` (section 6).
All stop at a state with no unused address or after a fault, so deadlock is not
checked.

**Playback.** Lengths of 12 and 18 with 6 intervals for a seek (60 in the code)
keep the ratio of interval to length, and let a tick of 7 miss every end and a
step of 9 fall inside. Three user events (`MaxClicks`) suffice to queue clips,
cut the queue and stop, with exports and canvas ticks without limit between
them. Speeds are tenths: 20 is double. `MaxNesting` is 10, three more than any call
that returns reaches. An export of several pictures is started with a later slot playing
and other clips queued, and `PlaceHeld` asks whether its seeks and the ticks between
them move on in the queue. It is stated of exports at no more than normal speed, from
within a clip and over a range within it (`WithinClip`): without any
one of these (with one more event for the second) TLC finds an export that moves on to
the next clip (section 6).
*Fairness:* the canvas timer keeps firing
(`ModelCanvas::OnTimer`); nothing is assumed of the user or of the exporter.
`LoopsEnd` excludes by name the frozen queue that section 6 describes.

**Equipment.** A head and a shoulder slot, so that the attachments of two slots
lie between one another, which is where `delSlot` overlooks one. One helm has
two looks of which one merges a model and the other attaches two files, one that
loads and one that does not; the second helm has one look, which is also an
NPC's; the shoulders attach the same file twice. Two customization files and a
cache of one (`MAX_CACHED` is 24) make the cache overflow; no item merges either
file (`LooksAssumption`), as a search by file would otherwise take the
item's. Objects need no bound: their number follows from what is named. Every set of
worn items is reached, and every file `SaveChar` may write is read onto every state.

**ModelLoad_clients.** Ten identifiers and six names: a model with a skeleton
that has a parent, one with its own animations, one that besides has its own chunk
of bones, one cut short, one without chunks in an MPQ archive; a name with two identifiers and an identifier with two
names in the listfile; a skeleton and an animation that the listfile does not
have; two animations of one number. The user's folder has a file for one of the
client's, one for a name that only the listfile has, and one for a name with
somebody else's identifier, and may or may not replace. Four sets of identifiers
that open leave out the parent skeleton, the skin, an animation or nearly all.
Two loads (`MaxLoads`) are the least that meet in one folder; models are loaded
without limit between and after them. Deadlock is not checked: a load may crash.
`ReadsRight` is an action property, as whether a file is there is a question
about the folder before the step. It is stated of models whose files are all there,
have the chunks that the code does not test for, are named once, and which have no
chunk of bones of their own beside animations of their own (`Complete`); for the
others it says nothing, and section 6 does. The run loads a model of the last kind,
and TLC finds it misread if `Complete` admits it. `NothingLeftOpen` excludes by name
the two files the code forgets: an animation whose place in `animfiles` another file
of the same animation takes (`Replaced`; a file that is itself named by two
animations loses none), and a parent skeleton without sequences (`Parental`).

**Violation runs** check one property each, that a comment states, and are
explained in section 5.

## 4. Proofs

`tlapm` proves 16868 obligations. The theorems hold for any sets of instances,
jobs, targets, observers, observables, displayed objects, files, lines of the
listfile, options, choices, elements, slots, items and looks and any bounds.

**ExportJobsProofs**

* `Typing`: `Spec => []TypeOK`.
* `NoDuplicate`: `Spec => []NoDuplicateActive`. Not inductive: between
  `Admit`, which searched the list, and `Spawn`, which adds to it, another start
  could add the same key. `DupInv` adds `OneStart` (an instance is in at most
  one `startExport`) and `StartStillFree` (what the search found stays true
  until the job is added). No assumption about locks.
* `Watched`: `Spec => []PollerRuns`, and `CleansUp`:
  `Spec => [](FreshLockHasHolder /\ TempRemoved)`. `CareInv` adds to the two what
  an open box implies (`Boxed`): its job is of that instance and not running, so
  that the end of a box never stops the timer of a job that runs. No assumption
  about locks.
* `DrainsFirst`: `Spec => OnlySilentKilled`, an action property, from the types and
  `BoundAssumption`: a job that was drained has been silent for 0 ticks, and no
  limit is 0.
* `LockExcludes`: `LockReliable => (Spec => []OneWriter)`. `LockReliable` says
  that there is one instance, that lock files can be created and that no export
  outlives the stale limit: the three things the violated run, `LockMayFail` and
  `LongExports` take away. `LockInv` says who may claim a target (`OneClaim`),
  that a fresh lock exists while one does (`LockHeld`), that each live child has
  a job that supervises or abandoned it (`ChildSupervised`), that nothing starts
  after a close (`ClosedLast`) and what an open box implies (`Boxed`).
* `Refinement`: `LockReliable => (Spec => ServiceImplemented)`. `ServiceInv`
  adds to `LockInv` that a status sidecar is honest about its author
  (`StatusHonest`), that a child that wrote left its own file (`WroteOwn`) and
  that a child that was never spawned has no trace (`Unborn`). `ServiceStep`
  maps each action to a step of `ExportService` or to a stutter, by
  `ViewStep`.

**ObserverProofs**

One inductive invariant `Inv`: types, `LinksAgree`, `CallsSafe` (what is on the
stack is alive and its snapshot has at most one entry per observer),
`KeptPending` (an observer that stayed attached has been called or is still in
the snapshot) and `DyingAlone` (an observable being destroyed is on the stack
once). From it `Typing`, `Links`, `NoUseAfterFree`, `Once` and `Complete`. That
counts never go below zero is part of the type invariant, and it is what
keeps `erase(findObservable(obs))` away from `end()`.

**LoopLemmas and CharDetailsProofs**

The loops of `CharDetails` are recursive functions over the options. The library's
induction theorems take an operator as a parameter, which no installed prover can
instantiate; but a *set* in the place of the predicate serves as well, and that
every set of numbers has a least one (`Least`) follows from the library's
well-foundedness of the numbers. So `Passes` is induction along a loop, `Recursion`
that a loop whose passes stay within a set has a run, and `IsRun` that the
recursive function is that run. The predicate of each use becomes the set of the
passes at which it holds.

The invariant `SettledInv` says of the whole state (`Now`) that

* every option has a choice of its own and its bucket holds elements of its own or
  gated by it (`Good`), and no batch is left on;
* what the choices call for is in the bucket where it belongs, as long as the links
  are known (`Placed`): in the bucket of the option that gates it, or of its own
  option if nothing does (`Home`);
* what is shown is what the buckets hold;
* after a choice of the user, what gates its texture is compatible (`Textured`).

The difficulty is that `set` of one option empties and refills its bucket from the
choices of the others, among which children that have yet to be set again. So
each loop keeps a partial form, `Placed(s, S)` for the options `S` already passed,
and none of its passes may undo what an earlier one placed. From `Settling` follow
`Typing` (`TypeOK`), `Complete` (`NothingMissing`), `Current` (`ViewIsCurrent`) and
`TexturedPick` (`PickedIsTextured`). Two more theorems are about several passes over
the options:

* `Reload`: `Spec => []ReloadKeepsChoices`, for any tables. Setting one saved entry
  may switch an option that another entry is about, before its turn or after. Along
  the single pass of `load`, each option already visited answers what was saved: a
  gate that `autoSelectTextureGating` finds compatible is left alone, and what was
  saved is compatible (`GatesHold`). The mode, set last, re-resolves each option to
  the choice it has (`ModeHolds`).
* `ExactImports`: `DefaultsSettle /\ ImportsSettle => (Spec => []ExactAfterImport)`.
  What a bucket holds too much is what a former choice of a child left in a parent's.
  After the first pass of `ImportArmoury` every option has the choice that the answer
  gives it, or is gated by nothing; in the second no choice of a gated option
  changes any more, so that each bucket is refilled for good. That takes an answer which is a whole character: it
  names every option, names none twice with different choices, and the texture gates
  overrule none of its choices in an option that is itself gated (`ImportsSettle`); and
  defaults of which the same holds (`DefaultsSettle`), as a new character has
  no second pass. Without these the claim is not true: an answer that leaves an
  option out may leave an element of its former choice behind. The data the armory
  sends are outside the code; the run's tables and answers meet both.

**PlaybackProofs**

All four safety properties of `Playback_clips`. `Stop`, `SetFrame`, `Tick` and `Next`
call one another, so a fact about `Stop` is proved of `Stopping[left]` by induction on
`left`: the set of the functions that behave as `Stop` should (`Stops`) contains the
one that runs away and is closed under one more call (`Halt`). Each seek within is an
induction along its ticks by `LoopLemmas`.

* `Typing` (`TypeOK`), `Holds` (`PlaceHeld`) and `Restores` (`ExportRestores`, an action
  property), for any clips, speeds, queues and nesting. `PlayInv` says that every slot of
  the queue and the one that plays are filled (`Filled`), that the loop count is at
  most one that can be chosen (`Counted`), and, while the user leaves an export alone,
  that the model is paused and, if it was a single endless clip, still is (`Waits`). For an
  export that `WithinClip` admits it adds that the place in the queue and the speed are
  the saved ones (`Held`) and that the head is inside the clip (`Inside`). `PlaceHeld`
  alone is not inductive: whether a seek ends the clip depends on where the head is and
  how fast it goes. At no more than normal speed the ticks of a seek add up to no more
  than its way (`TickHeld`, `SeekHeld`), so that none ends a clip it stays within, and
  the canvas gives a paused model no time (`NoTimeHeld`).
* `Returns`: `Moderate(reach) => (Spec => []StopReturns)`, for every number `reach`. The
  measure of a call of `Stop` is how far its seek has to go, `DepthAt`: `2p + 1` at a
  position `p >= 0`, and before 0 twice or six times the distance, for the rounding
  of the ticks. The seek ticks with the scaled and truncated time, may
  overshoot, and where it meets the end of the counted clip `Stop` is called
  again: from a state whose measure is smaller, which is the whole proof. `NearInv`
  bounds the head by `reach * (clicks + 1)`, as only the buttons for one frame move it
  on from where it is, by at most `reach`, and `MaxNesting` has room for that measure.

  `Moderate` is what the argument needs: speeds from normal to double, seeks of three
  intervals or more (60 in the code), clips that have at least one millisecond for each
  interval, and room for the calls. The slider goes from 0.1 to 4 times
  (`animcontrol.cpp:134`). Outside of these the claim is not true: below 1 it
  fails in the violated run; at double speed with a clip shorter than its 60 intervals
  the head jumps from `p` to `-p` and back; and at 2.5 a clip of 1429 ms followed by one of
  114, each played once, sends a Stop at 114 to -70 and the Stop there to 114 again.
  Between 2 and 2.5 it is neither proved nor refuted.
  With a `reach` of 18 `Playback_clips` meets every hypothesis but the last, for
  which `MaxNesting` would have to be 2161. It passes with that too, but TLC's own stack
  is not as deep, so that a faulty variant would overflow it instead of violating the
  property: hence 10, which also shows how few calls there are in truth.

**EquipmentProofs**

All six invariants of `Equipment_wear`, for any slots, items, rows, NPC looks, files
and cache. `ItemsAssumption`, `LooksAssumption` and `FilesAssumption` say what the
tables are: an item has rows, a look attaches two models at most
(`WoWItem::load`), and no item merges a customization's file. `EquipInv` says of the
whole state (`Now`) that it is `Ready`:

* every live object has one owner and what is owned is alive (`Alive`, `Owned`,
  `Apart`), the customization has at most one object of each file in use and one in
  the cache (`Stocked`), and an attachment names a model of its own slot (`Hung`);
* the attachments are `Tidy`. Nothing names a deleted model though `delSlot` passes
  over the attachment after one that it erases, and though `~WoWModel` clears only
  the last attachment that names it. That takes two facts: of two attachments of one
  model the earlier is the first of its slot (`FirstTwice`), which `delSlot` always
  erases; and a slot has three attachments at most (`Few`);
* what a slot wears is `Clad`: its levels, its remembered modifiers and its look come
  from items of the slot, and those of the item it wears are that item's own;
* every slot is drawn (`Attached`), and merged besides are models of just the files
  that the choices want and that load (`Kinds`).

Each operation has a lemma that it keeps `Sound` or `Fine`, which hold between the
steps of a handler too; `AllTold` goes along the slots in any order; and
`AllRefreshed` says that a refresh draws them all. The recursive functions of the
loops are related to their passes as in `CharDetailsProofs`. From the invariant follow
`TypesKept` (`TypeOK`), `NamesLive` (`NoDeadModel`), `NoLeak` (`NothingLost`),
`DrawnIsWorn` (`WornIsDrawn`), `OwnLook` (`LookIsOwn`) and `SavedComesBack`
(`ReloadShows`).

**ModelPanelProofs**

`Typing`: `Spec => []TypeOK`, and `Drawn`: `Spec => []RenderSafe`, for any scenes.
There is one lemma per operation that frees or forgets (`Deleted`, `RootSet`,
`Cleared`, `WMOGone`, `CanvasGone`), which `Room` lets be composed: such a step leaves every
free address free, so that the next `CHOOSE` has one that no pointer names. Then
there is one per handler. `PanelInv` has in every scene

* `Sound`: the child attachment never keeps a deleted model, because `~WoWModel`
  leaves it, and neither it nor the character panel names a world map object, for
  which that would not hold;

and in those that are not mixed

* `Rooted`: root's model is alive while something is displayed. It is not
  kept by the deletion of a picked world map object, which leaves no attachment,
  unless the canvas is then empty. That takes the rest of the invariant: without
  world map objects `isWMO` is never set; without imports and mounts one thing at
  most is displayed, as the flags say (`Single`), which needs that the
  character panel names the displayed model or nothing that is left (`Solo`), as
  a dismount displays what it names;
  without images every handler that clears loads something at once, which resets
  root.

The scenes where every file loads and only models are picked, imported and mounted
(`Tame`) have an invariant of their own, `TameInv`: no fault, no world map object
and no flag that says so, and either nothing was loaded yet (`Blank`) or a model is
displayed, alone or mounted by the character (`Displays`), and every panel names it
or the rider. A handler takes the pointers apart and puts them together again, so
there is one lemma for each of its calls on the weaker `Loadable`, which is all that
a load needs. From it `Unharmed` (`NoFault`), `Alive` (`PanelsAlive`) and `Shown`
(`EditsShown`).

**ModelLoadProofs**

* `Maps`: `FolderSpec => []MapsAgree`. The difficulty is that `removeChild` erases
  by name and identifier whatever the maps hold there, while a listfile may repeat
  both: the entry it erases may be another child's. `FolderInv` adds which phases each storage has
  (`Stores`), that no file is younger than the load (`Dated`), that a deleted file
  had a name and, while the listfile is read, is of an earlier load (`Buried`), and
  what a load has yet to visit (`Visits`): each custom file is added once in a
  load, so the file that is added never is one that was deleted. `AddAgrees` and
  `SwapAgrees` are the two ways in which the maps
  change: `addCustomFiles` removes the file that the *name* leads to and adds one
  with the same name and identifier, which is why no child is hidden.
* `Choice`: `FolderSpec => []Chosen`, in whatever order the lines of the listfile
  and the user's files are visited. `ChoiceInv` adds to the invariant of
  `ShownAlive` that a file that stands for a name of the listfile has an
  identifier that the listfile gives the name (`Numbered`, from `m_nameIdMap`:
  `NameIds`), that the identifier of a user's file leads to a user's file if the
  client has no such file or this load added it (`Owned`), and what each phase has
  settled about the names it has visited (`Settled`).
* `Serves`: `FolderSpec => ServiceKept`, by the lemmas `Files` (what a request
  makes) and `NewById`, `NewByName` (it changes no key but its own).
* `UsesFolder`: `Spec => FolderSpec`, one step per action of the load, and from it
  `ModelsServed`: `Spec => []MapsAgree /\ ServiceKept`.
* `ShownAlive`: `Spec => []ShownIsAlive`. `ShownInv` says that while a
  client is loaded the file of the model is of an earlier load (`Earlier`), which
  names a CASC folder knows (`Listed`), and that once the listfile was read again
  each of the client's names leads to a file of this load (`Relisted`): so
  `addCustomFiles`, which comes after it, deletes the new file and not the one
  displayed.

*The load.* What the load of a model does with what the folder answers. A request creates a file
or finds one, and the load asks for the same name several times over many steps.

* `AnswersStay` and `AnswerFresh` say that while a client is served a name keeps its
  answer and that the answer is a file of this load or one of the user's. `FreshInv`
  adds to `ChoiceInv` that an MPQ client has only files of MPQ archives, that the
  storage has what it lists, and that each listed name whose lines were read leads
  to a file of this load.
* `LoadTyping`: `Spec => []TypeOK`. `LoadInv` is `FreshInv` with the types of the
  load (`Typed`), that what it works on is served and its files are real
  (`Settles`), and that what `animfiles` names is open or is the parent (`Held`).
* `Closed`: `Spec => []NothingLeftOpen`. `OpenInv`: every open file has somebody who
  will close it, at each place of the load (`Owing`, by `Owed`), and an animation
  that is in `animfiles` is one whose turn has come (`Visited`).
* `RightBytes`: `Spec => ReadsRight`. `ReadInv`: a file without chunks is at its only
  place (`Flat`), an open file is not of a later load than the folder's (`Past`),
  and while the model is complete the chunk set in each file is the one that the
  next read wants (`Fit`). The step that costs most is the return from the parent
  skeleton to the model's own. The tracks of a model without a skeleton keep it at its
  main chunk because `Complete` leaves `Sought` nothing to move it to.

**Only model-checked.** Liveness (`LaunchedEnds`, `LoopsEnd`): out of the prover's
reach. Every other property of a passing run is a theorem, two of them under the
hypotheses named above (`Returns`, `ExactImports`) and two under `LockReliable`.

## 5. Disagreements between the code and its comments

* `ExportJobs_cross` - `ExportJobManager.cpp:127` announces a "Cross-instance
  duplicate guard". The lock is tested at line 130 and created at line 194 with a
  plain open: two instances that both pass the test both export.
* `CharDetails_mount` - `CharDetails.cpp:536`: "each child must be re-resolved
  against the new related choice". The table of children is static, and a mount
  with options replaces it by its own.
* `Playback_stop` - `AnimManager.h:97`: Stop "Stops and resets the animation".
  Below normal speed the seek back to 0 is truncated, misses 0, meets the end of
  the clip with the loop count still 1, and calls Stop again from the same state.
  Section 4 has two more cases, at double speed with very short clips and at 2.5, and
  proves that there is none from normal to double speed with others.
* `Equipment_twice` - `WoWItem.cpp:201`: "remove any existing attachement".
  `Attachment::delSlot` erases by index while it counts up (`Attachment.cpp:145`)
  and so passes over the one that moves into the gap: of the two models of a
  shoulder item one stays attached at every refresh and is drawn twice.

## 6. Seen while modelling, without a run

Export and customization:

* The destructor's comment says that running children are detached
  (`ExportJobManager.cpp:90`); it never calls `Detach`, and a child that ends while
  the last events are delivered calls the deleted manager (`LateTerminate`).
* A refused or failed start leaves the temporary `.chr` on disk
  (`modelviewer.cpp:3251`); `TempRemoved` covers launched jobs.
* A parent's bucket keeps elements of a child's former choice until the parent
  is set (`CharDetails.cpp:528`): why `ExactAfterImport` is stated after a batch
  and not always. A parent that has no choice itself collects the plain elements of
  its children's former choices in the same way.
* The Demon Hunter looks are said to attach when the mode is on and to detach when it
  is off (`CharDetails.cpp:225`). Leaving it erases the elements of each Demon Hunter
  option (line 240) and keeps its entry in `currentCustomization_`, which `set` of a
  later option reads for its gates (line 518): an element of an ordinary option that
  a Demon Hunter choice gates comes back with the next choice of that option. The
  erasure also takes the elements that the option gates for others.
* An import may set a locked choice of a displayed Demon Hunter, which a reload of
  the saved file replaces: `load` ends with `setDemonHunterMode`, whose defaults do
  not know it. `ReloadKeepsChoices` supposes that there is none (`ModeHolds`), and that
  the looks suit one another (`GatesHold`): a look may have been followed by a choice
  of its gate that does not suit it, and loading the look switches the gate.
* The export's reload makes one pass over the saved choices where the import
  makes two (`modelviewer.cpp:3202`), so an element can differ.
* `SaveChar` writes `canvas->model()`, the mount while mounted
  (`modelviewer.cpp:2623`). `OnExport` tests one pointer and uses another
  (`modelviewer.cpp:3125`).
* Random looks set gates after what they gate (`CharDetails.cpp:188`), so
  `PickedIsTextured` is about the user's own pick.

Displayed model:

* "Deleting it here is safe now that it's detached" (`modelcanvas.cpp:360`): it is
  detached from the tree and not from `CharControl::model`, `g_selModel`,
  `ModelControl::model` and the list of attachments, whose panels stay enabled
  after `ClearCanvas` (`filecontrol.cpp:480`).
* A load while mounted forgets the rider (`charcontrol.cpp:949`). Choosing no
  mount reads root's model after it was set to null (`charcontrol.cpp:915`).
  `LoadChar` uses the canvas's model after a load that may have failed
  (`modelviewer.cpp:2798`). A world map object is deleted while it is root's
  model (`filecontrol.cpp:450`). `isWMO` stays set after an import
  (`modelviewer.cpp:991`): with a model imported or mounted over a world map
  object, picking another and then an image deletes that object while the model
  keeps the canvas drawing, and root names the deleted one. `RenderSafe` excepts
  these scenes (`Mixed`). `ModelPanel` has these steps and reports `fault` or
  breaks the property if `Uses` lets the passing runs take them.

Playback:

* `Stop` ends at a slot other than 0 when clips differ in length
  (`AnimManager.cpp:92`). Unchecking the queue while slot 2 or 3 plays freezes
  playback (`AnimManager.cpp:158`). A new loop count applies only from the next
  stop on. The bones follow `currentAnim`, which chained clips do not change
  (`animcontrol.cpp:1181`). An export is called non-destructive
  (`ImageSequenceExporter.h:24`), yet above normal speed, or with a range that goes to
  the clip's end as the range of the whole clip does, a seek runs on to the next clip:
  later pictures are taken there, and the saved time is put back onto the clip that is
  left. Why `PlaceHeld` and the last clause of `ExportRestores` suppose `WithinClip`, and
  the clause before it a single endless clip. A head that wrapped below zero loses its
  upper 32 bits to `m_savedFrame` (`ImageSequenceExporter.cpp:151`). `OnCheck` uses a null model before
  one is loaded (`animcontrol.cpp:1262`). The mouth and secondary tracks
  subtract their length once only (`AnimManager.cpp:166`).

Equipment:

* A saved item that is a mere look (an NPC's) is lost when the file is read onto
  the displayed character: `setId(0)` before it leaves the id at 0, and `refresh`
  shows nothing (`WoWItem.cpp:943`). `ReloadShows` says it of new models only.
* `WoWItem` has no destructor: the models of the items go with nothing when the
  character is replaced. A model that does not load is forgotten by
  `updateItemModel` (`WoWItem.cpp:989`); a merged one that does not load is
  kept, and its null `gamefile` is read by the searches of `WoWModel::mergeModel`.
* The modifiers of former items stay (`WoWItem.cpp:91`): an import with a
  modifier that the new item does not have would show the look of the old one.
  The armory sends modifiers that its items have, which is what `Imports` holds.
* The customization looks merged models up by file (`CharDetails.cpp:1046` says
  that it does not touch the items'): it would find an item's, if they shared one.

Game folder and loading of models:

* A file that was opened by identifier only is called `File%08x.unk`, with a
  capital, and requests by name are folded to lower case: they never find it. A
  saved character names its model (`modelviewer.cpp:2795`), so one of such a model
  cannot be read again.
* Loading the client again from the menu reads it into the folder of the first
  (`modelviewer.cpp:2139`): every listed file is added a second time. A file of the
  user's that stands for none of the client's is deleted (`WoWFolder.cpp:110`) while
  a displayed model keeps it, which is what `ShownIsAlive` excludes by name; files
  of a former custom directory or of another build stay in the maps.
* A name listed with two identifiers: `CASCFile::openFile` falls back from its own
  identifier to the last one of the name, and then has the other's contents
  (`CASCFile.cpp:131`).
* `m_refCounter` is unsigned and nobody calls `ref`: `unref` wraps and never
  deletes (`Component.cpp:87`), so the children of a folder that is replaced stay,
  and `delete originalFile` after `removeChild` does not delete twice.
* The skeleton is used without a null test (`WoWModel.cpp:500`, 729, 1016); its
  parent is opened again without one (1064). `setLOD` takes the size of a vector
  object for its length (1499) and indexes an empty list when there is no `SFID`.
  `animIndexToAnimId.at` throws when no animation was read (`animated.h:321`). A track
  whose animation has a file moves the file that named it to its chunk of bones and
  leaves it there (`animated.h:326`, 366): where that is the model itself, with such a
  chunk of its own, every later read of the model is at the wrong place. These are the
  cases that `Complete` leaves out of `ReadsRight`.
* A second file of an animation takes the first one's place and the first is never
  closed (`WoWModel.cpp:986`), nor is a parent skeleton without `SKS1` (525). A model
  cut short is reported as unable to load, but `ok` stays set (484).
* `GameFile::setChunk` saves the position into a copy of the chunk and never sets
  `curChunk` (`GameFile.cpp:108`): returning to a chunk starts at its beginning,
  which every caller expects. `HardDriveFile.cpp:49` tests `!file && !file->isOpen()`.
* Merged models: the references that a load takes in the texture manager are not
  released, and a merged model without textures shifts those of the next.

Elsewhere: `Manager::clear` visits identifiers below 50 (`games/wow/manager.h:127`);
`~majorVersion() >= 9` is never true (`modelviewer.cpp:2296`).

## 7. What is not modelled

`PROJECT.json` lists every part. The main reasons:

* *Arithmetic on floats and pictures*: rendering, particles, bones, cameras,
  textures, world map drawing, animation writers. Most of the implementation's
  lines are of these kinds or vendored.
* *Decoding of files* (`wdb*`, `wdc*`, `dbdfile`, CASC and MPQ below the
  provider) and of web answers: no state outlives a call.
* *Code that runs once and in order*: start-up, options, settings, plug-in
  loading, the FBX and OBJ translation, the list file generator, the Blender
  add-on, the proxy.
* *Vendored code*: sqlite, installers.

Left out of modelled components: texts and layout of dialogs, logging; in
`ModelPanel` the drawing and the export; in `Playback` the secondary and mouth
tracks, `currentAnim` and the pictures; in `Equipment` textures, geosets, the
tabard's design, sheathing and hands of creatures; in `GameFolder` the searches of
the file tree, the order of the archives, keys and locales, a load that fails
before the listfile, a change of build or of the custom directory between loads,
and lines that the listfile repeats exactly; in `ModelLoad` positions within a
chunk, and a file left open over a second load is taken to have what it would be
opened with then; in `ExportJobs` the file formats of the
sidecars and the scene that is exported.

## 8. Plan

Done, in this order: `ExportService`, `ExportJobs` and its proofs; `Observer`
and its proofs; `CharDetails`; `ModelPanel` and its proofs; `Playback`; `Equipment`;
`FolderService`, `GameFolder`, `ModelLoad` and their proofs; the proofs about
`ModelPanel`'s panels, about the reads of a load, about `CharDetails`, about
`Equipment` and about `Playback`.

Next, most important first:

1. `Returns` between the speeds 2 and 2.5: a bound on the speed that is the least.
2. `Shared`: counts of textures and models (`games/wow/manager.h`).
3. `Download`: the wait for a web answer inside a local event loop.
4. `ModelPanel` over `ModelLoad`: the files of the picked models through the
   folder, instead of constants that say which of them load.

`Equipment` has the part of the customization that merges models; a composition
with the choices of `CharDetails` would replace its `wanted`.
