------------------------------ MODULE Playback ------------------------------
(***************************************************************************)
(* Playback of a model's animations: the queue of up to four clips that    *)
(* AnimManager plays (AnimManager.cpp), the controls of the animation      *)
(* panel that drive it (animcontrol.cpp), the canvas timer that advances   *)
(* it (modelcanvas.cpp) and the image sequence exporter, a second timer    *)
(* that moves the same play head one picture at a time while every control *)
(* stays live (ImageSequenceExporter.cpp).                                 *)
(*                                                                         *)
(* Frame is a size_t.  Here it is an integer, and a negative one stands    *)
(* for the huge value it wraps to: the unsigned comparison with the length *)
(* of the clip finds both past the end.  The exporter saves only 32 bits   *)
(* of Frame, which gives another such value back where a size_t has 64;    *)
(* here it is the same one.                                                *)
(***************************************************************************)
EXTENDS Loops

CONSTANTS Anims,           \* the clips of the model
          Length,          \* their length, in milliseconds
          NextAnim,        \* the clip each one names as its successor, or None
          First,           \* the clip the model's file lists first
          Stand,           \* the clip a model shows when it is loaded
          None,
          FrameIntervals,  \* steps a seek is cut into per clip: 60
          Ticks,           \* times between two canvas timer events
          Speeds,          \* positions of the speed slider, in tenths
          LoopChoices,     \* the entries of the loop list
          SliderStops,     \* bound: places the frame slider is dragged to
          Ranges,          \* custom export ranges, <<first, last>>
          Step,            \* time between two exported pictures
          MaxNesting,      \* bound: calls of Stop inside one another
          MaxClicks        \* bound: events the user causes

ASSUME PlaybackAssumption ==
  /\ Length \in [Anims -> Nat]
  /\ NextAnim \in [Anims -> Anims \cup {None}]
  /\ None \notin Anims
  /\ {First, Stand} \subseteq Anims
  /\ FrameIntervals \in Nat \ {0}
  /\ Step \in Nat \ {0}
  /\ LoopChoices \subseteq Nat /\ 0 \in LoopChoices
  /\ Ticks \subseteq Nat /\ Speeds \subseteq Nat /\ SliderStops \subseteq Nat
  /\ \A r \in Ranges : r \in Nat \X Nat /\ r[1] <= r[2]
  /\ MaxNesting \in Nat /\ MaxClicks \in Nat

VARIABLES anim,     \* the AnimManager of the displayed model
          panel,    \* the animation panel
          export,   \* the image sequence exporter
          clicks    \* events caused by the user so far

vars == <<anim, panel, export, clicks>>

(***************************************************************************)
(* AnimManager                                                             *)
(***************************************************************************)
\* animList is a C array: a slot nothing was stored in holds anything.
Garbage == [id |-> None, loops |-> 0]
Clips == [id : Anims, loops : LoopChoices]

Managers ==
  [paused : BOOLEAN, list : [0..3 -> Clips \cup {Garbage}], frame : Int, count : 0..4,
   index : 0..3, loop : Nat, speed : Nat, runaway : BOOLEAN]

\* The constructor; only slot 0 is initialised.
AnimManager ==
  [paused |-> FALSE,
   list   |-> [i \in 0..3 |-> IF i = 0 THEN [id |-> First, loops |-> 0] ELSE Garbage],
   frame  |-> 0, count |-> 1, index |-> 0, loop |-> 0, speed |-> 10,
   runaway |-> FALSE]

LengthOf(m) == LET id == m.list[m.index].id IN IF id \in Anims THEN Length[id] ELSE 0

\* C truncates towards zero where \div rounds down.
Quotient(a, b) == IF a >= 0 THEN a \div b ELSE -((-a) \div b)

PastEnd(m) == m.frame < 0 \/ m.frame >= LengthOf(m)

Rewind(m) == [m EXCEPT !.frame = 0]

\* Faulty variant: the loops that are left are not counted down.
NextClipForever(m, stop) ==
  LET next == m.index + 1
  IN  CASE m.loop = 1 /\ next >= m.count -> stop[m]
        [] m.loop = 1 /\ next < m.count  -> Rewind([m EXCEPT !.index = next, !.loop = m.list[next].loops])
        [] m.loop > 1                    -> Rewind(m)
        [] OTHER                         -> Rewind([m EXCEPT !.index = IF next >= m.count THEN 0 ELSE next])

\* The end of a clip: the next loop, the next clip, or the end of the queue,
\* where stop is what Stop does, which begins with slot 0.
\* A loop count of 0 means endless, and is not reloaded for the next clip.
NextClip(m, stop) ==
  LET next == m.index + 1
  IN  CASE m.loop = 1 /\ next >= m.count -> stop[m]
        [] m.loop = 1 /\ next < m.count  -> Rewind([m EXCEPT !.index = next, !.loop = m.list[next].loops])
        [] m.loop > 1                    -> Rewind([m EXCEPT !.loop = @ - 1])
        [] OTHER                         -> Rewind([m EXCEPT !.index = IF next >= m.count THEN 0 ELSE next])

\* A queue cut short while a later slot plays is not ticked at all.
Ticking(m) == m.count >= m.index /\ ~m.runaway

TickWith(m, time, stop) ==
  LET moved == [m EXCEPT !.frame = @ + Quotient(time * m.speed, 10)]
  IN  IF ~Ticking(m) THEN m
      ELSE IF PastEnd(moved) THEN NextClip(moved, stop)
      ELSE moved

\* ForceModelUpdate once per interval.
Seek(m, time, chunks, stop) ==
  Loop(LAMBDA t, i : TickWith(t, time, stop), m, [i \in 1..chunks |-> i])

\* Faulty variant: a seek is one tick.
OneChunk(m, diff) == 1

Chunks(m, diff) ==
  LET interval == LengthOf(m) \div FrameIntervals
      n == IF interval = 0 THEN 1 ELSE (IF diff < 0 THEN -diff ELSE diff) \div interval
  IN  IF n > 1 THEN n ELSE 1

Arrive(m, f) == [m EXCEPT !.frame = f]

SetFrameWith(m, f, stop) ==
  LET diff == f - m.frame
      n    == Chunks(m, diff)
  IN  Arrive(Seek(m, Quotient(diff, n), n, stop), f)

\* Stop and SetFrame call each other through Tick and Next: Stopping[left] is
\* Stop when left calls of it may be nested, and the one too many runs away.
Begin(m) == [m EXCEPT !.paused = TRUE, !.index = 0]
Stopping[left \in 0..MaxNesting] ==
  [m \in Managers |->
     IF left = 0 THEN [Begin(m) EXCEPT !.runaway = TRUE]
     ELSE [SetFrameWith(Begin(m), 0, Stopping[left - 1]) EXCEPT !.loop = m.list[0].loops]]

Tick(m, time) == TickWith(m, time, Stopping[MaxNesting])
SetFrame(m, f) == SetFrameWith(m, f, Stopping[MaxNesting])
Stop(m) == Stopping[MaxNesting][m]

Play(m) == [m EXCEPT !.paused = FALSE]

\* Faulty variant: Pause always toggles.
Toggle(m, force) == [m EXCEPT !.paused = ~@]

Pause(m, force) == [m EXCEPT !.paused = ~@ \/ force]

SetAnim(m, id, loops) ==
  [m EXCEPT !.list[0] = [id |-> id, loops |-> loops], !.count = 1, !.index = 0, !.frame = 0]

\* Faulty variant: a fifth clip is accepted.
AddFifth(m, id, loops) ==
  IF m.count > 4 THEN m
  ELSE [m EXCEPT !.list[m.count] = [id |-> id, loops |-> loops], !.count = @ + 1]

AddAnim(m, id, loops) ==
  IF m.count > 3 THEN m
  ELSE [m EXCEPT !.list[m.count] = [id |-> id, loops |-> loops], !.count = @ + 1]

Clear(m) ==
  LET s == Stop(m)
  IN  [s EXCEPT !.paused = TRUE, !.index = 0, !.count = 0, !.loop = 0, !.frame = 0]

\* NextFrame (sign 1) and PrevFrame (sign -1) move the head, then tick by as much.
StepFrame(m, sign) ==
  LET d == sign * (LengthOf(m) \div FrameIntervals)
  IN  Tick([m EXCEPT !.frame = @ + d], d)

(***************************************************************************)
(* The panel                                                               *)
(***************************************************************************)
\* The clips that follow one another by NextAnim, at most three.
After(id) == IF id = None THEN None ELSE NextAnim[id]
AddIfAny(m, id, loops) == IF id = None THEN m ELSE AddAnim(m, id, loops)
AddSuccessors(m, id, loops) ==
  LET second == After(id)
      third  == After(second)
      fourth == After(third)
  IN  AddIfAny(AddIfAny(AddIfAny(m, second, loops), third, loops), fourth, loops)

Follow(m, id) == IF panel.next THEN AddSuccessors(m, id, panel.loops) ELSE m

\* Stop, choose, queue the successors, play: OnAnim and OnLoop.
Restart(m, id, loops) == Play(Follow(SetAnim(Stop(m), id, loops), id))

(***************************************************************************)
(* The exporter                                                            *)
(***************************************************************************)
Idle == [on |-> FALSE, index |-> 0, first |-> 0, last |-> 0, saved |-> AnimManager,
         touched |-> FALSE]

TotalFrames == (export.last - export.first) \div Step + 1

FrameTime ==
  LET t == export.first + export.index * Step
  IN  IF t > export.last THEN export.last ELSE t

\* Faulty variant: only the time is restored.
TimeRestored(m) == SetFrame(m, export.saved.frame)

\* restoreState: the time, and playing if it played.
Restored(m) ==
  LET at == SetFrame(m, export.saved.frame)
  IN  IF export.saved.paused THEN at ELSE Play(at)

(***************************************************************************)
(* Actions                                                                 *)
(***************************************************************************)
\* AnimControl::UpdateModel of a model just read.
Load == Play(Follow(SetAnim(AnimManager, Stand, 0), Stand))

Init ==
  /\ panel \in [selected : {First}, next : BOOLEAN, oldStyle : {TRUE},
                loops : {0}, slider : {Length[Stand]}]
  /\ anim = Load
  /\ export = Idle
  /\ clicks = 0

\* The canvas timer; a paused model is ticked by 0.
CanvasTick ==
  /\ \E t \in Ticks : anim' = Tick(anim, IF anim.paused THEN 0 ELSE t)
  /\ UNCHANGED <<panel, export, clicks>>

Click ==
  /\ clicks < MaxClicks
  /\ clicks' = clicks + 1
  /\ export' = [export EXCEPT !.touched = export.on]

OnButton ==
  /\ Click
  /\ \/ anim' = Play(anim)
     \/ anim' = Pause(anim, FALSE)
     \/ anim' = Clear(anim)
     \/ anim' = AddAnim(anim, panel.selected, panel.loops)
     \/ \E sign \in {-1, 1} :
          LET m == StepFrame(anim, sign) IN anim' = SetFrame(m, m.frame)
  /\ UNCHANGED panel

OnStop ==
  /\ Click
  /\ anim' = Stop(anim)
  /\ UNCHANGED panel

OnNextAnims ==
  /\ Click
  /\ panel' = [panel EXCEPT !.next = ~@]
  /\ anim' = IF panel.next THEN [anim EXCEPT !.count = 1]
             ELSE AddSuccessors(anim, panel.selected, panel.loops)

OnOldStyle ==
  /\ Click
  /\ panel' = [panel EXCEPT !.oldStyle = ~@]
  /\ UNCHANGED anim

OnAnim ==
  /\ Click
  /\ \E id \in Anims :
       \/ /\ panel.oldStyle
          /\ anim' = Restart(anim, id, panel.loops)
          /\ panel' = [panel EXCEPT !.selected = id, !.slider = Length[id]]
       \/ /\ ~panel.oldStyle
          /\ anim' = anim
          /\ panel' = [panel EXCEPT !.selected = id]

OnLoop ==
  /\ Click
  /\ \E n \in LoopChoices :
       /\ panel' = [panel EXCEPT !.loops = n]
       /\ anim' = IF panel.oldStyle THEN Restart(anim, panel.selected, n) ELSE anim

OnSpeed ==
  /\ Click
  /\ \E s \in Speeds : anim' = [anim EXCEPT !.speed = s]
  /\ UNCHANGED panel

\* The slider goes to the last frame of the clip chosen last.
OnFrame ==
  /\ Click
  /\ \E f \in SliderStops : f < panel.slider /\ anim' = SetFrame(anim, f)
  /\ UNCHANGED panel

\* Another model of the same shape is displayed.
UpdateModel ==
  /\ Click
  /\ panel' = [panel EXCEPT !.selected = First, !.slider = Length[Stand]]
  /\ anim' = Load

StartExport ==
  /\ ~export.on
  /\ clicks < MaxClicks
  /\ clicks' = clicks + 1
  /\ \E r \in Ranges \cup {<<0, LengthOf(anim)>>} :
       export' = [Idle EXCEPT !.on = TRUE, !.first = r[1], !.last = r[2], !.saved = anim]
  /\ anim' = Pause(anim, TRUE)
  /\ UNCHANGED panel

\* One picture.
ExportFrame ==
  /\ export.on
  /\ export.index < TotalFrames
  /\ anim' = SetFrame(anim, FrameTime)
  /\ export' = [export EXCEPT !.index = @ + 1]
  /\ UNCHANGED <<panel, clicks>>

\* The last picture was taken, one could not be written, or the user cancelled.
ExportEnds ==
  /\ export.on
  /\ anim' = Restored(anim)
  /\ export' = Idle
  /\ UNCHANGED <<panel, clicks>>

Next ==
  \/ CanvasTick \/ OnButton \/ OnStop \/ OnNextAnims \/ OnOldStyle \/ OnAnim \/ OnLoop
  \/ OnSpeed \/ OnFrame \/ UpdateModel \/ StartExport \/ ExportFrame \/ ExportEnds

Spec == Init /\ [][Next]_vars

\* The canvas timer keeps firing.
Fairness == WF_vars(CanvasTick)

FairSpec == Spec /\ Fairness
(***************************************************************************)
(* Properties                                                              *)
(***************************************************************************)
\* The slot that plays and every slot of the queue was filled for this model
\* by AddAnim or SetAnim, though slots 1 to 3 start uninitialised and the
\* queue is cut, cleared and refilled while a later slot plays.
TypeOK ==
  /\ anim.list \in [0..3 -> Clips \cup {Garbage}]
  /\ anim.index \in 0..3 /\ anim.count \in 0..4
  /\ \A i \in 0..3 : (i < anim.count \/ i = anim.index) => anim.list[i] # Garbage
  /\ anim.frame \in Int /\ \E n \in LoopChoices : anim.loop \in 0..n
  /\ anim.speed \in Speeds \cup {10}
  /\ {anim.paused, anim.runaway} \subseteq BOOLEAN
  /\ panel \in [selected : Anims, next : BOOLEAN, oldStyle : BOOLEAN,
                loops : LoopChoices, slider : Nat]
  /\ export.on \in BOOLEAN /\ export.index \in 0..TotalFrames

\* Stop seeks to 0, the seek ticks, a tick may end the clip and the end of the
\* queue calls Stop: as long as clips have a length this comes to an end.
StopReturns == ~anim.runaway

\* What that takes: speeds from normal to double, clips that are not too short
\* to be cut into pieces, and room for as many calls as the head is far.
Moderate(reach) ==
  /\ FrameIntervals >= 3 /\ Speeds \subseteq 10..20
  /\ \A id \in Anims : FrameIntervals <= Length[id] /\ Length[id] <= reach
  /\ Ticks \cup SliderStops \subseteq 0..reach /\ \A r \in Ranges : r[2] <= reach
  /\ 30 * reach * (MaxClicks + 1) + 1 <= MaxNesting

\* An export at no more than normal speed, from within a clip and over a range
\* within it.
WithinClip ==
  /\ export.saved.speed <= 10
  /\ ~PastEnd(export.saved)
  /\ export.last < LengthOf(export.saved)

\* The slot that plays, its clip and the loops it has left.
Place(m) == <<m.index, m.list[m.index], m.loop>>

\* Such an export takes all its pictures at the place in the queue where it was
\* started, though the queue has other clips, each seek ticks the model and may
\* end a clip, and the canvas timer ticks it between two pictures.
PlaceHeld ==
  (export.on /\ ~export.touched /\ WithinClip) => Place(anim) = Place(export.saved)

\* An export the user did not disturb leaves the model at the time it had, and
\* playing if it played; with a single endless clip, and for an export within
\* its clip, it leaves the place in the queue too.
ExportRestores ==
  [][(export.on /\ ~export'.on /\ ~export.touched) =>
       /\ export.saved.frame >= 0 => anim'.frame = export.saved.frame
       /\ anim'.paused = export.saved.paused
       /\ (export.saved.count = 1 /\ export.saved.index = 0 /\ export.saved.loop = 0) =>
            (anim'.index = 0 /\ anim'.loop = 0)
       /\ WithinClip => Place(anim') = Place(export.saved)]_vars

\* Once the user is done, a queue with loop counts plays to its end and stops,
\* unless it was cut short while a later slot played.
LoopsEnd == <>[](anim.paused \/ anim.loop = 0 \/ ~Ticking(anim))
=============================================================================
