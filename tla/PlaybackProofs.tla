---------------------------- MODULE PlaybackProofs ----------------------------
(***************************************************************************)
(* Theorems about Playback, for any clips, speeds, ranges and bounds.      *)
(* Stop, SetFrame and Tick call one another, so what each of them keeps is *)
(* proved for any function in the place of Stop that keeps it, then for    *)
(* Stop by the number of calls that are left.  That number suffices if a   *)
(* call within a call starts with a head nearer to zero.                   *)
(***************************************************************************)
EXTENDS Playback, LoopLemmas

(***************************************************************************)
(* Numbers and clips.                                                      *)
(***************************************************************************)
LEMMA Division ==
  ASSUME NEW a \in Nat, NEW b \in Nat \ {0}
  PROVE  /\ a \div b \in Nat /\ a \div b <= a
         /\ (a \div b) * b <= a /\ a < (a \div b) * b + b
  OBVIOUS

LEMMA QuotientTyped == \A a \in Int, b \in Nat \ {0} : Quotient(a, b) \in Int
  BY Division DEF Quotient

LEMMA ClipTypes ==
  /\ Garbage.loops \in Nat /\ \A c \in Clips : c.loops \in LoopChoices /\ c.id \in Anims
  /\ LoopChoices \subseteq Nat /\ 0 \in LoopChoices /\ Garbage \notin Clips
  BY PlaybackAssumption DEF Garbage, Clips

LEMMA LengthTyped == \A m \in Managers : LengthOf(m) \in Nat
  BY PlaybackAssumption DEF LengthOf

LEMMA ChunksTyped == \A m \in Managers, d \in Int : Chunks(m, d) \in Nat \ {0}
<1> SUFFICES ASSUME NEW m \in Managers, NEW d \in Int PROVE Chunks(m, d) \in Nat \ {0}
  OBVIOUS
<1> DEFINE interval == LengthOf(m) \div FrameIntervals
           size == IF d < 0 THEN -d ELSE d
           n == IF interval = 0 THEN 1 ELSE size \div interval
<1>1. interval \in Nat
  BY LengthTyped, Division, PlaybackAssumption
<1>2. size \in Nat
  OBVIOUS
<1> HIDE DEF interval, size
<1>3. n \in Nat
  BY <1>1, <1>2, Division
<1> HIDE DEF n
<1> QED
  BY <1>3 DEF Chunks, n, interval, size

(***************************************************************************)
(* Any function in the place of Stop.                                      *)
(***************************************************************************)
Deeds == [Managers -> Managers]

LEMMA TickTyped ==
  ASSUME NEW stop \in Deeds, NEW m \in Managers, NEW time \in Int
  PROVE  TickWith(m, time, stop) \in Managers
<1> DEFINE step == Quotient(time * m.speed, 10)
           moved == [m EXCEPT !.frame = m.frame + step]
<1>1. step \in Int
  BY QuotientTyped DEF Managers
<1> HIDE DEF step
<1>2. moved \in Managers
  BY <1>1 DEF Managers
<1>3. ASSUME NEW u \in Managers, u.count >= u.index PROVE NextClip(u, stop) \in Managers
  <2>1. \A i \in 0..3 : u.list[i].loops \in Nat
    BY ClipTypes DEF Managers
  <2>2. ASSUME NEW i \in 0..3, NEW l \in Nat
        PROVE  /\ Rewind([u EXCEPT !.index = i]) \in Managers
               /\ Rewind([u EXCEPT !.index = i, !.loop = l]) \in Managers
               /\ Rewind([u EXCEPT !.loop = l]) \in Managers
    <3>1. \A v \in Managers : Rewind(v) \in Managers
      BY DEF Managers, Rewind
    <3>2. /\ [u EXCEPT !.index = i] \in Managers
          /\ [u EXCEPT !.index = i, !.loop = l] \in Managers
          /\ [u EXCEPT !.loop = l] \in Managers
      BY DEF Managers
    <3> QED
      BY <3>1, <3>2
  <2>3. u.index \in 0..3 /\ u.count \in 0..4 /\ u.loop \in Nat
    BY DEF Managers
  <2> DEFINE next == u.index + 1
  <2>4. CASE u.loop = 1 /\ next >= u.count
    BY <2>3, <2>4 DEF NextClip, Deeds
  <2>5. CASE u.loop = 1 /\ next < u.count
    <3>1. next \in 0..3
      BY <2>3, <2>5
    <3>2. NextClip(u, stop) = Rewind([u EXCEPT !.index = next, !.loop = u.list[next].loops])
      BY <2>3, <2>5 DEF NextClip
    <3> QED
      BY <2>1, <2>2, <3>1, <3>2
  <2>6. CASE u.loop > 1
    <3>1. NextClip(u, stop) = Rewind([u EXCEPT !.loop = u.loop - 1])
      BY <2>3, <2>6 DEF NextClip
    <3>2. u.loop - 1 \in Nat
      BY <2>3, <2>6
    <3> QED
      BY <2>2, <2>3, <3>1, <3>2
  <2>7. CASE u.loop = 0
    <3> DEFINE i == IF next >= u.count THEN 0 ELSE next
    <3>1. i \in 0..3
      BY <2>3
    <3>2. NextClip(u, stop) = Rewind([u EXCEPT !.index = i])
      BY <2>3, <2>7 DEF NextClip
    <3> QED
      BY <2>2, <3>1, <3>2
  <2> QED
    BY <2>3, <2>4, <2>5, <2>6, <2>7
<1>4. Ticking(m) => moved.count >= moved.index
  BY DEF Ticking, Managers
<1>5. TickWith(m, time, stop) = IF ~Ticking(m) THEN m
                                ELSE IF PastEnd(moved) THEN NextClip(moved, stop) ELSE moved
  BY DEF TickWith, step
<1> HIDE DEF moved
<1> QED
  BY <1>2, <1>3, <1>4, <1>5

(* A seek is the run of its ticks. *)
TickPass(time, stop, n) == [i \in 1..n |-> [t \in Managers |-> TickWith(t, time, stop)]]

LEMMA SeekLoop ==
  ASSUME NEW stop \in Deeds, NEW m \in Managers, NEW time \in Int, NEW n \in Nat
  PROVE  Ran(Seek(m, time, n, stop), n, Managers, m, TickPass(time, stop, n))
<1> DEFINE seq == [i \in 1..n |-> i]
           D(f) == [i \in 0..Len(seq) |->
                       IF i = 0 THEN m
                       ELSE CHOOSE t \in {TickWith(u, time, stop) : u \in {f[i - 1]}} : TRUE]
           g == CHOOSE f : f = D(f)
<1>1. Len(seq) = n
  OBVIOUS
<1>2. TickPass(time, stop, n) \in [1..n -> [Managers -> Managers]]
  BY TickTyped DEF TickPass
<1>3. \A i \in 1..n : \A t \in Managers : TickPass(time, stop, n)[i][t] = TickWith(t, time, stop)
  BY DEF TickPass
<1>4. Seek(m, time, n, stop) = g[n]
  BY <1>1 DEF Seek, Loop
<1> HIDE DEF seq
<1>5. ASSUME NEW f, NEW i \in 1..n PROVE D(f)[i] = TickWith(f[i - 1], time, stop)
  BY <1>1
<1>6. ASSUME NEW f PROVE D(f)[0] = m /\ D(f) = [i \in 0..n |-> D(f)[i]]
  BY <1>1
<1>7. PICK r : Run(r, n, Managers, m, TickPass(time, stop, n))
  <2> HIDE DEF D
  <2> QED
    BY ONLY <1>2, Recursion, m \in Managers, n \in Nat
<1>8. r = D(r)
  <2>1. ASSUME NEW i \in 0..n PROVE r[i] = D(r)[i]
    <3>1. CASE i = 0
      BY <1>6, <1>7, <3>1 DEF Run
    <3>2. CASE i # 0
      <4>1. i \in 1..n /\ i - 1 \in 0..n
        BY <3>2
      <4>2. r[i - 1] \in Managers /\ r[i] = TickPass(time, stop, n)[i][r[i - 1]]
        BY <1>7, <4>1 DEF Run
      <4> QED
        BY <1>3, <1>5, <4>1, <4>2
    <3> QED
      BY <3>1, <3>2
  <2>2. D(r) = [i \in 0..n |-> D(r)[i]]
    BY <1>6
  <2> HIDE DEF D
  <2>3. r = [i \in 0..n |-> r[i]]
    BY <1>7 DEF Run
  <2> QED
    BY <2>1, <2>2, <2>3
<1>9. g = D(g)
  <2> HIDE DEF D
  <2> QED
    BY <1>8
<1>10. /\ g = [i \in 0..n |-> g[i]] /\ g[0] = m
       /\ \A i \in 1..n : g[i] = TickWith(g[i - 1], time, stop)
  <2>1. D(g)[0] = m /\ D(g) = [i \in 0..n |-> D(g)[i]]
    BY <1>6
  <2> HIDE DEF D, g
  <2> QED
    BY <1>5, <1>9, <2>1
<1> HIDE DEF g, D
<1>11. Run(g, n, Managers, m, TickPass(time, stop, n))
  <2>1. \A i \in 1..n : g[i - 1] \in Managers => g[i] = TickPass(time, stop, n)[i][g[i - 1]]
    BY <1>3, <1>10
  <2> QED
    BY ONLY <1>2, <1>10, <2>1, IsRun, m \in Managers, n \in Nat
<1> QED
  BY <1>4, <1>11 DEF Ran

LEMMA SetFrameTyped ==
  ASSUME NEW stop \in Deeds, NEW m \in Managers, NEW f \in Int
  PROVE  SetFrameWith(m, f, stop) \in Managers /\ SetFrameWith(m, f, stop).frame = f
<1> DEFINE n == Chunks(m, f - m.frame)
           time == Quotient(f - m.frame, n)
           t == Seek(m, time, n, stop)
<1>1. n \in Nat \ {0} /\ f - m.frame \in Int
  BY ChunksTyped DEF Managers
<1> HIDE DEF n
<1>2. time \in Int
  BY <1>1, QuotientTyped
<1> HIDE DEF time
<1>3. t \in Managers
  BY <1>1, <1>2, SeekLoop, Along DEF Ran, Run
<1>4. SetFrameWith(m, f, stop) = [t EXCEPT !.frame = f]
  BY DEF SetFrameWith, Arrive, n, time
<1> QED
  BY <1>3, <1>4 DEF Managers

(***************************************************************************)
(* Stop.                                                                   *)
(***************************************************************************)
RanAway(m) == [Begin(m) EXCEPT !.runaway = TRUE]
Halt(m, stop) == [SetFrameWith(Begin(m), 0, stop) EXCEPT !.loop = m.list[0].loops]

LEMMA BeginTyped ==
  ASSUME NEW m \in Managers
  PROVE  /\ Begin(m) \in Managers /\ Begin(m).index = 0 /\ Begin(m).paused = TRUE
         /\ Begin(m).list = m.list /\ Begin(m).count = m.count /\ Begin(m).speed = m.speed
         /\ Begin(m).loop = m.loop /\ Begin(m).frame = m.frame /\ Begin(m).runaway = m.runaway
<1>1. /\ Begin(m).index = 0 /\ Begin(m).paused = TRUE
      /\ Begin(m).list = m.list /\ Begin(m).count = m.count /\ Begin(m).speed = m.speed
      /\ Begin(m).loop = m.loop /\ Begin(m).frame = m.frame /\ Begin(m).runaway = m.runaway
  BY DEF Begin, Managers
<1>2. Begin(m) \in Managers
  <2>1. Begin(m) = [paused |-> TRUE, list |-> m.list, frame |-> m.frame, count |-> m.count,
                    index |-> 0, loop |-> m.loop, speed |-> m.speed, runaway |-> m.runaway]
    <3> DEFINE D == {"paused", "list", "frame", "count", "index", "loop", "speed", "runaway"}
    <3>1. m = [x \in D |-> m[x]] /\ DOMAIN m = D
      BY DEF Managers
    <3>2. Begin(m) = [x \in D |-> Begin(m)[x]]
      BY <3>1 DEF Begin
    <3> QED
      BY <1>1, <3>2
  <2>2. /\ m.list \in [0..3 -> Clips \cup {Garbage}] /\ m.frame \in Int /\ m.count \in 0..4
        /\ m.loop \in Nat /\ m.speed \in Nat /\ m.runaway \in BOOLEAN
    BY DEF Managers
  <2> QED
    BY <2>1, <2>2 DEF Managers
<1> QED
  BY <1>1, <1>2

LEMMA RanAwayTyped ==
  ASSUME NEW m \in Managers
  PROVE  /\ RanAway(m) \in Managers /\ RanAway(m).index = 0 /\ RanAway(m).paused = TRUE
         /\ RanAway(m).list = m.list /\ RanAway(m).count = m.count /\ RanAway(m).speed = m.speed
         /\ RanAway(m).loop = m.loop
<1> DEFINE b == Begin(m)
<1>1. /\ b \in Managers /\ b.index = 0 /\ b.paused = TRUE /\ b.list = m.list /\ b.count = m.count
      /\ b.speed = m.speed /\ b.loop = m.loop
  BY BeginTyped
<1>2. RanAway(m) = [b EXCEPT !.runaway = TRUE]
  BY DEF RanAway
<1> HIDE DEF b
<1> QED
  BY <1>1, <1>2 DEF Managers

LEMMA HaltTyped ==
  ASSUME NEW stop \in Deeds, NEW m \in Managers
  PROVE  LET t == SetFrameWith(Begin(m), 0, stop)
         IN  /\ t \in Managers /\ t.frame = 0 /\ Halt(m, stop) \in Managers
             /\ Halt(m, stop) = [t EXCEPT !.loop = m.list[0].loops]
             /\ m.list[0].loops \in Nat
<1> DEFINE t == SetFrameWith(Begin(m), 0, stop)
<1>1. t \in Managers /\ t.frame = 0
  <2>1. Begin(m) \in Managers
    BY BeginTyped
  <2> QED
    BY <2>1, SetFrameTyped
<1>2. m.list[0].loops \in Nat
  <2>1. \A i \in 0..3 : m.list[i].loops \in Nat
    BY ClipTypes DEF Managers
  <2> QED
    BY <2>1
<1>3. Halt(m, stop) = [t EXCEPT !.loop = m.list[0].loops]
  BY DEF Halt
<1> HIDE DEF t
<1>4. Halt(m, stop) \in Managers
  BY <1>1, <1>2, <1>3 DEF Managers
<1> QED
  BY <1>1, <1>2, <1>3, <1>4 DEF t

HaltAll(stop) == [m \in Managers |-> Halt(m, stop)]
HaltPass == [i \in 1..MaxNesting |-> [stop \in Deeds |-> HaltAll(stop)]]
NoCallLeft == [m \in Managers |-> RanAway(m)]

LEMMA StoppingRun == Run(Stopping, MaxNesting, Deeds, NoCallLeft, HaltPass)
<1> DEFINE n == MaxNesting
           D(f) == [left \in 0..MaxNesting |->
                      [m \in Managers |->
                         IF left = 0 THEN [Begin(m) EXCEPT !.runaway = TRUE]
                         ELSE [SetFrameWith(Begin(m), 0, f[left - 1]) EXCEPT !.loop = m.list[0].loops]]]
<1>1. n \in Nat
  BY PlaybackAssumption
<1>2. NoCallLeft \in Deeds
  BY RanAwayTyped DEF NoCallLeft, Deeds
<1>3. HaltPass \in [1..n -> [Deeds -> Deeds]]
  <2>1. \A stop \in Deeds : HaltAll(stop) \in Deeds
    BY HaltTyped DEF Deeds, HaltAll
  <2> QED
    BY <2>1 DEF HaltPass
<1>4. \A i \in 1..n : \A stop \in Deeds : HaltPass[i][stop] = HaltAll(stop)
  BY DEF HaltPass
<1>5. Stopping = CHOOSE f : f = D(f)
  BY DEF Stopping
<1>6. ASSUME NEW f, NEW i \in 1..n PROVE D(f)[i] = HaltAll(f[i - 1])
  <2>1. i \in 0..MaxNesting /\ i # 0
    BY <1>1
  <2>2. D(f)[i] = [m \in Managers |->
                     IF i = 0 THEN [Begin(m) EXCEPT !.runaway = TRUE]
                     ELSE [SetFrameWith(Begin(m), 0, f[i - 1]) EXCEPT !.loop = m.list[0].loops]]
    BY <2>1
  <2>3. HaltAll(f[i - 1]) = [m \in Managers |->
                     [SetFrameWith(Begin(m), 0, f[i - 1]) EXCEPT !.loop = m.list[0].loops]]
    BY DEF HaltAll, Halt
  <2> QED
    BY <2>1, <2>2, <2>3
<1>7. ASSUME NEW f PROVE D(f)[0] = NoCallLeft /\ D(f) = [i \in 0..n |-> D(f)[i]]
  <2>1. D(f)[0] = NoCallLeft
    BY <1>1 DEF NoCallLeft, RanAway
  <2> QED
    BY <2>1
<1>8. PICK r : Run(r, n, Deeds, NoCallLeft, HaltPass)
  <2> HIDE DEF D, n
  <2> QED
    BY ONLY <1>1, <1>2, <1>3, Recursion
<1>9. r = D(r)
  <2>1. ASSUME NEW i \in 0..n PROVE r[i] = D(r)[i]
    <3>1. CASE i = 0
      BY <1>7, <1>8, <3>1 DEF Run
    <3>2. CASE i # 0
      <4>1. i \in 1..n /\ i - 1 \in 0..n
        BY <1>1, <3>2
      <4>2. r[i - 1] \in Deeds /\ r[i] = HaltPass[i][r[i - 1]]
        BY <1>8, <4>1 DEF Run
      <4> HIDE DEF D
      <4> QED
        BY <1>4, <1>6, <4>1, <4>2
    <3> QED
      BY <3>1, <3>2
  <2>2. D(r) = [i \in 0..n |-> D(r)[i]]
    BY <1>7
  <2> HIDE DEF D
  <2>3. r = [i \in 0..n |-> r[i]]
    BY <1>8 DEF Run
  <2> QED
    BY <2>1, <2>2, <2>3
<1>10. Stopping = D(Stopping)
  <2> HIDE DEF D
  <2> QED
    BY <1>5, <1>9
<1>11. /\ Stopping = [i \in 0..n |-> Stopping[i]] /\ Stopping[0] = NoCallLeft
       /\ \A i \in 1..n : Stopping[i] = HaltAll(Stopping[i - 1])
  <2>1. D(Stopping)[0] = NoCallLeft /\ D(Stopping) = [i \in 0..n |-> D(Stopping)[i]]
    BY <1>7
  <2> HIDE DEF D
  <2> QED
    BY <1>6, <1>10, <2>1
<1>12. \A i \in 1..n : Stopping[i - 1] \in Deeds => Stopping[i] = HaltPass[i][Stopping[i - 1]]
  BY <1>4, <1>11
<1> HIDE DEF n
<1>13. Run(Stopping, n, Deeds, NoCallLeft, HaltPass)
  BY ONLY <1>1, <1>2, <1>3, <1>11, <1>12, IsRun
<1> QED
  BY <1>13 DEF n

(* What holds of a Stop that runs away and is kept by one more call holds of
   Stop. *)
LEMMA StopHas ==
  ASSUME NEW S \in SUBSET Deeds, NoCallLeft \in S,
         \A stop \in S : HaltAll(stop) \in S
  PROVE  \A left \in 0..MaxNesting : Stopping[left] \in S
<1>1. MaxNesting \in Nat
  BY PlaybackAssumption
<1> DEFINE P == {i \in 0..MaxNesting : Stopping[i] \in S}
<1>2. 0 \in P
  BY <1>1, StoppingRun DEF Run
<1>3. ASSUME NEW i \in 1..MaxNesting, i - 1 \in P PROVE i \in P
  <2>1. Stopping[i] = HaltPass[i][Stopping[i - 1]] /\ Stopping[i - 1] \in S
    BY <1>3, StoppingRun DEF Run
  <2>2. Stopping[i] = HaltAll(Stopping[i - 1])
    BY <2>1 DEF HaltPass
  <2> QED
    BY <2>1, <2>2
<1>4. \A i \in 1..MaxNesting : i - 1 \in P => i \in P
  BY <1>3
<1>5. \A i \in 0..MaxNesting : i \in P
  <2> HIDE DEF P
  <2> QED
    BY <1>1, <1>2, <1>4, Passes
<1> QED
  BY <1>5

(***************************************************************************)
(* What the calls keep: the slots that are in use were filled, what plays  *)
(* is one of them, and a single endless clip stays one.                    *)
(***************************************************************************)
Filled(m) == \A i \in 0..3 : i = 0 \/ i < m.count \/ i = m.index => m.list[i] # Garbage
Counted(m) == \E n \in LoopChoices : m.loop \in 0..n
Fit == {m \in Managers : Filled(m) /\ Counted(m)}
Single(m) == m.count = 1 /\ m.index = 0 /\ m.loop = 0
Alike(m, t) == t.list = m.list /\ t.count = m.count /\ t.speed = m.speed
Follows(m, t) == /\ t \in Fit /\ Alike(m, t)
                 /\ m.paused => t.paused
                 /\ Single(m) => Single(t)

LEMMA FollowsOn == \A m, t, u : Follows(m, t) /\ Follows(t, u) => Follows(m, u)
  BY DEF Follows, Alike

LEMMA FollowsSelf == \A m \in Fit : Follows(m, m)
  BY DEF Follows, Alike

(* What the slots in use tell of themselves. *)
LEMMA SlotTypes ==
  ASSUME NEW m \in Fit
  PROVE  /\ m.list[0] # Garbage /\ m.list[0].loops \in LoopChoices
         /\ \A i \in 0..3 : i < m.count \/ i = m.index => m.list[i] \in Clips /\ m.list[i].loops \in LoopChoices
         /\ LoopChoices \subseteq Nat
<1>1. \A i \in 0..3 : m.list[i] \in Clips \cup {Garbage}
  BY DEF Fit, Managers
<1>2. \A i \in 0..3 : i = 0 \/ i < m.count \/ i = m.index => m.list[i] \in Clips
  BY <1>1 DEF Fit, Filled
<1>3. \A i \in 0..3 : i = 0 \/ i < m.count \/ i = m.index => m.list[i].loops \in LoopChoices
  BY <1>2, ClipTypes
<1> QED
  BY <1>2, <1>3, ClipTypes

(* A change of slot, loops and time that stays with the slots in use. *)
LEMMA Moved ==
  ASSUME NEW m \in Fit, NEW t \in Managers, Alike(m, t), Counted(t), t.paused = m.paused,
         t.index = 0 \/ t.index < m.count \/ t.index = m.index
  PROVE  t \in Fit
  BY DEF Fit, Alike, Filled, Managers

Stops == {stop \in Deeds : \A m \in Fit : /\ stop[m] \in Fit /\ Alike(m, stop[m]) /\ stop[m].paused
                                          /\ stop[m].index \in 0..3}

LEMMA TickFollows ==
  ASSUME NEW stop \in Stops, NEW m \in Fit, NEW time \in Int
  PROVE  Follows(m, TickWith(m, time, stop))
<1> DEFINE step == Quotient(time * m.speed, 10)
           moved == [m EXCEPT !.frame = m.frame + step]
<1>0. m \in Managers
  BY DEF Fit
<1>1. step \in Int
  BY <1>0, QuotientTyped DEF Managers
<1> HIDE DEF step
<1>2. /\ moved \in Managers /\ Alike(m, moved) /\ moved.paused = m.paused /\ moved.index = m.index
      /\ moved.loop = m.loop
  BY <1>0, <1>1 DEF Managers, Alike
<1>3. moved \in Fit
  BY <1>2, Moved DEF Fit, Counted
<1>4. TickWith(m, time, stop) = IF ~Ticking(m) THEN m
                                ELSE IF PastEnd(moved) THEN NextClip(moved, stop) ELSE moved
  BY DEF TickWith, step
<1> HIDE DEF moved
<1>5. Follows(m, moved)
  BY <1>2, <1>3 DEF Follows, Single, Alike
<1>6. ASSUME NEW u \in Fit PROVE Follows(u, NextClip(u, stop))
  <2> DEFINE next == u.index + 1
  <2>0. /\ u \in Managers /\ u.index \in 0..3 /\ u.count \in 0..4 /\ u.loop \in Nat
    BY DEF Fit, Managers
  <2>1. ASSUME NEW i \in 0..3, NEW l \in Nat
        PROVE  LET t == Rewind([u EXCEPT !.index = i, !.loop = l])
               IN  t \in Managers /\ Alike(u, t) /\ t.paused = u.paused /\ t.index = i /\ t.loop = l
    <3> DEFINE v == [u EXCEPT !.index = i, !.loop = l]
    <3>1. v \in Managers /\ Alike(u, v) /\ v.paused = u.paused /\ v.index = i /\ v.loop = l
      BY <2>0 DEF Managers, Alike
    <3> HIDE DEF v
    <3>2. Rewind(v) \in Managers /\ Alike(v, Rewind(v)) /\ Rewind(v).paused = v.paused
          /\ Rewind(v).index = v.index /\ Rewind(v).loop = v.loop
      BY <3>1 DEF Rewind, Managers, Alike
    <3> QED
      BY <3>1, <3>2 DEF v, Alike
  <2>2. CASE u.loop = 1 /\ next >= u.count
    <3>1. NextClip(u, stop) = stop[u]
      BY <2>0, <2>2 DEF NextClip
    <3> QED
      BY <2>2, <3>1 DEF Stops, Follows, Single
  <2>3. CASE u.loop = 1 /\ next < u.count
    <3> DEFINE l == u.list[next].loops
               t == Rewind([u EXCEPT !.index = next, !.loop = l])
    <3>1. next \in 0..3 /\ l \in LoopChoices /\ l \in Nat
      BY <2>0, <2>3, SlotTypes
    <3>2. NextClip(u, stop) = t
      BY <2>0, <2>3 DEF NextClip
    <3> HIDE DEF l
    <3>3. t \in Managers /\ Alike(u, t) /\ t.paused = u.paused /\ t.index = next /\ t.loop = l
      BY <2>1, <3>1
    <3> HIDE DEF t
    <3>4. t \in Fit
      BY <2>3, <3>1, <3>3, Moved DEF Counted
    <3> QED
      BY <2>3, <3>2, <3>3, <3>4 DEF Follows, Single
  <2>4. CASE u.loop > 1
    <3> DEFINE l == u.loop - 1
               t == Rewind([u EXCEPT !.index = u.index, !.loop = l])
    <3>1. l \in Nat
      BY <2>0, <2>4
    <3>2. NextClip(u, stop) = Rewind([u EXCEPT !.loop = l])
      BY <2>0, <2>4 DEF NextClip
    <3>3. [u EXCEPT !.loop = l] = [u EXCEPT !.index = u.index, !.loop = l]
      BY <2>0 DEF Managers
    <3>4. t \in Managers /\ Alike(u, t) /\ t.paused = u.paused /\ t.index = u.index /\ t.loop = l
      BY <2>0, <2>1, <3>1
    <3>5. NextClip(u, stop) = t
      BY <3>2, <3>3
    <3> HIDE DEF t
    <3>6. Counted(t)
      BY <2>0, <3>1, <3>4, SlotTypes DEF Counted, Fit
    <3>7. t \in Fit
      BY <3>4, <3>6, Moved
    <3> QED
      BY <2>4, <3>4, <3>5, <3>7 DEF Follows, Single
  <2>5. CASE u.loop = 0
    <3> DEFINE i == IF next >= u.count THEN 0 ELSE next
               t == Rewind([u EXCEPT !.index = i, !.loop = u.loop])
    <3>1. i \in 0..3
      BY <2>0
    <3>2. NextClip(u, stop) = Rewind([u EXCEPT !.index = i])
      BY <2>0, <2>5 DEF NextClip
    <3>a. i = 0 \/ i < u.count
      BY <2>0
    <3>b. Single(u) => i = 0
      BY DEF Single
    <3> HIDE DEF i
    <3>3. [u EXCEPT !.index = i] = [u EXCEPT !.index = i, !.loop = u.loop]
      BY <2>0 DEF Managers
    <3>4. t \in Managers /\ Alike(u, t) /\ t.paused = u.paused /\ t.index = i /\ t.loop = u.loop
      BY <2>0, <2>1, <3>1
    <3>5. NextClip(u, stop) = t
      BY <3>2, <3>3
    <3> HIDE DEF t
    <3>6. t \in Fit
      BY <3>4, <3>a, Moved DEF Counted, Fit
    <3> QED
      BY <3>4, <3>5, <3>6, <3>b DEF Follows, Single, Alike
  <2> QED
    BY <2>0, <2>2, <2>3, <2>4, <2>5
<1> QED
  BY <1>3, <1>4, <1>5, <1>6, FollowsOn, FollowsSelf

LEMMA SeekFollows ==
  ASSUME NEW stop \in Stops, NEW m \in Fit, NEW time \in Int, NEW n \in Nat
  PROVE  Follows(m, Seek(m, time, n, stop))
<1> DEFINE P == [i \in 0..n |-> {t \in Managers : Follows(m, t)}]
           F == TickPass(time, stop, n)
           x == Seek(m, time, n, stop)
<1>1. stop \in Deeds /\ m \in Managers
  BY DEF Stops, Fit
<1>2. Ran(x, n, Managers, m, F)
  BY <1>1, SeekLoop
<1>3. m \in P[0]
  BY <1>1, FollowsSelf
<1>4. ASSUME NEW i \in 1..n, NEW t \in Managers, t \in P[i - 1] PROVE F[i][t] \in P[i]
  <2>1. Follows(m, t) /\ t \in Fit
    BY <1>4 DEF Follows
  <2>2. F[i][t] = TickWith(t, time, stop)
    BY DEF TickPass
  <2>3. Follows(t, F[i][t]) /\ F[i][t] \in Managers
    BY <2>1, <2>2, TickFollows DEF Follows, Fit
  <2>4. Follows(m, F[i][t])
    BY <2>1, <2>3, FollowsOn
  <2> QED
    BY <2>3, <2>4
<1> HIDE DEF P, F, x
<1>5. x \in P[n]
  BY ONLY <1>2, <1>3, <1>4, Along, n \in Nat
<1> QED
  BY <1>5 DEF P, x

LEMMA SetFrameFollows ==
  ASSUME NEW stop \in Stops, NEW m \in Fit, NEW f \in Int
  PROVE  Follows(m, SetFrameWith(m, f, stop)) /\ SetFrameWith(m, f, stop).frame = f
<1> DEFINE n == Chunks(m, f - m.frame)
           time == Quotient(f - m.frame, n)
           t == Seek(m, time, n, stop)
           u == SetFrameWith(m, f, stop)
<1>0. stop \in Deeds /\ m \in Managers
  BY DEF Stops, Fit
<1>1. n \in Nat \ {0} /\ f - m.frame \in Int
  BY <1>0, ChunksTyped DEF Managers
<1> HIDE DEF n
<1>2. time \in Int
  BY <1>1, QuotientTyped
<1> HIDE DEF time
<1>3. Follows(m, t)
  BY <1>1, <1>2, SeekFollows
<1>4. u = [t EXCEPT !.frame = f]
  BY DEF SetFrameWith, Arrive, n, time
<1>5. u \in Managers /\ u.frame = f
  BY <1>0, SetFrameTyped
<1> HIDE DEF t, u
<1>6. t \in Managers /\ t \in Fit
  BY <1>3 DEF Follows, Fit
<1>7. Alike(t, u) /\ u.paused = t.paused /\ u.index = t.index /\ u.loop = t.loop
  BY <1>4, <1>6 DEF Alike, Managers
<1>8. u \in Fit
  BY <1>5, <1>6, <1>7, Moved DEF Counted, Fit
<1>9. Follows(t, u)
  BY <1>7, <1>8 DEF Follows, Single, Alike
<1> QED
  BY <1>3, <1>5, <1>9, FollowsOn DEF u

LEMMA HaltFits == \A stop \in Stops : HaltAll(stop) \in Stops
<1> SUFFICES ASSUME NEW stop \in Stops PROVE HaltAll(stop) \in Stops
  OBVIOUS
<1>0. stop \in Deeds
  BY DEF Stops
<1>1. HaltAll(stop) \in Deeds
  BY <1>0, HaltTyped DEF Deeds, HaltAll
<1>2. ASSUME NEW m \in Fit
      PROVE  LET t == HaltAll(stop)[m] IN t \in Fit /\ Alike(m, t) /\ t.paused /\ t.index \in 0..3
  <2> DEFINE b == Begin(m)
             u == SetFrameWith(b, 0, stop)
             t == Halt(m, stop)
  <2>1. m \in Managers
    BY DEF Fit
  <2>2. HaltAll(stop)[m] = t
    BY <2>1 DEF HaltAll
  <2>3. b \in Managers /\ b.index = 0 /\ b.paused = TRUE /\ Alike(m, b) /\ b.loop = m.loop
    BY <2>1, BeginTyped DEF Alike
  <2>4. b \in Fit
    BY <2>3 DEF Fit, Filled, Counted, Alike
  <2> HIDE DEF b
  <2>5. Follows(b, u)
    BY <2>4, SetFrameFollows
  <2>6. t = [u EXCEPT !.loop = m.list[0].loops] /\ t \in Managers
    BY <1>0, <2>1, HaltTyped DEF b
  <2> HIDE DEF u, t
  <2>7. u \in Managers /\ u \in Fit /\ u.paused /\ Alike(m, u)
    BY <2>3, <2>5 DEF Follows, Fit, Alike
  <2>8. Alike(u, t) /\ t.paused = u.paused /\ t.index = u.index /\ t.loop = m.list[0].loops
    BY <2>6, <2>7 DEF Managers, Alike
  <2>9. Counted(t)
    BY <2>8, SlotTypes DEF Counted
  <2>10. t \in Fit
    BY <2>6, <2>7, <2>8, <2>9, Moved
  <2> QED
    BY <2>2, <2>6, <2>7, <2>8, <2>10 DEF Alike, Managers
<1> QED
  BY <1>1, <1>2 DEF Stops

LEMMA StopFits == \A left \in 0..MaxNesting : Stopping[left] \in Stops
<1>1. NoCallLeft \in Stops
  <2>1. NoCallLeft \in Deeds
    BY StoppingRun, PlaybackAssumption DEF Run
  <2>2. ASSUME NEW m \in Fit
        PROVE  NoCallLeft[m] \in Fit /\ Alike(m, NoCallLeft[m]) /\ NoCallLeft[m].paused
               /\ NoCallLeft[m].index \in 0..3
    <3>1. m \in Managers
      BY DEF Fit
    <3>2. NoCallLeft[m] = RanAway(m)
      BY <3>1 DEF NoCallLeft
    <3>3. /\ RanAway(m) \in Managers /\ RanAway(m).index = 0 /\ RanAway(m).paused = TRUE
          /\ RanAway(m).list = m.list /\ RanAway(m).count = m.count /\ RanAway(m).speed = m.speed
          /\ RanAway(m).loop = m.loop
      BY <3>1, RanAwayTyped
    <3> QED
      BY <3>2, <3>3 DEF Fit, Filled, Counted, Alike
  <2> QED
    BY <2>1, <2>2 DEF Stops
<1>2. \A stop \in Stops : HaltAll(stop) \in Stops
  BY HaltFits
<1>3. Stops \in SUBSET Deeds
  BY DEF Stops
<1> QED
  BY <1>1, <1>2, <1>3, StopHas

(***************************************************************************)
(* The controls.                                                           *)
(***************************************************************************)
Ready == {m \in Fit : m.speed \in Speeds \cup {10}}

LEMMA ReadyTyped == \A m \in Ready : m \in Fit /\ m \in Managers
  BY DEF Ready, Fit

LEMMA FollowsReady == \A m \in Ready : \A t : Follows(m, t) => t \in Ready
  BY DEF Ready, Follows, Alike

LEMMA Halted ==
  ASSUME NEW m \in Ready
  PROVE  Stop(m) \in Ready /\ Stop(m).paused /\ Alike(m, Stop(m))
<1>1. Stopping[MaxNesting] \in Stops
  BY StopFits, PlaybackAssumption
<1> QED
  BY <1>1 DEF Stop, Stops, Ready, Alike

LEMMA Ticked == \A m \in Fit, time \in Int : Follows(m, Tick(m, time))
  BY StopFits, TickFollows, PlaybackAssumption DEF Tick

LEMMA FrameSet == \A m \in Fit, f \in Int : Follows(m, SetFrame(m, f)) /\ SetFrame(m, f).frame = f
  BY StopFits, SetFrameFollows, PlaybackAssumption DEF SetFrame

LEMMA Played ==
  ASSUME NEW m \in Ready, NEW b \in BOOLEAN
  PROVE  LET t == [m EXCEPT !.paused = b]
         IN  /\ t \in Ready /\ t.paused = b /\ t.frame = m.frame /\ t.count = m.count
             /\ t.index = m.index /\ t.loop = m.loop /\ t.list = m.list /\ t.speed = m.speed
<1> DEFINE t == [m EXCEPT !.paused = b]
<1>0. m \in Managers /\ m \in Fit
  BY ReadyTyped
<1>1. /\ t \in Managers /\ t.paused = b /\ t.frame = m.frame /\ t.count = m.count
      /\ t.index = m.index /\ t.loop = m.loop /\ t.list = m.list /\ t.speed = m.speed
  BY <1>0 DEF Managers
<1> HIDE DEF t
<1>2. t \in Ready
  BY <1>1 DEF Ready, Fit, Filled, Counted
<1> QED
  BY <1>1, <1>2 DEF t

LEMMA Pausing ==
  ASSUME NEW m \in Managers
  PROVE  Pause(m, TRUE) = [m EXCEPT !.paused = TRUE] /\ Pause(m, FALSE) = [m EXCEPT !.paused = ~m.paused]
<1>1. (~m.paused \/ TRUE) = TRUE
  OBVIOUS
<1>2. (~m.paused \/ FALSE) = ~m.paused
  OBVIOUS
<1> QED
  BY <1>1, <1>2 DEF Pause

(***************************************************************************)
(* Seeks that keep the place.  At no more than normal speed the ticks of a *)
(* seek move the head by no more than is left to go: between two times of  *)
(* one clip it does not leave the clip.                                    *)
(***************************************************************************)
Held(m, t) == t.list = m.list /\ t.index = m.index /\ t.loop = m.loop /\ t.speed = m.speed
Inside(m, f) == 0 <= f /\ f < LengthOf(m)

LEMMA HeldLength == \A m, t : Held(m, t) => LengthOf(t) = LengthOf(m) /\ Place(t) = Place(m)
  BY DEF Held, LengthOf, Place

LEMMA HeldOn == \A m, t, u : Held(m, t) /\ Held(t, u) => Held(m, u)
  BY DEF Held

(* Truncation and a speed of at most 10 tenths shorten a step. *)
LEMMA Slowed ==
  ASSUME NEW time \in Int, NEW s \in Nat, s <= 10
  PROVE  LET q == Quotient(time * s, 10)
         IN  /\ q \in Int
             /\ time >= 0 => 0 <= q /\ q <= time
             /\ time <= 0 => time <= q /\ q <= 0
<1> DEFINE a == IF time >= 0 THEN time ELSE -time
<1>1. a \in Nat /\ time \in {a, -a} /\ (time >= 0 => time = a) /\ (time <= 0 => time = -a)
  OBVIOUS
<1> HIDE DEF a
<1>2. a * s \in Nat /\ a * s <= 10 * a
  <2>1. a * (10 - s) \in Nat
    BY <1>1
  <2>2. a * (10 - s) = 10 * a - a * s /\ a * s \in Nat
    BY <1>1
  <2> QED
    BY <1>1, <2>1, <2>2
<1> DEFINE b == a * s
<1>3. (a * s) \div 10 \in Nat /\ (a * s) \div 10 <= a
  <2>1. b \in Nat /\ b <= 10 * a
    BY <1>2
  <2> HIDE DEF b
  <2>2. b \div 10 \in Nat /\ (b \div 10) * 10 <= b
    BY <2>1, Division
  <2>3. b \div 10 <= a
    BY <1>1, <2>1, <2>2
  <2> QED
    BY <2>2, <2>3 DEF b
<1>4. CASE time >= 0
  <2>1. time = a /\ Quotient(time * s, 10) = (a * s) \div 10
    BY <1>1, <1>2, <1>4 DEF Quotient
  <2> QED
    BY <1>1, <1>3, <2>1
<1>5. CASE ~(time >= 0)
  <2>1. time = -a /\ a > 0 /\ time * s = -(a * s)
    BY <1>1, <1>5
  <2>2. Quotient(-b, 10) = -(b \div 10)
    <3>1. b \in Nat
      BY <1>2
    <3> HIDE DEF b
    <3>2. b = 0 => 0 \div 10 = 0
      BY Division
    <3> QED
      BY <3>1, <3>2 DEF Quotient
  <2> QED
    BY <1>1, <1>3, <2>1, <2>2
<1> QED
  BY <1>4, <1>5

(* A tick that does not reach the end of the clip moves the head or nothing. *)
LEMMA TickHeld ==
  ASSUME NEW stop \in Deeds, NEW m \in Managers, NEW time \in Int,
         NEW p \in Int, p = m.frame + Quotient(time * m.speed, 10), Inside(m, p)
  PROVE  LET t == TickWith(m, time, stop)
         IN  t \in Managers /\ Held(m, t) /\ t.frame \in {m.frame, p}
<1> DEFINE u == [m EXCEPT !.frame = p]
<1>1. /\ u.frame = p /\ u.list = m.list /\ u.index = m.index /\ u.loop = m.loop /\ u.speed = m.speed
  BY DEF Managers
<1>2. TickWith(m, time, stop) = IF ~Ticking(m) THEN m ELSE IF PastEnd(u) THEN NextClip(u, stop) ELSE u
  <2>1. m.frame + Quotient(time * m.speed, 10) = p
    OBVIOUS
  <2> QED
    BY <2>1 DEF TickWith
<1> HIDE DEF u
<1>3. Held(m, u) /\ Held(m, m)
  BY <1>1 DEF Held
<1>4. ~PastEnd(u)
  <2>1. LengthOf(u) = LengthOf(m) /\ LengthOf(m) \in Nat
    BY <1>3, HeldLength, LengthTyped
  <2> QED
    BY <1>1, <2>1 DEF PastEnd, Inside
<1>5. TickWith(m, time, stop) \in {m, u}
  BY <1>2, <1>4
<1> QED
  BY <1>1, <1>3, <1>5, TickTyped

LEMMA SeekHeld ==
  ASSUME NEW stop \in Deeds, NEW m \in Managers, m.speed <= 10, NEW f \in Int,
         Inside(m, m.frame), Inside(m, f), NEW time \in Int, NEW n \in Nat,
         IF f >= m.frame THEN 0 <= time /\ n * time <= f - m.frame
                         ELSE time <= 0 /\ f - m.frame <= n * time
  PROVE  Seek(m, time, n, stop) \in Managers /\ Held(m, Seek(m, time, n, stop))
<1> DEFINE x == Seek(m, time, n, stop)
           F == TickPass(time, stop, n)
           On(i) == {t \in Managers : Held(m, t) /\ t.frame \in Int /\
                       IF f >= m.frame THEN m.frame <= t.frame /\ t.frame <= m.frame + i * time
                                       ELSE m.frame + i * time <= t.frame /\ t.frame <= m.frame}
           P == [i \in 0..n |-> On(i)]
<1>0. m.frame \in Int /\ m.speed \in Nat /\ LengthOf(m) \in Nat
  BY LengthTyped DEF Managers
<1>1. m \in P[0]
  <2>1. 0 * time = 0
    OBVIOUS
  <2> QED
    BY <1>0, <2>1 DEF Held
<1>2. ASSUME NEW i \in 1..n, NEW t \in Managers, t \in P[i - 1] PROVE F[i][t] \in P[i]
  <2> DEFINE p == t.frame + Quotient(time * t.speed, 10)
             u == TickWith(t, time, stop)
             before == (i - 1) * time
             now == i * time
             all == n * time
  <2>1. t \in On(i - 1)
    BY <1>2
  <2>2. Held(m, t) /\ t.frame \in Int /\ t.speed = m.speed /\ LengthOf(t) = LengthOf(m)
    BY <2>1, HeldLength DEF Held
  <2>3. before \in Int /\ now = before + time /\ now \in Int /\ all \in Int
    OBVIOUS
  <2>4. (time >= 0 => now <= all) /\ (time <= 0 => all <= now)
    <3> DEFINE rest == (n - i) * time
    <3>1. rest = all - now /\ (time >= 0 => rest >= 0) /\ (time <= 0 => rest <= 0)
      OBVIOUS
    <3> HIDE DEF rest, all, now, before
    <3>2. rest \in Int
      BY <2>3, <3>1
    <3> QED
      BY <2>3, <3>1, <3>2
  <2>5. IF f >= m.frame THEN 0 <= time /\ all <= f - m.frame /\ m.frame <= t.frame /\ t.frame <= m.frame + before
                        ELSE time <= 0 /\ f - m.frame <= all /\ m.frame + before <= t.frame /\ t.frame <= m.frame
    BY <2>1
  <2> DEFINE q == Quotient(time * t.speed, 10)
  <2>6. /\ q \in Int
        /\ time >= 0 => 0 <= q /\ q <= time
        /\ time <= 0 => time <= q /\ q <= 0
    BY <1>0, <2>2, Slowed
  <2>7. p \in Int /\ p = t.frame + q
    BY <2>2, <2>6
  <2> HIDE DEF q, p, before, now, all
  <2>8. IF f >= m.frame THEN m.frame <= p /\ p <= m.frame + now /\ p <= f /\ t.frame <= m.frame + now
                        ELSE m.frame + now <= p /\ p <= m.frame /\ f <= p /\ m.frame + now <= t.frame
    BY <1>0, <2>2, <2>3, <2>4, <2>5, <2>6, <2>7
  <2>9. Inside(t, p)
    BY <1>0, <2>2, <2>7, <2>8 DEF Inside
  <2>10. u \in Managers /\ Held(t, u) /\ u.frame \in {t.frame, p}
    BY <2>7, <2>9, TickHeld DEF p
  <2> HIDE DEF u
  <2>11. Held(m, u) /\ u.frame \in Int
    BY <2>2, <2>7, <2>10, HeldOn
  <2>12. IF f >= m.frame THEN m.frame <= u.frame /\ u.frame <= m.frame + now
                         ELSE m.frame + now <= u.frame /\ u.frame <= m.frame
    BY <2>5, <2>8, <2>10
  <2>13. u \in On(i)
    BY <2>10, <2>11, <2>12 DEF now
  <2>14. F[i][t] = u
    BY DEF TickPass, u
  <2> HIDE DEF On, F
  <2> QED
    BY <2>13, <2>14
<1>3. Ran(x, n, Managers, m, F)
  BY SeekLoop
<1> HIDE DEF P, F, x
<1>4. x \in P[n]
  BY ONLY <1>1, <1>2, <1>3, Along, n \in Nat
<1> QED
  BY <1>4 DEF P, x

LEMMA SetHeld ==
  ASSUME NEW stop \in Deeds, NEW m \in Managers, m.speed <= 10, NEW f \in Int,
         Inside(m, m.frame), Inside(m, f)
  PROVE  Held(m, SetFrameWith(m, f, stop))
<1> DEFINE n == Chunks(m, f - m.frame)
           time == Quotient(f - m.frame, n)
           t == Seek(m, time, n, stop)
<1>1. n \in Nat \ {0} /\ m.frame \in Int
  BY ChunksTyped DEF Managers
<1> HIDE DEF n
<1>2. time \in Int /\ IF f >= m.frame THEN 0 <= time /\ n * time <= f - m.frame
                                      ELSE time <= 0 /\ f - m.frame <= n * time
  <2>1. CASE f >= m.frame
    <3> DEFINE d == f - m.frame
    <3>1. d \in Nat /\ time = d \div n
      BY <1>1, <2>1 DEF Quotient
    <3> HIDE DEF d, time
    <3>2. d \div n \in Nat /\ (d \div n) * n <= d
      BY <1>1, <3>1, Division
    <3>3. (d \div n) * n = n * (d \div n)
      BY <1>1, <3>2
    <3> QED
      BY <2>1, <3>1, <3>2, <3>3 DEF d
  <2>2. CASE ~(f >= m.frame)
    <3> DEFINE d == m.frame - f
               k == d \div n
    <3>1. d \in Nat /\ f - m.frame = -d /\ ~(-d >= 0)
      BY <1>1, <2>2
    <3>2. time = -k
      <4>1. -(-d) = d
        BY <3>1
      <4> QED
        BY <3>1, <4>1 DEF Quotient
    <3> HIDE DEF d, time
    <3>3. k \in Nat /\ k * n <= d
      BY <1>1, <3>1, Division
    <3> HIDE DEF k
    <3>4. n * (-k) = -(k * n) /\ k * n \in Nat
      BY <1>1, <3>3
    <3> QED
      BY <1>1, <2>2, <3>1, <3>2, <3>3, <3>4
  <2> QED
    BY <2>1, <2>2
<1> HIDE DEF time
<1>3. t \in Managers /\ Held(m, t)
  BY <1>1, <1>2, SeekHeld
<1>4. SetFrameWith(m, f, stop) = [t EXCEPT !.frame = f]
  BY DEF SetFrameWith, Arrive, n, time
<1> HIDE DEF t
<1>5. Held(t, [t EXCEPT !.frame = f])
  BY <1>3 DEF Held, Managers
<1> QED
  BY <1>3, <1>4, <1>5, HeldOn

LEMMA FrameHeld ==
  ASSUME NEW m \in Managers, m.speed <= 10, NEW f \in Int, Inside(m, m.frame), Inside(m, f)
  PROVE  Held(m, SetFrame(m, f))
  BY StopFits, SetHeld, PlaybackAssumption DEF SetFrame, Stops

(* A tick by 0, which is all a paused model gets. *)
LEMMA NoTimeHeld ==
  ASSUME NEW m \in Managers, Inside(m, m.frame)
  PROVE  Held(m, Tick(m, 0)) /\ Tick(m, 0).frame = m.frame
<1>1. m.frame \in Int /\ m.speed \in Nat
  BY DEF Managers
<1>2. Quotient(0 * m.speed, 10) = 0
  <2>1. 0 * m.speed = 0 /\ 0 \div 10 = 0
    BY <1>1, Division
  <2> QED
    BY <2>1 DEF Quotient
<1>3. m.frame = m.frame + Quotient(0 * m.speed, 10)
  BY <1>1, <1>2
<1>4. Stopping[MaxNesting] \in Deeds
  BY StopFits, PlaybackAssumption DEF Stops
<1> QED
  BY <1>1, <1>3, <1>4, TickHeld DEF Tick

LEMMA Added ==
  ASSUME NEW m \in Ready, NEW id \in Anims, NEW loops \in LoopChoices
  PROVE  AddAnim(m, id, loops) \in Ready
<1> DEFINE r == [id |-> id, loops |-> loops]
           l == [m.list EXCEPT ![m.count] = r]
           t == [m EXCEPT !.list = l, !.count = m.count + 1]
<1>0. m \in Managers /\ m \in Fit
  BY ReadyTyped
<1>1. r \in Clips
  BY DEF Clips
<1> HIDE DEF r
<1>2. CASE m.count > 3
  BY <1>2 DEF AddAnim
<1>3. CASE ~(m.count > 3)
  <2>1. m.count \in 0..3 /\ m.count + 1 \in 0..4
    BY <1>0, <1>3 DEF Managers
  <2>2. AddAnim(m, id, loops) = t
    BY <1>3 DEF AddAnim, r
  <2>3. l \in [0..3 -> Clips \cup {Garbage}] /\ l[m.count] = r /\ \A i \in 0..3 : i # m.count => l[i] = m.list[i]
    BY <1>0, <1>1, <2>1 DEF Managers
  <2> HIDE DEF l
  <2>4. t \in Managers /\ t.list = l /\ t.count = m.count + 1 /\ t.index = m.index /\ t.loop = m.loop
        /\ t.speed = m.speed
    BY <1>0, <2>1, <2>3 DEF Managers
  <2> HIDE DEF t
  <2>5. r # Garbage
    BY <1>1, ClipTypes
  <2>6. ASSUME NEW i \in 0..3, i = 0 \/ i < t.count \/ i = t.index PROVE t.list[i] # Garbage
    BY <1>0, <2>1, <2>3, <2>4, <2>5, <2>6 DEF Fit, Filled
  <2>7. t \in Fit
    BY <1>0, <2>4, <2>6 DEF Fit, Filled, Counted
  <2> QED
    BY <2>2, <2>4, <2>7 DEF Ready
<1> QED
  BY <1>2, <1>3

LEMMA Chained ==
  ASSUME NEW m \in Ready, NEW id \in Anims, NEW loops \in LoopChoices
  PROVE  AddSuccessors(m, id, loops) \in Ready
<1>1. \A a \in Anims \cup {None} : After(a) \in Anims \cup {None}
  BY PlaybackAssumption DEF After
<1>2. \A t \in Ready, a \in Anims \cup {None} : AddIfAny(t, a, loops) \in Ready
  BY Added DEF AddIfAny
<1> QED
  BY <1>1, <1>2 DEF AddSuccessors

LEMMA AnimSet ==
  ASSUME NEW m \in Managers, m.speed \in Speeds \cup {10}, Counted(m), NEW id \in Anims, NEW loops \in LoopChoices
  PROVE  SetAnim(m, id, loops) \in Ready
<1> DEFINE r == [id |-> id, loops |-> loops]
           l == [m.list EXCEPT ![0] = r]
           t == [m EXCEPT !.list = l, !.count = 1, !.index = 0, !.frame = 0]
<1>1. r \in Clips /\ r # Garbage
  <2>1. r \in Clips
    BY DEF Clips
  <2> QED
    BY <2>1, ClipTypes
<1>2. SetAnim(m, id, loops) = t
  BY DEF SetAnim
<1> HIDE DEF r
<1>3. l \in [0..3 -> Clips \cup {Garbage}] /\ l[0] = r
  BY <1>1 DEF Managers
<1> HIDE DEF l
<1>4. /\ t.list = l /\ t.count = 1 /\ t.index = 0 /\ t.frame = 0 /\ t.loop = m.loop /\ t.speed = m.speed
      /\ t.paused = m.paused /\ t.runaway = m.runaway
  BY DEF Managers
<1>5. t \in Managers
  <2> DEFINE D == {"paused", "list", "frame", "count", "index", "loop", "speed", "runaway"}
  <2>1. m = [x \in D |-> m[x]] /\ DOMAIN m = D
    BY DEF Managers
  <2>2. t = [x \in D |-> t[x]]
    BY <2>1
  <2>3. t = [paused |-> m.paused, list |-> l, frame |-> 0, count |-> 1, index |-> 0,
             loop |-> m.loop, speed |-> m.speed, runaway |-> m.runaway]
    <3> HIDE DEF t
    <3> QED
      BY <1>4, <2>2
  <2>4. m.paused \in BOOLEAN /\ m.runaway \in BOOLEAN /\ m.loop \in Nat /\ m.speed \in Nat
    BY DEF Managers
  <2> HIDE DEF t
  <2> QED
    BY <1>3, <2>3, <2>4 DEF Managers
<1> HIDE DEF t
<1>6. t \in Ready
  BY <1>1, <1>3, <1>4, <1>5 DEF Ready, Fit, Filled, Counted
<1> QED
  BY <1>2, <1>6

LEMMA CountCut ==
  ASSUME NEW m \in Ready
  PROVE  [m EXCEPT !.count = 1] \in Ready
<1> DEFINE t == [m EXCEPT !.count = 1]
<1>0. m \in Managers /\ m \in Fit
  BY ReadyTyped
<1>1. t \in Managers /\ t.list = m.list /\ t.count = 1 /\ t.index = m.index /\ t.loop = m.loop /\ t.speed = m.speed
  BY <1>0 DEF Managers
<1> HIDE DEF t
<1>2. ASSUME NEW i \in 0..3, i = 0 \/ i < t.count \/ i = t.index PROVE t.list[i] # Garbage
  <2>1. i = 0 \/ i = m.index
    BY <1>1, <1>2
  <2> QED
    BY <1>0, <1>1, <2>1 DEF Fit, Filled
<1>3. Filled(t)
  BY <1>2 DEF Filled
<1>4. Counted(t)
  BY <1>0, <1>1 DEF Fit, Counted
<1>5. t.speed \in Speeds \cup {10} /\ t \in Fit
  BY <1>1, <1>3, <1>4 DEF Ready, Fit
<1> QED
  BY <1>5 DEF Ready, t

LEMMA SpeedSet ==
  ASSUME NEW m \in Ready, NEW s \in Speeds
  PROVE  [m EXCEPT !.speed = s] \in Ready
<1> DEFINE t == [m EXCEPT !.speed = s]
<1>0. m \in Managers /\ m \in Fit /\ s \in Nat
  BY ReadyTyped, PlaybackAssumption
<1>1. t \in Managers /\ t.list = m.list /\ t.count = m.count /\ t.index = m.index /\ t.loop = m.loop /\ t.speed = s
  BY <1>0 DEF Managers
<1> HIDE DEF t
<1>2. Filled(t)
  BY <1>0, <1>1 DEF Fit, Filled
<1>3. Counted(t)
  BY <1>0, <1>1 DEF Fit, Counted
<1>4. t \in Fit
  BY <1>1, <1>2, <1>3 DEF Fit
<1>5. t.speed \in Speeds \cup {10}
  BY <1>1
<1> QED
  BY <1>4, <1>5 DEF Ready, t

LEMMA Emptied ==
  ASSUME NEW m \in Ready
  PROVE  Clear(m) \in Ready
<1> DEFINE s == Stop(m)
           t == [s EXCEPT !.paused = TRUE, !.index = 0, !.count = 0, !.loop = 0, !.frame = 0]
<1>0. s \in Ready /\ s \in Managers /\ s \in Fit
  BY Halted, ReadyTyped
<1>1. Clear(m) = t
  BY DEF Clear
<1> HIDE DEF s
<1>4. /\ t.list = s.list /\ t.count = 0 /\ t.index = 0 /\ t.frame = 0 /\ t.loop = 0 /\ t.speed = s.speed
      /\ t.paused = TRUE /\ t.runaway = s.runaway
  BY <1>0 DEF Managers
<1>5. t \in Managers
  <2> DEFINE D == {"paused", "list", "frame", "count", "index", "loop", "speed", "runaway"}
  <2>1. s = [x \in D |-> s[x]] /\ DOMAIN s = D
    BY <1>0 DEF Managers
  <2>2. t = [x \in D |-> t[x]]
    BY <2>1
  <2>3. t = [paused |-> TRUE, list |-> s.list, frame |-> 0, count |-> 0, index |-> 0,
             loop |-> 0, speed |-> s.speed, runaway |-> s.runaway]
    <3> HIDE DEF t
    <3> QED
      BY <1>4, <2>2
  <2>4. s.list \in [0..3 -> Clips \cup {Garbage}] /\ s.runaway \in BOOLEAN /\ s.speed \in Nat
    BY <1>0 DEF Managers
  <2> HIDE DEF t
  <2> QED
    BY <2>3, <2>4 DEF Managers
<1> HIDE DEF t
<1>6. Counted(t)
  BY <1>4, ClipTypes DEF Counted
<1>7. t \in Ready
  BY <1>0, <1>4, <1>5, <1>6 DEF Ready, Fit, Filled
<1> QED
  BY <1>1, <1>7

LEMMA Stepped ==
  ASSUME NEW m \in Ready, NEW sign \in {-1, 1}
  PROVE  StepFrame(m, sign) \in Ready
<1> DEFINE d == sign * (LengthOf(m) \div FrameIntervals)
           t == [m EXCEPT !.frame = m.frame + d]
<1>0. m \in Managers /\ m \in Fit
  BY ReadyTyped
<1>1. LengthOf(m) \div FrameIntervals \in Nat
  BY <1>0, LengthTyped, Division, PlaybackAssumption
<1>2. d \in Int
  BY <1>1
<1>3. StepFrame(m, sign) = Tick(t, d)
  BY DEF StepFrame
<1> HIDE DEF d
<1>4. t \in Managers /\ t.list = m.list /\ t.count = m.count /\ t.index = m.index /\ t.loop = m.loop /\ t.speed = m.speed
  BY <1>0, <1>2 DEF Managers
<1> HIDE DEF t
<1>5. t \in Ready /\ t \in Fit
  BY <1>0, <1>4 DEF Ready, Fit, Filled, Counted
<1> QED
  BY <1>2, <1>3, <1>5, Ticked, FollowsReady

Panels == [selected : Anims, next : BOOLEAN, oldStyle : BOOLEAN, loops : LoopChoices, slider : Nat]

LEMMA Followed ==
  ASSUME panel \in Panels, NEW m \in Ready, NEW id \in Anims
  PROVE  Follow(m, id) \in Ready
  BY Chained DEF Follow, Panels

LEMMA PlayedOn == \A m \in Ready : Play(m) \in Ready
  BY Played DEF Play

LEMMA Restarted ==
  ASSUME panel \in Panels, NEW m \in Ready, NEW id \in Anims, NEW loops \in LoopChoices
  PROVE  Restart(m, id, loops) \in Ready
<1>1. Stop(m) \in Managers /\ Stop(m).speed \in Speeds \cup {10} /\ Counted(Stop(m))
  BY Halted DEF Ready, Fit
<1>2. SetAnim(Stop(m), id, loops) \in Ready
  BY <1>1, AnimSet
<1> QED
  BY <1>2, Followed, PlayedOn DEF Restart

LEMMA NewManager == AnimManager \in Ready
<1> DEFINE r == [id |-> First, loops |-> 0]
           l == [i \in 0..3 |-> IF i = 0 THEN r ELSE Garbage]
<1>1. r \in Clips
  BY PlaybackAssumption DEF Clips
<1> HIDE DEF r
<1>2. l \in [0..3 -> Clips \cup {Garbage}] /\ l[0] = r /\ r # Garbage
  BY <1>1, ClipTypes
<1>3. AnimManager = [paused |-> FALSE, list |-> l, frame |-> 0, count |-> 1, index |-> 0, loop |-> 0,
                     speed |-> 10, runaway |-> FALSE]
  BY DEF AnimManager, r
<1> HIDE DEF l
<1>4. AnimManager \in Managers
  BY <1>2, <1>3 DEF Managers
<1>5. Counted(AnimManager) /\ Filled(AnimManager) /\ AnimManager.speed = 10
  BY <1>2, <1>3, ClipTypes DEF Counted, Filled
<1> QED
  BY <1>4, <1>5 DEF Ready, Fit

LEMMA Loaded == panel \in Panels => Load \in Ready
<1> SUFFICES ASSUME panel \in Panels PROVE Load \in Ready
  OBVIOUS
<1>1. SetAnim(AnimManager, Stand, 0) \in Ready
  BY NewManager, AnimSet, PlaybackAssumption DEF Ready, Fit
<1> QED
  BY <1>1, Followed, PlayedOn, PlaybackAssumption DEF Load

(***************************************************************************)
(* The invariant: the head is ready, the export keeps within its range,    *)
(* and while nobody touched the panel during an export the model stays     *)
(* paused at the clip it had if that is the only one, or if the export     *)
(* keeps within it.                                                        *)
(***************************************************************************)
Exports == [on : BOOLEAN, index : Nat, first : Nat, last : Nat, saved : Ready,
            touched : BOOLEAN]

Waits(saved, m) == m.paused /\ (Single(saved) => Single(m))

PlayInv ==
  /\ anim \in Ready
  /\ panel \in Panels
  /\ export \in Exports /\ export.first <= export.last /\ export.index <= TotalFrames
  /\ export.on /\ ~export.touched => Waits(export.saved, anim)
  /\ export.on /\ ~export.touched /\ WithinClip =>
       Held(export.saved, anim) /\ Inside(anim, anim.frame)

LEMMA Settled == PlayInv => TypeOK
<1> SUFFICES ASSUME PlayInv PROVE TypeOK
  OBVIOUS
<1>1. anim \in Managers /\ Filled(anim) /\ Counted(anim) /\ anim.speed \in Speeds \cup {10}
  BY DEF PlayInv, Ready, Fit
<1>2. export.on \in BOOLEAN /\ export.index \in Nat /\ export.index <= TotalFrames /\ TotalFrames \in Int
  <2>1. export.last - export.first \in Nat
    BY DEF PlayInv, Exports
  <2> HIDE DEF PlayInv
  <2>2. TotalFrames \in Int
    BY <2>1, Division, PlaybackAssumption DEF TotalFrames
  <2> QED
    BY <2>2 DEF PlayInv, Exports
<1>3. panel \in Panels
  BY DEF PlayInv
<1> HIDE DEF PlayInv
<1>4. \A i \in 0..3 : (i < anim.count \/ i = anim.index) => anim.list[i] # Garbage
  BY <1>1 DEF Filled
<1>5. /\ anim.list \in [0..3 -> Clips \cup {Garbage}] /\ anim.index \in 0..3 /\ anim.count \in 0..4
      /\ anim.frame \in Int /\ anim.paused \in BOOLEAN /\ anim.runaway \in BOOLEAN
  BY <1>1 DEF Managers
<1>6. \E n \in LoopChoices : anim.loop \in 0..n
  BY <1>1 DEF Counted
<1>7. {anim.paused, anim.runaway} \subseteq BOOLEAN
  BY <1>5
<1>8. export.on \in BOOLEAN /\ export.index \in 0..TotalFrames
  BY <1>2
<1> QED
  BY <1>1, <1>3, <1>4, <1>5, <1>6, <1>7, <1>8 DEF TypeOK, Panels

LEMMA IdleFits == Idle \in Exports /\ Idle.first <= Idle.last /\ ~Idle.on
  BY NewManager DEF Idle, Exports

LEMMA FramesOf ==
  ASSUME NEW first \in Nat, NEW last \in Nat, first <= last
  PROVE  (last - first) \div Step + 1 \in Nat \ {0}
<1>1. last - first \in Nat
  OBVIOUS
<1>2. (last - first) \div Step \in Nat
  BY <1>1, Division, PlaybackAssumption
<1> QED
  BY <1>2

LEMMA Starts == Init => PlayInv
<1> SUFFICES ASSUME Init PROVE PlayInv
  OBVIOUS
<1>1. panel \in Panels
  BY PlaybackAssumption DEF Init, Panels
<1>2. anim \in Ready
  BY <1>1, Loaded DEF Init
<1>3. export = Idle
  BY DEF Init
<1>4. export.index <= TotalFrames
  BY <1>3, FramesOf, IdleFits DEF TotalFrames, Idle
<1> QED
  BY <1>1, <1>2, <1>3, <1>4, IdleFits DEF PlayInv

LEMMA Clicked ==
  ASSUME PlayInv, Click, anim' \in Ready, panel' \in Panels
  PROVE  PlayInv'
<1>1. export \in Exports /\ export' = [export EXCEPT !.touched = export.on]
  BY DEF PlayInv, Click
<1>2. /\ export' \in Exports /\ export'.on = export.on /\ export'.touched = export.on
      /\ export'.index = export.index /\ export'.first = export.first /\ export'.last = export.last
  BY <1>1 DEF Exports
<1>3. TotalFrames' = TotalFrames
  BY <1>2 DEF TotalFrames
<1> QED
  BY <1>2, <1>3 DEF PlayInv

LEMMA Buttons == PlayInv /\ OnButton => PlayInv'
<1> SUFFICES ASSUME PlayInv, OnButton PROVE PlayInv'
  OBVIOUS
<1>0. anim \in Ready /\ panel \in Panels /\ panel' = panel /\ Click
  BY DEF PlayInv, OnButton
<1>a. anim \in Managers
  BY <1>0, ReadyTyped
<1>1. CASE anim' = Play(anim)
  BY <1>0, <1>1, Clicked, PlayedOn
<1>2. CASE anim' = Pause(anim, FALSE)
  <2>1. (~anim.paused) \in BOOLEAN
    OBVIOUS
  <2>a. anim' = [anim EXCEPT !.paused = ~anim.paused]
    BY <1>a, <1>2, Pausing
  <2>2. anim' \in Ready
    BY <1>0, <2>1, <2>a, Played
  <2> QED
    BY <1>0, <2>2, Clicked
<1>3. CASE anim' = Clear(anim)
  BY <1>0, <1>3, Clicked, Emptied
<1>4. CASE anim' = AddAnim(anim, panel.selected, panel.loops)
  <2>1. anim' \in Ready
    BY <1>0, <1>4, Added DEF Panels
  <2> QED
    BY <1>0, <2>1, Clicked
<1>5. ASSUME NEW sign \in {-1, 1}, anim' = SetFrame(StepFrame(anim, sign), StepFrame(anim, sign).frame)
      PROVE  PlayInv'
  <2> DEFINE m == StepFrame(anim, sign)
  <2>1. m \in Ready /\ m \in Fit /\ m \in Managers
    BY <1>0, Stepped, ReadyTyped
  <2> HIDE DEF m
  <2>2. m.frame \in Int
    BY <2>1 DEF Managers
  <2>3. Follows(m, SetFrame(m, m.frame))
    BY <2>1, <2>2, FrameSet
  <2>4. SetFrame(m, m.frame) \in Ready
    BY <2>1, <2>3, FollowsReady
  <2> QED
    BY <1>0, <1>5, <2>4, Clicked DEF m
<1> QED
  BY <1>1, <1>2, <1>3, <1>4, <1>5 DEF OnButton

LEMMA Choices == PlayInv /\ (OnAnim \/ OnLoop) => PlayInv'
<1> SUFFICES ASSUME PlayInv, OnAnim \/ OnLoop PROVE PlayInv'
  OBVIOUS
<1>0. anim \in Ready /\ panel \in Panels /\ Click
  BY DEF PlayInv, OnAnim, OnLoop
<1>1. ASSUME OnAnim PROVE PlayInv'
  <2>1. PICK id \in Anims :
          \/ /\ panel.oldStyle
             /\ anim' = Restart(anim, id, panel.loops)
             /\ panel' = [panel EXCEPT !.selected = id, !.slider = Length[id]]
          \/ /\ ~panel.oldStyle
             /\ anim' = anim
             /\ panel' = [panel EXCEPT !.selected = id]
    BY <1>1 DEF OnAnim
  <2>2. Length[id] \in Nat
    BY PlaybackAssumption
  <2>3. panel' \in Panels
    BY <1>0, <2>1, <2>2 DEF Panels
  <2>4. panel.loops \in LoopChoices
    BY <1>0 DEF Panels
  <2>5. anim' \in Ready
    BY <1>0, <2>1, <2>4, Restarted
  <2> QED
    BY <1>0, <2>3, <2>5, Clicked
<1>2. ASSUME OnLoop PROVE PlayInv'
  <2>1. PICK n \in LoopChoices :
          /\ panel' = [panel EXCEPT !.loops = n]
          /\ anim' = IF panel.oldStyle THEN Restart(anim, panel.selected, n) ELSE anim
    BY <1>2 DEF OnLoop
  <2>2. panel' \in Panels /\ panel.selected \in Anims
    BY <1>0, <2>1 DEF Panels
  <2>3. anim' \in Ready
    BY <1>0, <2>1, <2>2, Restarted
  <2> QED
    BY <1>0, <2>2, <2>3, Clicked
<1> QED
  BY <1>1, <1>2

LEMMA Switches == PlayInv /\ (OnStop \/ OnNextAnims \/ OnOldStyle \/ OnSpeed \/ OnFrame \/ UpdateModel) => PlayInv'
<1> SUFFICES ASSUME PlayInv, OnStop \/ OnNextAnims \/ OnOldStyle \/ OnSpeed \/ OnFrame \/ UpdateModel
             PROVE  PlayInv'
  OBVIOUS
<1>0. anim \in Ready /\ panel \in Panels /\ Click
  BY DEF PlayInv, OnStop, OnNextAnims, OnOldStyle, OnSpeed, OnFrame, UpdateModel
<1>1. CASE OnStop
  BY <1>0, <1>1, Halted, Clicked DEF OnStop
<1>2. CASE OnNextAnims
  <2>1. panel' \in Panels /\ panel.selected \in Anims /\ panel.loops \in LoopChoices
    BY <1>0, <1>2 DEF OnNextAnims, Panels
  <2>2. anim' \in Ready
    BY <1>0, <1>2, <2>1, CountCut, Chained DEF OnNextAnims
  <2> QED
    BY <1>0, <2>1, <2>2, Clicked
<1>3. CASE OnOldStyle
  <2>1. panel' \in Panels
    BY <1>0, <1>3 DEF OnOldStyle, Panels
  <2> QED
    BY <1>0, <1>3, <2>1, Clicked DEF OnOldStyle
<1>4. CASE OnSpeed
  BY <1>0, <1>4, SpeedSet, Clicked DEF OnSpeed
<1>5. CASE OnFrame
  <2>1. PICK f \in SliderStops : anim' = SetFrame(anim, f)
    BY <1>5 DEF OnFrame
  <2>2. f \in Int
    BY PlaybackAssumption
  <2>3. anim' \in Ready
    BY <1>0, <2>1, <2>2, ReadyTyped, FrameSet, FollowsReady
  <2> QED
    BY <1>0, <1>5, <2>3, Clicked DEF OnFrame
<1>6. CASE UpdateModel
  <2>1. Length[Stand] \in Nat /\ First \in Anims
    BY PlaybackAssumption
  <2>2. panel' \in Panels
    BY <1>0, <1>6, <2>1 DEF UpdateModel, Panels
  <2> QED
    BY <1>0, <1>6, <2>2, Loaded, Clicked DEF UpdateModel
<1> QED
  BY <1>1, <1>2, <1>3, <1>4, <1>5, <1>6

LEMMA TimerTicks == PlayInv /\ CanvasTick => PlayInv'
<1> SUFFICES ASSUME PlayInv, CanvasTick PROVE PlayInv'
  OBVIOUS
<1>1. PICK t \in Ticks : anim' = Tick(anim, IF anim.paused THEN 0 ELSE t)
  BY DEF CanvasTick
<1>2. anim \in Ready /\ anim \in Fit
  BY ReadyTyped DEF PlayInv
<1>3. (IF anim.paused THEN 0 ELSE t) \in Int
  BY PlaybackAssumption
<1>4. Follows(anim, anim')
  BY <1>1, <1>2, <1>3, Ticked
<1>5. anim' \in Ready
  BY <1>2, <1>4, FollowsReady
<1>6. \A saved : Waits(saved, anim) => Waits(saved, anim')
  BY <1>4 DEF Waits, Follows
<1>7. panel' = panel /\ export' = export
  BY DEF CanvasTick
<1>8. ASSUME export.on, ~export.touched, WithinClip
      PROVE  Held(export.saved, anim') /\ Inside(anim', anim'.frame)
  <2>1. anim.paused /\ Held(export.saved, anim) /\ Inside(anim, anim.frame)
    BY <1>8 DEF PlayInv, Waits
  <2>2. anim' = Tick(anim, 0) /\ anim \in Managers
    BY <1>1, <1>2, <2>1, ReadyTyped
  <2>3. Held(anim, anim') /\ anim'.frame = anim.frame
    BY <2>1, <2>2, NoTimeHeld
  <2> QED
    BY <2>1, <2>3, HeldOn, HeldLength DEF Inside
<1>9. WithinClip' = WithinClip
  BY <1>7 DEF WithinClip
<1> QED
  BY <1>5, <1>6, <1>7, <1>8, <1>9 DEF PlayInv, TotalFrames

LEMMA ExportStarts == PlayInv /\ StartExport => PlayInv'
<1> SUFFICES ASSUME PlayInv, StartExport PROVE PlayInv'
  OBVIOUS
<1>1. PICK r \in Ranges \cup {<<0, LengthOf(anim)>>} :
        export' = [Idle EXCEPT !.on = TRUE, !.first = r[1], !.last = r[2], !.saved = anim]
  BY DEF StartExport
<1>2. anim \in Ready /\ anim' = [anim EXCEPT !.paused = TRUE] /\ panel' = panel /\ panel \in Panels
  BY Pausing, ReadyTyped DEF PlayInv, StartExport
<1>3. LengthOf(anim) \in Nat
  BY <1>2, ReadyTyped, LengthTyped
<1>4. r[1] \in Nat /\ r[2] \in Nat /\ r[1] <= r[2]
  BY <1>3, PlaybackAssumption
<1>5. export' = [on |-> TRUE, index |-> 0, first |-> r[1], last |-> r[2], saved |-> anim,
                 touched |-> FALSE]
  BY <1>1 DEF Idle
<1>6. export' \in Exports /\ export'.first <= export'.last
  BY <1>2, <1>4, <1>5 DEF Exports
<1>7. export'.index <= TotalFrames'
  BY <1>4, <1>5, FramesOf DEF TotalFrames
<1>8. anim' \in Ready /\ Waits(anim, anim')
  BY <1>2, Played DEF Waits, Single
<1>9. Waits(export'.saved, anim')
  BY <1>5, <1>8
<1>10. WithinClip' => Held(export'.saved, anim') /\ Inside(anim', anim'.frame)
  <2>1. Held(anim, anim') /\ anim'.frame = anim.frame
    BY <1>2, Played DEF Held
  <2>2. LengthOf(anim') = LengthOf(anim) /\ anim.frame \in Int
    BY <1>2, <2>1, HeldLength, ReadyTyped DEF Managers
  <2>3. export'.saved = anim
    BY <1>5
  <2>4. WithinClip' => Inside(anim, anim.frame)
    BY <1>3, <2>2, <2>3 DEF WithinClip, PastEnd, Inside
  <2> QED
    BY <2>1, <2>2, <2>3, <2>4 DEF Inside
<1> HIDE DEF PlayInv
<1> QED
  BY <1>2, <1>6, <1>7, <1>8, <1>9, <1>10 DEF PlayInv

LEMMA Pictures == PlayInv /\ ExportFrame => PlayInv'
<1> SUFFICES ASSUME PlayInv, ExportFrame PROVE PlayInv'
  OBVIOUS
<1>1. anim \in Ready /\ anim \in Fit /\ export \in Exports /\ export.first <= export.last
  BY ReadyTyped DEF PlayInv
<1>2. FrameTime \in Int
  <2>1. export.first \in Nat /\ export.last \in Nat /\ export.index \in Nat /\ Step \in Nat
    BY <1>1, PlaybackAssumption DEF Exports
  <2>2. export.index * Step \in Nat
    BY <2>1
  <2> QED
    BY <2>1, <2>2 DEF FrameTime
<1>3. Follows(anim, anim') /\ anim'.frame = FrameTime
  BY <1>1, <1>2, FrameSet DEF ExportFrame
<1>4. anim' \in Ready
  BY <1>1, <1>3, FollowsReady
<1>5. export' = [export EXCEPT !.index = export.index + 1]
  BY <1>3 DEF ExportFrame
<1>6. /\ export' \in Exports /\ export'.first = export.first /\ export'.last = export.last
      /\ export'.index = export.index + 1 /\ export'.on = export.on /\ export'.touched = export.touched
      /\ export'.saved = export.saved
  <2> DEFINE D == {"on", "index", "first", "last", "saved", "touched"}
             t == [on |-> export.on, index |-> export.index + 1, first |-> export.first,
                   last |-> export.last, saved |-> export.saved, touched |-> export.touched]
  <2>1. export = [x \in D |-> export[x]] /\ DOMAIN export = D
    BY <1>1 DEF Exports
  <2>2. export' = [x \in D |-> export'[x]]
    BY <1>5, <2>1
  <2>3. /\ export'.on = export.on /\ export'.index = export.index + 1 /\ export'.first = export.first
        /\ export'.last = export.last /\ export'.saved = export.saved /\ export'.touched = export.touched
    BY <1>5, <2>1
  <2>4. export' = t
    BY <2>2, <2>3
  <2>5. /\ export.on \in BOOLEAN /\ export.index + 1 \in Nat /\ export.first \in Nat /\ export.last \in Nat
        /\ export.saved \in Ready /\ export.touched \in BOOLEAN
    BY <1>1 DEF Exports
  <2>6. t \in Exports
    BY <1>2, <2>5 DEF Exports
  <2> QED
    BY <2>3, <2>4, <2>6
<1>7. TotalFrames' = TotalFrames /\ TotalFrames \in Nat
  BY <1>1, <1>6, FramesOf DEF TotalFrames, Exports
<1>8. export'.index <= TotalFrames'
  BY <1>1, <1>6, <1>7 DEF ExportFrame, Exports
<1>9. \A saved : Waits(saved, anim) => Waits(saved, anim')
  BY <1>3 DEF Waits, Follows
<1>10. panel' = panel /\ panel \in Panels /\ (export.on /\ ~export.touched => Waits(export.saved, anim))
  BY DEF PlayInv, ExportFrame
<1>11. ASSUME export.on, ~export.touched, WithinClip
       PROVE  Held(export.saved, anim') /\ Inside(anim', anim'.frame)
  <2>1. Held(export.saved, anim) /\ Inside(anim, anim.frame)
    BY <1>11 DEF PlayInv
  <2>2. anim \in Managers /\ anim.speed <= 10 /\ LengthOf(anim) = LengthOf(export.saved)
    BY <1>1, <1>11, <2>1, ReadyTyped, HeldLength DEF Held, WithinClip
  <2>3. Inside(anim, FrameTime)
    <3>1. export.first \in Nat /\ export.last \in Nat /\ export.index \in Nat /\ Step \in Nat
      BY <1>1, PlaybackAssumption DEF Exports
    <3>2. export.index * Step \in Nat
      BY <3>1
    <3>3. 0 <= FrameTime /\ FrameTime <= export.last
      BY <3>1, <3>2 DEF FrameTime
    <3>4. LengthOf(anim) \in Nat /\ export.last < LengthOf(anim)
      BY <1>11, <2>2, LengthTyped DEF WithinClip
    <3> QED
      BY <1>2, <3>1, <3>3, <3>4 DEF Inside
  <2>4. Held(anim, anim')
    BY <1>2, <2>1, <2>2, <2>3, FrameHeld DEF ExportFrame
  <2> QED
    BY <1>3, <2>1, <2>3, <2>4, HeldOn, HeldLength DEF Inside
<1>12. WithinClip' = WithinClip
  BY <1>6 DEF WithinClip
<1> HIDE DEF PlayInv
<1> QED
  BY <1>1, <1>4, <1>6, <1>8, <1>9, <1>10, <1>11, <1>12 DEF PlayInv

(* The end of an export puts the model back. *)
LEMMA PutBack ==
  ASSUME PlayInv, ExportEnds
  PROVE  /\ anim' \in Ready
         /\ anim'.frame = export.saved.frame
         /\ export.saved.paused \/ ~anim'.paused
         /\ ~export.touched => anim'.paused = export.saved.paused
         /\ ~export.touched /\ Single(export.saved) => Single(anim')
         /\ ~export.touched /\ WithinClip => Place(anim') = Place(export.saved)
<1> DEFINE at == SetFrame(anim, export.saved.frame)
<1>1. anim \in Ready /\ anim \in Fit /\ export \in Exports /\ export.saved \in Ready /\ export.on
  BY ReadyTyped DEF PlayInv, Exports, ExportEnds
<1>2. export.saved.frame \in Int /\ export.saved.paused \in BOOLEAN
  BY <1>1, ReadyTyped DEF Managers
<1>3. Follows(anim, at) /\ at.frame = export.saved.frame
  BY <1>1, <1>2, FrameSet
<1>4. at \in Ready
  BY <1>1, <1>3, FollowsReady
<1>5. anim' = IF export.saved.paused THEN at ELSE Play(at)
  BY DEF ExportEnds, Restored
<1>a. ASSUME ~export.touched, WithinClip PROVE Place(at) = Place(export.saved)
  <2>1. Held(export.saved, anim) /\ Inside(anim, anim.frame)
    BY <1>1, <1>a DEF PlayInv
  <2>2. anim \in Managers /\ anim.speed <= 10 /\ LengthOf(anim) = LengthOf(export.saved)
    BY <1>1, <1>a, <2>1, ReadyTyped, HeldLength DEF Held, WithinClip
  <2>3. Inside(anim, export.saved.frame)
    BY <1>2, <1>a, <2>2, LengthTyped DEF Inside, WithinClip, PastEnd
  <2>4. Held(export.saved, at)
    BY <1>2, <2>1, <2>2, <2>3, FrameHeld, HeldOn
  <2> QED
    BY <2>4, HeldLength
<1> HIDE DEF at
<1>b. Place(Play(at)) = Place(at)
  BY <1>4, Played DEF Play, Place
<1>6. Play(at) \in Ready /\ ~Play(at).paused /\ Play(at).frame = at.frame /\ (Single(at) => Single(Play(at)))
  BY <1>4, Played DEF Play, Single
<1>7. ~export.touched => anim.paused /\ (Single(export.saved) => Single(anim))
  BY <1>1 DEF PlayInv, Waits
<1>8. at.paused \in BOOLEAN /\ Play(at).paused \in BOOLEAN
  BY <1>4, <1>6, ReadyTyped DEF Managers
<1>9. ~export.touched => at.paused /\ (Single(export.saved) => Single(at))
  BY <1>3, <1>7 DEF Follows
<1> HIDE DEF PlayInv
<1>10. CASE export.saved.paused
  <2>1. anim' = at
    BY <1>5, <1>10
  <2>2. ~export.touched => at.paused = export.saved.paused
    BY <1>2, <1>8, <1>9, <1>10
  <2> QED
    BY <1>3, <1>4, <1>9, <1>10, <1>a, <2>1, <2>2
<1>11. CASE ~export.saved.paused
  <2>1. anim' = Play(at)
    BY <1>5, <1>11
  <2>2. Play(at).paused = export.saved.paused
    BY <1>2, <1>6, <1>8, <1>11
  <2> QED
    BY <1>3, <1>6, <1>9, <1>11, <1>a, <1>b, <2>1, <2>2
<1> QED
  BY <1>10, <1>11

LEMMA Ends == PlayInv /\ ExportEnds => PlayInv'
<1> SUFFICES ASSUME PlayInv, ExportEnds PROVE PlayInv'
  OBVIOUS
<1>1. anim' \in Ready
  BY PutBack
<1>2. export' = Idle /\ panel' = panel /\ panel \in Panels
  BY DEF PlayInv, ExportEnds
<1>3. export'.index <= TotalFrames'
  BY <1>2, FramesOf, IdleFits DEF TotalFrames, Idle
<1> HIDE DEF PlayInv
<1> QED
  BY <1>1, <1>2, <1>3, IdleFits DEF PlayInv

LEMMA Steps == PlayInv /\ [Next]_vars => PlayInv'
<1> SUFFICES ASSUME PlayInv, [Next]_vars PROVE PlayInv'
  OBVIOUS
<1>1. CASE UNCHANGED vars
  BY <1>1 DEF vars, PlayInv, TotalFrames, WithinClip
<1> QED
  BY <1>1, Buttons, Choices, Switches, TimerTicks, ExportStarts, Pictures, Ends DEF Next

LEMMA Invariance == Spec => []PlayInv
<1> QED
  BY Starts, Steps, PTL DEF Spec

(* Whatever the clips and the order of the events, the slot that plays and the
   slots of the queue were filled for this model: AnimManager never plays one
   of the slots its constructor leaves uninitialised. *)
THEOREM Typing == Spec => []TypeOK
<1> QED
  BY Invariance, Settled, PTL

(* However many clips the queue has, however long they are and whenever the
   canvas timer fires, an export at no more than normal speed and within a clip
   that the user leaves alone takes all its pictures at one place of the queue:
   no tick of its seeks ends the clip, and a paused model gets no time. *)
THEOREM Holds == Spec => []PlaceHeld
<1>1. PlayInv => PlaceHeld
  BY HeldLength DEF PlayInv, PlaceHeld
<1> QED
  BY <1>1, Invariance, PTL

(* However long an export and whatever the speed, if the user leaves the panel
   alone restoreState gives back the time and the pause, and the place in the
   queue if that is a single endless clip or the export kept within its clip. *)
THEOREM Restores == Spec => ExportRestores
<1> DEFINE Kept == /\ export.saved.frame >= 0 => anim'.frame = export.saved.frame
                   /\ anim'.paused = export.saved.paused
                   /\ (export.saved.count = 1 /\ export.saved.index = 0 /\ export.saved.loop = 0) =>
                        (anim'.index = 0 /\ anim'.loop = 0)
                   /\ WithinClip => Place(anim') = Place(export.saved)
           Undisturbed == (export.on /\ ~export'.on /\ ~export.touched) => Kept
<1>1. PlayInv /\ [Next]_vars => [Undisturbed]_vars
  <2> SUFFICES ASSUME PlayInv, Next, export.on, ~export'.on, ~export.touched PROVE Kept
    BY DEF vars
  <2>1. Click => FALSE
    <3> SUFFICES ASSUME Click PROVE FALSE
      OBVIOUS
    <3>1. export \in Exports /\ export' = [export EXCEPT !.touched = export.on]
      BY DEF PlayInv, Click
    <3>2. export'.on = export.on
      BY <3>1 DEF Exports
    <3> QED
      BY <3>2
  <2>2. ~CanvasTick /\ ~StartExport
    BY DEF CanvasTick, StartExport
  <2>3. ~ExportFrame
    <3> SUFFICES ASSUME ExportFrame PROVE FALSE
      OBVIOUS
    <3>1. export \in Exports
      BY DEF PlayInv
    <3>2. export'.on = export.on
      BY <3>1 DEF Exports, ExportFrame
    <3> QED
      BY <3>2
  <2>4. ExportEnds
    BY <2>1, <2>2, <2>3 DEF Next, OnButton, OnStop, OnNextAnims, OnOldStyle, OnAnim, OnLoop, OnSpeed,
                            OnFrame, UpdateModel
  <2> QED
    BY <2>4, PutBack DEF Single
<1> QED
  BY <1>1, Invariance, PTL DEF Spec, ExportRestores

(***************************************************************************)
(* Stop returns.  From normal to double speed one piece of a seek moves    *)
(* the head by at least what is left to go, divided by the pieces, and by  *)
(* at most twice that, so a Stop inside a Stop starts closer to zero.      *)
(***************************************************************************)
LEMMA Doubled ==
  ASSUME NEW q \in Nat, NEW s \in 10..20
  PROVE  LET st == (q * s) \div 10 IN st \in Nat /\ q <= st /\ st <= 2 * q
<1>1. q * s \in Nat /\ 10 * q <= q * s /\ q * s <= 20 * q
  <2>1. q * (s - 10) \in Nat /\ q * (20 - s) \in Nat
    OBVIOUS
  <2>2. q * (s - 10) = q * s - 10 * q /\ q * (20 - s) = 20 * q - q * s
    OBVIOUS
  <2>3. q * s \in Nat
    OBVIOUS
  <2> QED
    BY <2>1, <2>2, <2>3
<1> DEFINE a == q * s
<1> HIDE DEF a
<1>2. a \in Nat => a \div 10 \in Nat /\ (a \div 10) * 10 <= a /\ a < (a \div 10) * 10 + 10
  BY Division
<1> QED
  BY <1>1, <1>2 DEF a

LEMMA StepUp ==
  ASSUME NEW q \in Nat, NEW s \in 10..20
  PROVE  LET st == Quotient(q * s, 10) IN st \in Nat /\ q <= st /\ st <= 2 * q
<1>1. Quotient(q * s, 10) = (q * s) \div 10
  BY DEF Quotient
<1> QED
  BY <1>1, Doubled

LEMMA StepDown ==
  ASSUME NEW q \in Nat, NEW s \in 10..20
  PROVE  LET st == -Quotient((-q) * s, 10) IN st \in Nat /\ q <= st /\ st <= 2 * q
<1>1. q * s \in Nat /\ (-q) * s = -(q * s)
  OBVIOUS
<1> DEFINE a == q * s
<1>2. Quotient(-a, 10) = -(a \div 10)
  <2>1. CASE a = 0
    <3>1. a \div 10 = 0
      BY <2>1
    <3> QED
      BY <2>1, <3>1 DEF Quotient
  <2>2. CASE a # 0
    <3>1. ~(-a >= 0) /\ -(-a) = a
      BY <1>1, <2>2
    <3> QED
      BY <3>1 DEF Quotient
  <2> QED
    BY <2>1, <2>2
<1>3. Quotient((-q) * s, 10) = -((q * s) \div 10)
  BY <1>1, <1>2
<1> DEFINE d == (q * s) \div 10
<1>4. d \in Nat /\ q <= d /\ d <= 2 * q
  BY Doubled
<1> HIDE DEF d
<1> QED
  BY <1>3, <1>4 DEF d

(* The pieces of a way of f and what one of them takes. *)
LEMMA Pieces ==
  ASSUME NEW f \in Nat \ {0}, NEW iv \in Nat \ {0}
  PROVE  LET k == f \div iv
             n == IF k > 1 THEN k ELSE 1
             q == f \div n
         IN  /\ n \in Nat \ {0} /\ q \in Nat \ {0} /\ n * q <= f /\ q <= f
             /\ n = 1 => q = f /\ f < 2 * iv
             /\ n >= 2 => 2 * q <= f /\ 2 * q < 3 * iv
             /\ n = 2 => f < 3 * iv
             /\ n >= 3 => f >= 3 * iv
<1> DEFINE k == f \div iv
           n == IF k > 1 THEN k ELSE 1
           q == f \div n
<1>1. k \in Nat /\ k <= f /\ k * iv <= f /\ f < k * iv + iv
  BY Division
<1> HIDE DEF k
<1>2. n \in Nat \ {0} /\ n <= f
  BY <1>1
<1>3. n = 1 => f < 2 * iv
  <2>1. CASE k = 0
    BY <1>1, <2>1
  <2>2. CASE k = 1
    BY <1>1, <2>2
  <2> QED
    BY <1>1, <2>1, <2>2
<1>4. n >= 2 => n = k
  BY <1>1
<1> HIDE DEF n
<1>5. q \in Nat /\ q <= f /\ q * n <= f /\ f < q * n + n
  BY <1>2, Division
<1> HIDE DEF q
<1>6. q # 0
  BY <1>2, <1>5
<1>7. n = 1 => q = f
  BY <1>5
<1>8. ASSUME n >= 2 PROVE 2 * q <= f /\ 2 * q < 3 * iv
  <2>1. (n - 2) * q \in Nat
    BY <1>2, <1>5, <1>8
  <2>2. (n - 2) * q = n * q - 2 * q /\ n * q = q * n
    BY <1>2, <1>5
  <2>3. n * q \in Nat /\ 2 * q <= n * q
    BY <1>2, <1>5, <2>1, <2>2
  <2>4. 2 * q <= f
    BY <1>5, <2>2, <2>3
  <2>a. q \in Nat
    BY <1>5
  <2>5. CASE q <= iv
    BY <2>a, <2>4, <2>5
  <2>6. CASE q > iv
    <3> DEFINE d == q - iv
    <3>1. d \in Nat /\ n * d = n * q - n * iv
      BY <1>2, <1>5, <2>6
    <3>2. n * iv = k * iv
      BY <1>4, <1>8
    <3>3. n * d < iv
      BY <1>1, <1>5, <2>2, <2>3, <3>1, <3>2
    <3>4. (n - 2) * d \in Nat /\ (n - 2) * d = n * d - 2 * d
      BY <1>2, <1>8, <3>1
    <3>5. 2 * d < iv
      BY <1>2, <3>1, <3>3, <3>4
    <3>6. q = d + iv
      BY <2>a
    <3> HIDE DEF d
    <3>7. d \in Nat
      BY <3>1
    <3> QED
      BY <2>4, <3>5, <3>6, <3>7
  <2> QED
    BY <2>a, <2>4, <2>5, <2>6
<1>9. n = 2 => f < 3 * iv
  <2> SUFFICES ASSUME n = 2 PROVE f < 3 * iv
    OBVIOUS
  <2>1. k = 2
    BY <1>4
  <2> QED
    BY <1>1, <2>1
<1>10. n >= 3 => f >= 3 * iv
  <2> SUFFICES ASSUME n >= 3 PROVE f >= 3 * iv
    OBVIOUS
  <2>1. k \in Nat /\ k >= 3
    BY <1>1, <1>2, <1>4
  <2>2. (k - 3) * iv \in Nat /\ (k - 3) * iv = k * iv - 3 * iv
    BY <2>1
  <2> QED
    BY <1>1, <2>1, <2>2
<1> QED
  BY <1>2, <1>3, <1>5, <1>6, <1>7, <1>8, <1>9, <1>10 DEF k, n, q

Brisk == /\ FrameIntervals >= 3 /\ Speeds \subseteq 10..20
         /\ \A id \in Anims : FrameIntervals <= Length[id]
Sound == {m \in Fit : ~m.runaway /\ m.speed \in 10..20}
Interval(m) == Length[m.list[0].id] \div FrameIntervals

\* No more than so many calls of Stop are nested when the head is at p.
DepthAt(m, p) == IF p >= 0 THEN 2 * p + 1
                 ELSE IF -p < 3 * Interval(m) THEN -(2 * p) ELSE -(6 * p)
Careful(k) == {stop \in Stops :
                 \A m \in Sound : DepthAt(m, m.frame) <= k => ~stop[m].runaway /\ stop[m].frame = 0}

LEMMA SoundTyped ==
  ASSUME NEW m \in Sound
  PROVE  /\ m \in Fit /\ m \in Managers /\ ~m.runaway /\ m.speed \in 10..20 /\ m.frame \in Int
         /\ m.index \in 0..3 /\ m.count \in 0..4 /\ m.loop \in Nat
  BY DEF Sound, Fit, Managers

LEMMA Lengths ==
  ASSUME Brisk, NEW m \in Sound
  PROVE  /\ LengthOf(m) \in Nat /\ LengthOf(m) >= 3
         /\ Interval(m) \in Nat \ {0}
         /\ m.index = 0 => LengthOf(m) \div FrameIntervals = Interval(m) /\ 3 * Interval(m) <= LengthOf(m)
<1>1. m \in Fit /\ m.index \in 0..3
  BY SoundTyped
<1>2. m.list[m.index] \in Clips /\ m.list[0] \in Clips
  <2>1. \A i \in 0..3 : m.list[i] \in Clips \cup {Garbage}
    BY DEF Sound, Fit, Managers
  <2> QED
    BY <1>1, <2>1 DEF Fit, Filled
<1>3. m.list[m.index].id \in Anims /\ m.list[0].id \in Anims
  BY <1>2, ClipTypes
<1>4. LengthOf(m) = Length[m.list[m.index].id]
  BY <1>3 DEF LengthOf
<1>5. \A id \in Anims : Length[id] \in Nat /\ 3 <= Length[id] /\ FrameIntervals <= Length[id]
  BY PlaybackAssumption DEF Brisk
<1>6. \A id \in Anims : LET iv == Length[id] \div FrameIntervals
                        IN  iv \in Nat \ {0} /\ 3 * iv <= Length[id]
  <2> SUFFICES ASSUME NEW id \in Anims
               PROVE  LET iv == Length[id] \div FrameIntervals
                      IN  iv \in Nat \ {0} /\ 3 * iv <= Length[id]
    OBVIOUS
  <2> DEFINE iv == Length[id] \div FrameIntervals
  <2>0. FrameIntervals \in Nat \ {0} /\ FrameIntervals >= 3
    BY PlaybackAssumption DEF Brisk
  <2>1. iv \in Nat /\ iv * FrameIntervals <= Length[id] /\ Length[id] < iv * FrameIntervals + FrameIntervals
    BY <1>5, <2>0, Division
  <2> HIDE DEF iv
  <2>2. iv # 0
    BY <1>5, <2>0, <2>1
  <2>3. iv * (FrameIntervals - 3) \in Nat /\ iv * (FrameIntervals - 3) = iv * FrameIntervals - 3 * iv
    BY <2>0, <2>1
  <2>4. 3 * iv <= Length[id]
    BY <1>5, <2>0, <2>1, <2>3
  <2> QED
    BY <2>1, <2>2, <2>4 DEF iv
<1> QED
  BY <1>3, <1>4, <1>5, <1>6 DEF Interval

(* The head moved, and nothing else. *)
LEMMA Shifted ==
  ASSUME NEW m \in Sound, NEW p \in Int
  PROVE  LET t == [m EXCEPT !.frame = p]
         IN  /\ t \in Sound /\ Alike(m, t) /\ t.frame = p /\ t.index = m.index /\ t.loop = m.loop
             /\ LengthOf(t) = LengthOf(m) /\ \A x : DepthAt(t, x) = DepthAt(m, x)
<1> DEFINE t == [m EXCEPT !.frame = p]
<1>0. m \in Managers /\ m \in Fit /\ ~m.runaway
  BY SoundTyped
<1>1. /\ t \in Managers /\ t.list = m.list /\ t.count = m.count /\ t.speed = m.speed /\ t.frame = p
      /\ t.index = m.index /\ t.loop = m.loop /\ t.paused = m.paused
  BY <1>0 DEF Managers
<1>2. t.runaway = m.runaway
  BY <1>0 DEF Managers
<1> HIDE DEF t
<1>3. t \in Fit
  BY <1>0, <1>1, Moved DEF Alike, Fit, Counted
<1>4. t \in Sound
  BY <1>0, <1>1, <1>2, <1>3 DEF Sound
<1>5. LengthOf(t) = LengthOf(m) /\ \A x : DepthAt(t, x) = DepthAt(m, x)
  BY <1>1 DEF LengthOf, DepthAt, Interval
<1> QED
  BY <1>1, <1>4, <1>5 DEF t, Alike

LEMMA Rewound ==
  ASSUME NEW m \in Managers, ~m.runaway
  PROVE  /\ \A i \in 0..3 : LET t == Rewind([m EXCEPT !.index = i]) IN t.frame = 0 /\ ~t.runaway
         /\ \A i \in 0..3, l \in Nat : LET t == Rewind([m EXCEPT !.index = i, !.loop = l])
                                    IN  t.frame = 0 /\ ~t.runaway
         /\ \A l \in Nat : LET t == Rewind([m EXCEPT !.loop = l]) IN t.frame = 0 /\ ~t.runaway
<1>1. /\ \A i \in 0..3 : LET t == Rewind([m EXCEPT !.index = i]) IN t.frame = 0 /\ t.runaway = m.runaway
      /\ \A i \in 0..3, l \in Nat : LET t == Rewind([m EXCEPT !.index = i, !.loop = l])
                                 IN  t.frame = 0 /\ t.runaway = m.runaway
      /\ \A l \in Nat : LET t == Rewind([m EXCEPT !.loop = l]) IN t.frame = 0 /\ t.runaway = m.runaway
  BY DEF Rewind, Managers
<1> QED
  BY <1>1, Zenon

(* Where a tick leaves the head, if the Stop it may call returns. *)
LEMMA TickLands ==
  ASSUME NEW k, NEW stop \in Careful(k), NEW m \in Sound, NEW time \in Int,
         NEW p \in Int, p = m.frame + Quotient(time * m.speed, 10),
         Ticking(m) /\ (p < 0 \/ p >= LengthOf(m)) => DepthAt(m, p) <= k
  PROVE  LET t == TickWith(m, time, stop)
         IN  /\ t \in Sound /\ Alike(m, t)
             /\ \/ t = m
                \/ Ticking(m) /\ t.frame = 0 /\ (p < 0 \/ p >= LengthOf(m))
                \/ t = [m EXCEPT !.frame = p] /\ 0 <= p /\ p < LengthOf(m)
<1> DEFINE t == TickWith(m, time, stop)
           u == [m EXCEPT !.frame = p]
           next == u.index + 1
<1>0. /\ m \in Fit /\ m \in Managers /\ ~m.runaway /\ m.speed \in 10..20
      /\ m.index \in 0..3 /\ m.count \in 0..4 /\ m.loop \in Nat
  BY SoundTyped
<1>1. /\ u \in Sound /\ Alike(m, u) /\ u.frame = p /\ u.index = m.index /\ u.loop = m.loop
      /\ LengthOf(u) = LengthOf(m) /\ DepthAt(u, u.frame) = DepthAt(m, p)
  BY Shifted
<1>2. t = IF ~Ticking(m) THEN m ELSE IF PastEnd(u) THEN NextClip(u, stop) ELSE u
  <2>1. m.frame + Quotient(time * m.speed, 10) = p
    OBVIOUS
  <2> QED
    BY <2>1 DEF TickWith
<1>3. PastEnd(u) <=> p < 0 \/ p >= LengthOf(m)
  BY <1>1 DEF PastEnd
<1> HIDE DEF u
<1>4. stop \in Stops
  BY DEF Careful
<1>5. t \in Fit /\ Alike(m, t)
  BY <1>0, <1>4, TickFollows DEF Follows
<1> HIDE DEF t
<1>6. ASSUME Ticking(m), PastEnd(u) PROVE ~NextClip(u, stop).runaway /\ NextClip(u, stop).frame = 0
  <2>0. u \in Managers /\ ~u.runaway /\ u.index \in 0..3 /\ u.count \in 0..4 /\ u.loop \in Nat
    BY <1>1, SoundTyped
  <2>2. CASE u.loop = 1 /\ next >= u.count
    <3>1. NextClip(u, stop) = stop[u]
      BY <2>0, <2>2 DEF NextClip
    <3> QED
      BY <1>1, <1>3, <1>6, <3>1 DEF Careful
  <2>3. CASE u.loop = 1 /\ next < u.count
    <3>1. NextClip(u, stop) = Rewind([u EXCEPT !.index = next, !.loop = u.list[next].loops])
      BY <2>0, <2>3 DEF NextClip
    <3>2. next \in 0..3 /\ u.list[next].loops \in Nat
      <4>1. next \in 0..3
        BY <2>0, <2>3
      <4>2. \A i \in 0..3 : u.list[i].loops \in Nat
        BY <2>0, ClipTypes DEF Managers
      <4> QED
        BY <4>1, <4>2
    <3> DEFINE v == Rewind([u EXCEPT !.index = next, !.loop = u.list[next].loops])
    <3>3. v.frame = 0 /\ ~v.runaway
      BY <2>0, <3>2, Rewound
    <3>4. NextClip(u, stop) = v
      BY <3>1
    <3> HIDE DEF v
    <3> QED
      BY <3>3, <3>4
  <2>4. CASE u.loop > 1
    <3>1. NextClip(u, stop) = Rewind([u EXCEPT !.loop = u.loop - 1])
      BY <2>0, <2>4 DEF NextClip
    <3>2. u.loop - 1 \in Nat
      BY <2>0, <2>4
    <3> DEFINE v == Rewind([u EXCEPT !.loop = u.loop - 1])
    <3>3. v.frame = 0 /\ ~v.runaway
      BY <2>0, <3>2, Rewound
    <3>4. NextClip(u, stop) = v
      BY <3>1
    <3> HIDE DEF v
    <3> QED
      BY <3>3, <3>4
  <2>5. CASE u.loop = 0
    <3> DEFINE i == IF next >= u.count THEN 0 ELSE next
    <3>1. i \in 0..3
      BY <2>0
    <3>2. NextClip(u, stop) = Rewind([u EXCEPT !.index = i])
      BY <2>0, <2>5 DEF NextClip
    <3> HIDE DEF i
    <3> DEFINE v == Rewind([u EXCEPT !.index = i])
    <3>3. v.frame = 0 /\ ~v.runaway
      BY <2>0, <3>1, Rewound
    <3>4. NextClip(u, stop) = v
      BY <3>2
    <3> HIDE DEF v
    <3> QED
      BY <3>3, <3>4
  <2> QED
    BY <2>0, <2>2, <2>3, <2>4, <2>5
<1>7. CASE ~Ticking(m)
  BY <1>2, <1>7 DEF Alike, t
<1>8. CASE Ticking(m) /\ PastEnd(u)
  <2>1. t = NextClip(u, stop)
    BY <1>2, <1>8
  <2>2. ~t.runaway /\ t.frame = 0
    BY <1>6, <1>8, <2>1
  <2>3. t \in Sound
    BY <1>0, <1>5, <2>2 DEF Sound, Alike
  <2> QED
    BY <1>3, <1>5, <1>8, <2>2, <2>3 DEF t
<1>9. CASE Ticking(m) /\ ~PastEnd(u)
  <2>1. t = u
    BY <1>2, <1>9
  <2>2. 0 <= p /\ p < LengthOf(m)
    <3>1. LengthOf(m) \in Nat
      BY <1>0, LengthTyped
    <3> QED
      BY <1>3, <1>9, <3>1
  <2> QED
    BY <1>1, <2>1, <2>2 DEF t, u
<1> QED
  BY <1>7, <1>8, <1>9

LEMMA SeekAlong ==
  ASSUME NEW stop \in Deeds, NEW m \in Managers, NEW time \in Int, NEW n \in Nat, NEW P,
         m \in P[0],
         \A i \in 1..n : \A t \in Managers : t \in P[i - 1] => TickWith(t, time, stop) \in P[i]
  PROVE  Seek(m, time, n, stop) \in P[n]
<1> DEFINE F == TickPass(time, stop, n)
<1>1. \A i \in 1..n : \A t \in Managers : F[i][t] = TickWith(t, time, stop)
  BY DEF TickPass
<1>2. Ran(Seek(m, time, n, stop), n, Managers, m, F)
  BY SeekLoop
<1> HIDE DEF F
<1>3. \A i \in 1..n : \A t \in Managers : t \in P[i - 1] => F[i][t] \in P[i]
  BY <1>1
<1> QED
  BY ONLY <1>2, <1>3, Along, n \in Nat, m \in P[0]

(* Alike heads cut the way into the same pieces and tick by the same step. *)
LEMMA AlikeDepth ==
  \A b, t : Alike(b, t) => /\ Interval(t) = Interval(b) /\ t.speed = b.speed
                           /\ \A x : DepthAt(t, x) = DepthAt(b, x)
  BY DEF Alike, Interval, DepthAt

\* The heads that a seek from b may pass through.
Passing(b) == {t \in Sound : Alike(b, t)}

(* A head that goes down to 0 stays above it, or is put back to it. *)
LEMMA GoesDown ==
  ASSUME Brisk, NEW k \in Nat, NEW stop \in Careful(k), NEW b \in Sound, b.index = 0, b.frame > 0,
         DepthAt(b, b.frame) <= k + 1
  PROVE  LET n == Chunks(b, 0 - b.frame)
         IN  Seek(b, Quotient(0 - b.frame, n), n, stop) \in Sound
<1> DEFINE f == b.frame
           iv == Interval(b)
           n == Chunks(b, 0 - f)
           q == f \div n
           time == Quotient(0 - f, n)
           st == -Quotient(time * b.speed, 10)
           P == [i \in 0..n |-> {t \in Passing(b) : 0 <= t.frame /\ t.frame <= f /\ (i = 0 => t = b)}]
<1>0. f \in Nat \ {0} /\ iv \in Nat \ {0} /\ b.speed \in 10..20
  BY SoundTyped, Lengths
<1>1. n = IF f \div iv > 1 THEN f \div iv ELSE 1
  <2>1. LengthOf(b) \div FrameIntervals = iv
    BY Lengths
  <2>2. 0 - f < 0 /\ -(0 - f) = f
    BY <1>0
  <2> HIDE DEF f, iv
  <2> QED
    BY <1>0, <2>1, <2>2 DEF Chunks
<1> HIDE DEF n
<1>2. /\ n \in Nat \ {0} /\ q \in Nat \ {0} /\ q <= f
      /\ n = 1 => q = f /\ f < 2 * iv
      /\ n >= 2 => 2 * q <= f /\ 2 * q < 3 * iv
  <2> HIDE DEF f, iv
  <2> QED
    BY <1>0, <1>1, Pieces
<1>3. time = -q
  BY <1>0, <1>2 DEF Quotient
<1> HIDE DEF q, time
<1>4. st \in Nat /\ q <= st /\ st <= 2 * q
  BY <1>0, <1>2, <1>3, StepDown
<1>5. DepthAt(b, f) = 2 * f + 1
  BY <1>0 DEF DepthAt
<1>a. Quotient(time * b.speed, 10) = -st
  <2>1. time \in Int /\ b.speed \in Int
    BY <1>0, <1>2, <1>3
  <2>2. time * b.speed \in Int /\ 10 \in Nat \ {0}
    BY <2>1
  <2>3. Quotient(time * b.speed, 10) \in Int
    BY <2>2, QuotientTyped
  <2> QED
    BY <2>3
<1> HIDE DEF st
<1>6. ASSUME NEW i \in 1..n, NEW t \in Managers, t \in P[i - 1] PROVE TickWith(t, time, stop) \in P[i]
  <2> DEFINE p == t.frame - st
             v == TickWith(t, time, stop)
  <2>0. i - 1 \in 0..n /\ (i - 1 = 0 <=> i = 1)
    BY <1>2
  <2>1. /\ t \in Passing(b) /\ t \in Sound /\ Alike(b, t) /\ 0 <= t.frame /\ t.frame <= f
        /\ i = 1 => t = b
    BY <1>6, <2>0 DEF Passing
  <2>2. t.frame \in Nat /\ t.frame <= f /\ t.speed = b.speed
    BY <1>0, <2>1, SoundTyped, AlikeDepth
  <2>3. p \in Int /\ p = t.frame + Quotient(time * t.speed, 10) /\ p < f
    <3>1. Quotient(time * t.speed, 10) = -st
      BY <1>a, <2>2
    <3> QED
      BY <1>0, <1>2, <1>4, <2>2, <3>1
  <2>4. p < 0 => -p <= f /\ -p < 3 * iv
    <3>1. CASE n = 1
      <4>1. i = 1 /\ t.frame = f
        BY <1>6, <2>1, <3>1
      <4> QED
        BY <1>0, <1>2, <1>4, <3>1, <4>1
    <3>2. CASE n >= 2
      BY <1>0, <1>2, <1>4, <2>2, <3>2
    <3> QED
      BY <1>2, <3>1, <3>2
  <2>5. DepthAt(t, p) <= k
    <3>1. DepthAt(t, p) = DepthAt(b, p)
      BY <2>1, AlikeDepth
    <3> HIDE DEF p, iv
    <3>2. DepthAt(b, p) <= 2 * f
      BY <1>0, <2>3, <2>4 DEF DepthAt, iv
    <3>3. DepthAt(b, p) \in Int
      BY <2>3, <2>4 DEF DepthAt, iv
    <3> QED
      BY <1>0, <1>5, <3>1, <3>2, <3>3
  <2>6. time \in Int
    BY <1>2, <1>3
  <2> HIDE DEF p
  <2>7. /\ v \in Sound /\ Alike(t, v)
        /\ v = t \/ v.frame = 0 \/ (v = [t EXCEPT !.frame = p] /\ 0 <= p)
    BY <2>1, <2>3, <2>5, <2>6, TickLands
  <2>8. 0 <= v.frame /\ v.frame <= f
    <3>1. CASE v = [t EXCEPT !.frame = p] /\ 0 <= p
      <4>1. v.frame = p
        BY <2>1, <2>3, <3>1, Shifted
      <4> QED
        BY <1>0, <2>3, <3>1, <4>1
    <3> QED
      BY <1>0, <2>1, <2>7, <3>1
  <2>9. Alike(b, v)
    BY <2>1, <2>7 DEF Alike
  <2> HIDE DEF v
  <2>10. v \in P[i]
    BY <1>6, <2>7, <2>8, <2>9 DEF Passing
  <2> QED
    BY <2>10 DEF v
<1>7. b \in Managers /\ b \in P[0] /\ stop \in Deeds
  BY <1>0, <1>2, SoundTyped DEF Passing, Alike, Careful, Stops
<1>8. n \in Nat /\ time \in Int
  BY <1>2, <1>3
<1>9. \A i \in 1..n : \A t \in Managers : t \in P[i - 1] => TickWith(t, time, stop) \in P[i]
  BY <1>6
<1> HIDE DEF P
<1>10. Seek(b, time, n, stop) \in P[n]
  BY ONLY <1>7, <1>8, <1>9, SeekAlong
<1>11. P[n] \subseteq Sound
  BY <1>2 DEF P, Passing
<1> QED
  BY <1>10, <1>11 DEF n, time

(* A head below 0 comes up to it.  One that has gone far, at least as far as
   three pieces, may be put to 0 on its way and end another clip above. *)
LEMMA GoesUp ==
  ASSUME Brisk, NEW k \in Nat, NEW stop \in Careful(k), NEW b \in Sound, b.index = 0, b.frame < 0,
         DepthAt(b, b.frame) <= k + 1
  PROVE  LET n == Chunks(b, 0 - b.frame)
         IN  Seek(b, Quotient(0 - b.frame, n), n, stop) \in Sound
<1> DEFINE a == 0 - b.frame
           iv == Interval(b)
           n == Chunks(b, a)
           q == a \div n
           time == Quotient(a, n)
           st == Quotient(time * b.speed, 10)
<1>0. a \in Nat \ {0} /\ iv \in Nat \ {0} /\ b.speed \in 10..20 /\ b.frame = -a
  BY SoundTyped, Lengths
<1>1. n = IF a \div iv > 1 THEN a \div iv ELSE 1
  <2>1. LengthOf(b) \div FrameIntervals = iv
    BY Lengths
  <2>2. ~(a < 0)
    BY <1>0
  <2> HIDE DEF a, iv
  <2> QED
    BY <1>0, <2>1, <2>2 DEF Chunks
<1> HIDE DEF n
<1>2. /\ n \in Nat \ {0} /\ q \in Nat \ {0} /\ n * q <= a /\ q <= a
      /\ n = 1 => q = a /\ a < 2 * iv
      /\ n >= 2 => 2 * q <= a
      /\ n = 2 => a < 3 * iv
      /\ n >= 3 => a >= 3 * iv
  <2> HIDE DEF a, iv
  <2> QED
    BY <1>0, <1>1, Pieces
<1>3. time = q
  BY <1>0, <1>2 DEF Quotient
<1> HIDE DEF q, time
<1>4. st \in Nat /\ q <= st /\ st <= 2 * q
  BY <1>0, <1>2, <1>3, StepUp
<1>5. 3 * iv <= LengthOf(b) /\ LengthOf(b) \in Nat
  BY Lengths
<1>6. DepthAt(b, -a) <= k + 1
  BY <1>0
<1> HIDE DEF st, a, iv
<1>7. \A p \in Int : DepthAt(b, p) = IF p >= 0 THEN 2 * p + 1 ELSE IF -p < 3 * iv THEN -(2 * p) ELSE -(6 * p)
  BY DEF DepthAt, iv
<1>8. n \in Nat /\ time \in Int /\ b \in Managers /\ stop \in Deeds /\ b \in Passing(b)
  BY <1>2, <1>3, SoundTyped DEF Passing, Alike, Careful, Stops
\* One tick.
<1>9. ASSUME NEW t \in Passing(b), NEW p \in Int, p = t.frame + st,
             p < 0 \/ p >= LengthOf(t) => DepthAt(b, p) <= k
      PROVE  LET v == TickWith(t, time, stop)
             IN  /\ v \in Passing(b)
                 /\ \/ v = t
                    \/ v.frame = 0 /\ (p < 0 \/ p >= LengthOf(t))
                    \/ v.frame = p /\ v.index = t.index /\ 0 <= p
  <2> DEFINE v == TickWith(t, time, stop)
  <2>1. t \in Sound /\ Alike(b, t) /\ t.speed = b.speed /\ DepthAt(t, p) = DepthAt(b, p)
    BY AlikeDepth DEF Passing
  <2>2. p = t.frame + Quotient(time * t.speed, 10)
    BY <1>9, <2>1 DEF st
  <2>3. /\ v \in Sound /\ Alike(t, v)
        /\ \/ v = t
           \/ v.frame = 0 /\ (p < 0 \/ p >= LengthOf(t))
           \/ v = [t EXCEPT !.frame = p] /\ 0 <= p
    BY <1>8, <1>9, <2>1, <2>2, TickLands
  <2>4. v = [t EXCEPT !.frame = p] => v.frame = p /\ v.index = t.index
    BY <2>1, Shifted
  <2>5. v \in Passing(b)
    BY <2>1, <2>3 DEF Passing, Alike
  <2> QED
    BY <2>3, <2>4, <2>5
<1>10. CASE n = 1
  <2> DEFINE P == [i \in 0..n |-> {t \in Passing(b) : i = 0 => t = b}]
  <2>1. ASSUME NEW i \in 1..n, NEW t \in Managers, t \in P[i - 1] PROVE TickWith(t, time, stop) \in P[i]
    <3> DEFINE p == st - a
    <3>1. t = b /\ i = 1
      BY <1>10, <2>1
    <3>2. p \in Int /\ 0 <= p /\ p < LengthOf(b)
      BY <1>0, <1>2, <1>4, <1>5, <1>10
    <3>3. p = b.frame + st
      BY <1>0, <1>4
    <3> HIDE DEF p
    <3>4. TickWith(b, time, stop) \in Passing(b)
      BY <1>5, <1>8, <1>9, <3>2, <3>3
    <3> QED
      BY <1>10, <3>1, <3>4
  <2>2. b \in P[0] /\ P[n] \subseteq Sound
    BY <1>8 DEF Passing
  <2>3. \A i \in 1..n : \A t \in Managers : t \in P[i - 1] => TickWith(t, time, stop) \in P[i]
    BY <2>1
  <2> HIDE DEF P
  <2>4. Seek(b, time, n, stop) \in P[n]
    BY ONLY <1>8, <2>2, <2>3, SeekAlong
  <2> QED
    BY <2>2, <2>4 DEF n, time, a
<1>11. CASE n = 2
  <2> DEFINE AtZero == {t \in Passing(b) : t = b \/ (t.frame = 0 /\ (st < a \/ t.index = 0))}
             P == [i \in 0..n |-> IF i = 0 THEN {b} ELSE IF i = 1 THEN AtZero ELSE Passing(b)]
  <2>0. st <= a /\ a < 3 * iv /\ 0 < st
    BY <1>0, <1>2, <1>4, <1>11
  <2>a. 2 * a <= k + 1
    <3>1. ~(-a >= 0) /\ -a \in Int /\ -(-a) = a /\ -(2 * (-a)) = 2 * a
      BY <1>0
    <3>2. DepthAt(b, -a) = 2 * a
      BY <1>7, <2>0, <3>1
    <3> QED
      BY <1>6, <3>2
  <2>1. TickWith(b, time, stop) \in AtZero
    <3> DEFINE p == st - a
               v == TickWith(b, time, stop)
    <3>1. p \in Int /\ p = b.frame + st /\ p <= 0 /\ -p < a /\ (p < 0 => st < a) /\ p < LengthOf(b)
      BY <1>0, <1>4, <1>5, <2>0
    <3>2. p < 0 => DepthAt(b, p) <= k
      <4>1. p < 0 => DepthAt(b, p) = -(2 * p)
        <5> HIDE DEF p
        <5> QED
          BY <1>0, <1>7, <2>0, <3>1
      <4> QED
        BY <1>0, <2>a, <3>1, <4>1
    <3> HIDE DEF p
    <3>3. /\ v \in Passing(b)
          /\ \/ v = b
             \/ v.frame = 0 /\ (p < 0 \/ p >= LengthOf(b))
             \/ v.frame = p /\ v.index = b.index /\ 0 <= p
      BY <1>8, <1>9, <3>1, <3>2, <1>5
    <3> HIDE DEF v
    <3>4. v \in AtZero
      BY <1>5, <3>1, <3>3
    <3> QED
      BY <3>4 DEF v
  <2>2. ASSUME NEW t \in AtZero PROVE TickWith(t, time, stop) \in Passing(b)
    <3>1. CASE t = b
      BY <2>1, <3>1
    <3>2. CASE t # b
      <4>1. t \in Passing(b) /\ t.frame = 0 /\ (st < a \/ t.index = 0)
        BY <2>2, <3>2
      <4>2. t \in Sound /\ Interval(t) = iv
        BY <4>1, AlikeDepth DEF Passing, iv
      <4>3. LengthOf(t) \in Nat /\ (t.index = 0 => 3 * iv <= LengthOf(t))
        BY <4>2, Lengths
      <4>4. st \in Int /\ st = t.frame + st
        BY <1>4, <4>1
      <4>5. st < 0 \/ st >= LengthOf(t) => DepthAt(b, st) <= k
        <5>1. DepthAt(b, st) = 2 * st + 1
          BY <1>4, <1>7
        <5>2. st >= LengthOf(t) => st < a
          BY <1>0, <1>4, <2>0, <4>1, <4>3
        <5> QED
          BY <1>0, <1>4, <2>a, <5>1, <5>2
      <4> QED
        BY <1>9, <4>1, <4>4, <4>5
    <3> QED
      BY <3>1, <3>2
  <2>3. b \in P[0] /\ P[n] \subseteq Sound
    BY <1>11 DEF Passing
  <2>4. \A i \in 1..n : \A t \in Managers : t \in P[i - 1] => TickWith(t, time, stop) \in P[i]
    <3> SUFFICES ASSUME NEW i \in 1..n, NEW t \in Managers, t \in P[i - 1]
                 PROVE  TickWith(t, time, stop) \in P[i]
      OBVIOUS
    <3> HIDE DEF AtZero
    <3>1. CASE i = 1
      <4>1. t = b /\ P[i] = AtZero
        BY <1>11, <3>1
      <4> QED
        BY <2>1, <4>1
    <3>2. CASE i = 2
      <4>1. t \in AtZero /\ P[i] = Passing(b)
        BY <1>11, <3>2
      <4> QED
        BY <2>2, <4>1
    <3> QED
      BY <1>11, <3>1, <3>2
  <2> HIDE DEF P
  <2>5. Seek(b, time, n, stop) \in P[n]
    BY ONLY <1>8, <2>3, <2>4, SeekAlong
  <2> QED
    BY <2>3, <2>5 DEF n, time, a
<1>12. CASE n >= 3
  <2> DEFINE P == [i \in 0..n |-> {t \in Passing(b) : t = b \/ (0 <= t.frame /\ t.frame <= i * st)}]
  <2>0. 2 * q <= a /\ st <= a /\ a >= 3 * iv
    BY <1>0, <1>2, <1>4, <1>12
  <2>a. 6 * a <= k + 1
    <3>1. ~(-a >= 0) /\ -a \in Int /\ -(-a) = a /\ -(6 * (-a)) = 6 * a
      BY <1>0
    <3>2. DepthAt(b, -a) = 6 * a
      BY <1>0, <1>7, <2>0, <3>1
    <3> QED
      BY <1>6, <3>2
  <2>b. ASSUME NEW i \in 1..n
        PROVE  i * st \in Nat /\ i * st <= 2 * a /\ (i - 1) * st \in Nat /\ (i - 1) * st + st = i * st
    <3>1. i \in Nat /\ i - 1 \in Nat /\ n - i \in Nat
      BY <1>2
    <3>2. i * st \in Nat /\ (i - 1) * st \in Nat /\ (i - 1) * st = i * st - st
      BY <1>4, <3>1
    <3>3. (n - i) * st \in Nat /\ (n - i) * st = n * st - i * st
      BY <1>2, <1>4, <3>1
    <3>4. n * (2 * q - st) \in Nat /\ n * (2 * q - st) = 2 * (n * q) - n * st
      BY <1>2, <1>4
    <3>5. n * q \in Nat /\ n * st \in Nat
      BY <1>2, <1>4
    <3>6. i * st <= n * st /\ n * st <= 2 * (n * q)
      BY <3>2, <3>3, <3>4, <3>5
    <3> QED
      BY <1>0, <1>2, <1>4, <3>2, <3>5, <3>6
  <2>1. ASSUME NEW i \in 1..n, NEW t \in Managers, t \in P[i - 1] PROVE TickWith(t, time, stop) \in P[i]
    <3> DEFINE p == t.frame + st
               v == TickWith(t, time, stop)
    <3>0. i - 1 \in 0..n /\ i \in 0..n
      BY <1>2
    <3>1. t \in Passing(b) /\ (t = b \/ (0 <= t.frame /\ t.frame <= (i - 1) * st))
      BY <2>1, <3>0
    <3>2. t \in Sound /\ t.frame \in Int /\ LengthOf(t) \in Nat /\ LengthOf(t) >= 3
      BY <3>1, SoundTyped, Lengths DEF Passing
    <3>3. p \in Int /\ p <= i * st /\ p <= 2 * a /\ -p < a
      BY <1>0, <1>2, <1>4, <2>0, <2>b, <3>1, <3>2
    <3>4. DepthAt(b, p) <= k
      <4> HIDE DEF p
      <4>1. p >= 0 => DepthAt(b, p) <= 4 * a + 1
        BY <1>0, <1>7, <3>3
      <4>2. p < 0 => DepthAt(b, p) <= 6 * a - 1
        BY <1>0, <1>7, <3>3
      <4>3. DepthAt(b, p) \in Int
        BY <1>7, <3>3
      <4> QED
        BY <1>0, <2>a, <3>3, <4>1, <4>2, <4>3
    <3> HIDE DEF p
    <3>5. /\ v \in Passing(b)
          /\ \/ v = t
             \/ v.frame = 0
             \/ v.frame = p /\ 0 <= p
      BY <1>9, <3>1, <3>3, <3>4 DEF p
    <3> HIDE DEF v
    <3>6. v = b \/ (0 <= v.frame /\ v.frame <= i * st)
      BY <1>4, <2>b, <3>1, <3>2, <3>3, <3>5
    <3> QED
      BY <3>0, <3>5, <3>6 DEF v
  <2>2. b \in P[0] /\ P[n] \subseteq Sound
    BY <1>2, <1>8 DEF Passing
  <2>3. \A i \in 1..n : \A t \in Managers : t \in P[i - 1] => TickWith(t, time, stop) \in P[i]
    BY <2>1
  <2> HIDE DEF P
  <2>4. Seek(b, time, n, stop) \in P[n]
    BY ONLY <1>8, <2>2, <2>3, SeekAlong
  <2> QED
    BY <2>2, <2>4 DEF n, time, a
<1> QED
  BY <1>2, <1>10, <1>11, <1>12

LEMMA StaysAtZero ==
  ASSUME Brisk, NEW k \in Nat, NEW stop \in Careful(k), NEW b \in Sound, b.frame = 0
  PROVE  LET n == Chunks(b, 0 - b.frame)
         IN  Seek(b, Quotient(0 - b.frame, n), n, stop) \in Sound
<1> DEFINE n == Chunks(b, 0 - b.frame)
           time == Quotient(0 - b.frame, n)
           P == [i \in 0..n |-> {t \in Sound : t.frame = 0}]
<1>1. n \in Nat \ {0}
  BY SoundTyped, ChunksTyped
<1> HIDE DEF n
<1>2. time = 0
  <2>1. 0 \div n \in Nat /\ 0 \div n <= 0
    BY <1>1, Division
  <2> QED
    BY <2>1 DEF Quotient
<1> HIDE DEF time
<1>3. ASSUME NEW t \in Sound, t.frame = 0 PROVE LET v == TickWith(t, time, stop) IN v \in Sound /\ v.frame = 0
  <2>1. LengthOf(t) \in Nat /\ LengthOf(t) >= 3 /\ t.speed \in 10..20
    BY Lengths, SoundTyped
  <2>2. 0 = t.frame + Quotient(time * t.speed, 10)
    <3>1. time * t.speed = 0
      BY <1>2, <2>1
    <3>2. Quotient(0, 10) = 0
      BY DEF Quotient
    <3> QED
      BY <1>3, <3>1, <3>2
  <2>3. [t EXCEPT !.frame = 0].frame = 0
    BY Shifted
  <2> DEFINE v == TickWith(t, time, stop)
  <2>4. 0 \in Int /\ time \in Int /\ ~(0 < 0 \/ 0 >= LengthOf(t))
    BY <1>2, <2>1
  <2>5. v \in Sound /\ (v = t \/ v.frame = 0 \/ v = [t EXCEPT !.frame = 0])
    BY <2>2, <2>4, TickLands
  <2> HIDE DEF v
  <2> QED
    BY <1>3, <2>3, <2>5 DEF v
<1>4. \A i \in 1..n : \A t \in Managers : t \in P[i - 1] => TickWith(t, time, stop) \in P[i]
  BY <1>1, <1>3
<1>5. b \in Managers /\ b \in P[0] /\ P[n] \subseteq Sound /\ stop \in Deeds /\ n \in Nat /\ time \in Int
  BY <1>1, <1>2, SoundTyped DEF Careful, Stops
<1> HIDE DEF P
<1>6. Seek(b, time, n, stop) \in P[n]
  BY ONLY <1>4, <1>5, SeekAlong
<1> QED
  BY <1>5, <1>6 DEF n, time

(* One more call of Stop copes with heads that are that much farther. *)
LEMMA HaltCareful ==
  ASSUME Brisk, NEW k \in Nat, NEW stop \in Careful(k)
  PROVE  HaltAll(stop) \in Careful(k + 1)
<1>1. HaltAll(stop) \in Stops
  BY HaltFits DEF Careful
<1>2. ASSUME NEW m \in Sound, DepthAt(m, m.frame) <= k + 1
      PROVE  ~HaltAll(stop)[m].runaway /\ HaltAll(stop)[m].frame = 0
  <2> DEFINE b == Begin(m)
             n == Chunks(b, 0 - b.frame)
             s == Seek(b, Quotient(0 - b.frame, n), n, stop)
             u == SetFrameWith(b, 0, stop)
             t == Halt(m, stop)
  <2>0. m \in Managers /\ m \in Fit /\ ~m.runaway /\ m.speed \in 10..20 /\ m.frame \in Int /\ stop \in Deeds
    BY SoundTyped DEF Careful, Stops
  <2>1. /\ b \in Managers /\ b.index = 0 /\ b.list = m.list /\ b.count = m.count /\ b.speed = m.speed
        /\ b.loop = m.loop /\ b.frame = m.frame /\ b.runaway = m.runaway
    BY <2>0, BeginTyped
  <2> HIDE DEF b
  <2>2. b \in Sound
    <3>1. b \in Fit
      BY <2>0, <2>1 DEF Fit, Filled, Counted
    <3> QED
      BY <2>0, <2>1, <3>1 DEF Sound
  <2>3. DepthAt(b, b.frame) <= k + 1
    BY <1>2, <2>1, AlikeDepth DEF Alike
  <2>4. s \in Sound
    BY <2>0, <2>1, <2>2, <2>3, GoesDown, GoesUp, StaysAtZero
  <2>5. u = [s EXCEPT !.frame = 0]
    BY DEF SetFrameWith, Arrive
  <2> HIDE DEF s, u, t
  <2>6. u \in Sound /\ u \in Managers /\ u.frame = 0 /\ ~u.runaway
    <3>1. LET x == [s EXCEPT !.frame = 0] IN x \in Sound /\ x.frame = 0
      BY <2>4, Shifted
    <3> QED
      BY <2>5, <3>1, SoundTyped
  <2>7. t = [u EXCEPT !.loop = m.list[0].loops]
    BY DEF Halt, b, u, t
  <2>8. HaltAll(stop)[m] = t
    BY <2>0 DEF HaltAll, t
  <2>9. t.runaway = u.runaway /\ t.frame = u.frame
    BY <2>6, <2>7 DEF Managers
  <2> QED
    BY <2>6, <2>8, <2>9
<1> QED
  BY <1>1, <1>2 DEF Careful

LEMMA StopCareful == Brisk => Stopping[MaxNesting] \in Careful(MaxNesting)
<1> SUFFICES ASSUME Brisk PROVE Stopping[MaxNesting] \in Careful(MaxNesting)
  OBVIOUS
<1> DEFINE P == {i \in 0..MaxNesting : Stopping[i] \in Careful(i)}
<1>1. MaxNesting \in Nat
  BY PlaybackAssumption
<1>2. 0 \in P
  <2>1. Stopping[0] \in Stops
    BY <1>1, StopFits
  <2>2. ASSUME NEW m \in Sound PROVE ~(DepthAt(m, m.frame) <= 0)
    <3>1. m.frame \in Int
      BY SoundTyped
    <3> QED
      BY <3>1 DEF DepthAt
  <2> QED
    BY <1>1, <2>1, <2>2 DEF Careful
<1>3. ASSUME NEW i \in 1..MaxNesting, i - 1 \in P PROVE i \in P
  <2>1. Stopping[i] = HaltPass[i][Stopping[i - 1]] /\ Stopping[i - 1] \in Careful(i - 1)
    BY <1>3, StoppingRun DEF Run
  <2>2. Stopping[i - 1] \in Deeds
    BY <2>1 DEF Careful, Stops
  <2>3. Stopping[i] = HaltAll(Stopping[i - 1])
    BY <2>1, <2>2 DEF HaltPass
  <2>4. i - 1 \in Nat /\ (i - 1) + 1 = i /\ i \in 0..MaxNesting
    BY <1>1
  <2>5. HaltAll(Stopping[i - 1]) \in Careful(i)
    BY <2>1, <2>4, HaltCareful
  <2> QED
    BY <2>3, <2>4, <2>5
<1>4. \A i \in 1..MaxNesting : i - 1 \in P => i \in P
  BY <1>3
<1>5. \A i \in 0..MaxNesting : i \in P
  <2> HIDE DEF P
  <2> QED
    BY <1>1, <1>2, <1>4, Passes
<1> QED
  BY <1>1, <1>5

(***************************************************************************)
(* The controls again: how far from zero they take the head.               *)
(***************************************************************************)
Wide(F) == /\ Brisk /\ F \in Nat /\ 30 * F + 1 <= MaxNesting
           /\ \A id \in Anims : Length[id] <= F
Near(F) == {m \in Ready : ~m.runaway /\ -F <= m.frame /\ m.frame <= F}

LEMMA NearSound ==
  ASSUME Brisk, NEW F, NEW m \in Near(F)
  PROVE  m \in Sound /\ m \in Ready /\ m \in Fit /\ m \in Managers /\ m.frame \in Int /\ ~m.runaway
         /\ -F <= m.frame /\ m.frame <= F
<1>1. m \in Ready /\ ~m.runaway /\ -F <= m.frame /\ m.frame <= F
  BY DEF Near
<1>2. m \in Sound
  <2>1. 10 \in 10..20 /\ m.speed \in Speeds \cup {10} /\ m \in Fit
    BY <1>1 DEF Ready
  <2>2. m.speed \in 10..20
    BY <2>1 DEF Brisk
  <2> QED
    BY <1>1, <2>1, <2>2 DEF Sound
<1> QED
  BY <1>1, <1>2, SoundTyped

LEMMA NearIs ==
  ASSUME NEW F, NEW m \in Sound, m \in Ready, -F <= m.frame, m.frame <= F
  PROVE  m \in Near(F)
  BY SoundTyped DEF Near

LEMMA WithinDepth ==
  ASSUME NEW F, Wide(F), NEW m \in Sound, NEW p \in Int, -(5 * F) <= p, p <= 5 * F
  PROVE  DepthAt(m, p) <= MaxNesting
<1>1. F \in Nat /\ 30 * F + 1 <= MaxNesting /\ MaxNesting \in Nat
  BY PlaybackAssumption DEF Wide
<1>2. CASE p >= 0
  BY <1>1, <1>2 DEF DepthAt
<1>3. CASE p < 0 /\ -p < 3 * Interval(m)
  <2>1. DepthAt(m, p) = -(2 * p)
    BY <1>3 DEF DepthAt
  <2> QED
    BY <1>1, <1>3, <2>1
<1>4. CASE p < 0 /\ ~(-p < 3 * Interval(m))
  <2>1. DepthAt(m, p) = -(6 * p)
    BY <1>4 DEF DepthAt
  <2> QED
    BY <1>1, <1>4, <2>1
<1> QED
  BY <1>2, <1>3, <1>4

LEMMA StopNear ==
  ASSUME NEW F, Wide(F), NEW m \in Near(F)
  PROVE  Stop(m) \in Near(F) /\ Stop(m).frame = 0
<1>1. m \in Sound /\ m \in Ready /\ m.frame \in Int /\ -F <= m.frame /\ m.frame <= F /\ F \in Nat /\ Brisk
  BY NearSound DEF Wide
<1>2. DepthAt(m, m.frame) <= MaxNesting
  BY <1>1, WithinDepth
<1>3. ~Stop(m).runaway /\ Stop(m).frame = 0
  BY <1>1, <1>2, StopCareful DEF Careful, Stop
<1> QED
  BY <1>1, <1>3, Halted DEF Near

(* A piece of a seek moves the head by at most twice its time. *)
LEMMA StepAtMost ==
  ASSUME NEW time \in Int, NEW s \in 10..20, NEW T \in Nat, -T <= time, time <= T
  PROVE  LET d == Quotient(time * s, 10) IN d \in Int /\ -(2 * T) <= d /\ d <= 2 * T
<1> DEFINE d == Quotient(time * s, 10)
<1>1. CASE time >= 0
  <2>1. time \in Nat
    BY <1>1
  <2>2. d \in Nat /\ d <= 2 * time
    BY <2>1, StepUp
  <2> HIDE DEF d
  <2> QED
    BY <2>2 DEF d
<1>2. CASE time < 0
  <2> DEFINE q == -time
  <2>1. q \in Nat /\ time = -q
    BY <1>2
  <2>2. -Quotient((-q) * s, 10) \in Nat /\ -Quotient((-q) * s, 10) <= 2 * q
    BY <2>1, StepDown
  <2>3. -d \in Nat /\ -d <= 2 * q
    BY <2>1, <2>2
  <2>4. d \in Int
    <3>1. time * s \in Int /\ 10 \in Nat \ {0}
      OBVIOUS
    <3> QED
      BY <3>1, QuotientTyped
  <2> HIDE DEF d
  <2> QED
    BY <2>1, <2>3, <2>4 DEF d
<1> QED
  BY <1>1, <1>2

\* Heads as far as F that a seek may pass through.
Roaming(F) == {m \in Sound : -F <= m.frame /\ m.frame <= F}

LEMMA TickRoams ==
  ASSUME NEW F, Wide(F), NEW m \in Roaming(F), NEW time \in Int, -(2 * F) <= time, time <= 2 * F
  PROVE  TickWith(m, time, Stopping[MaxNesting]) \in Roaming(F)
<1> DEFINE p == m.frame + Quotient(time * m.speed, 10)
           stop == Stopping[MaxNesting]
           t == TickWith(m, time, stop)
<1>1. /\ m \in Sound /\ m.frame \in Int /\ m.speed \in 10..20 /\ -F <= m.frame /\ m.frame <= F
      /\ F \in Nat /\ Brisk
  BY SoundTyped DEF Roaming, Wide
<1>2. p \in Int /\ -(5 * F) <= p /\ p <= 5 * F
  <2> DEFINE d == Quotient(time * m.speed, 10)
  <2>1. 2 * F \in Nat
    BY <1>1
  <2>2. d \in Int /\ -(2 * (2 * F)) <= d /\ d <= 2 * (2 * F)
    BY <1>1, <2>1, StepAtMost
  <2> HIDE DEF d
  <2>3. m.frame + d \in Int /\ -(5 * F) <= m.frame + d /\ m.frame + d <= 5 * F
    BY <1>1, <2>2
  <2> QED
    BY <2>3 DEF d
<1>3. DepthAt(m, p) <= MaxNesting
  <2> HIDE DEF p
  <2> QED
    BY <1>1, <1>2, WithinDepth
<1>4. stop \in Careful(MaxNesting)
  BY <1>1, StopCareful
<1>5. p = m.frame + Quotient(time * m.speed, 10)
  OBVIOUS
<1> HIDE DEF p, stop
<1>6. /\ t \in Sound
      /\ \/ t = m
         \/ t.frame = 0
         \/ t = [m EXCEPT !.frame = p] /\ 0 <= p /\ p < LengthOf(m)
  BY <1>1, <1>2, <1>3, <1>4, <1>5, TickLands
<1>7. LengthOf(m) \in Nat /\ LengthOf(m) <= F
  <2>1. LengthOf(m) \in Nat /\ (LengthOf(m) = 0 \/ \E id \in Anims : LengthOf(m) = Length[id])
    BY <1>1, SoundTyped, LengthTyped DEF LengthOf
  <2> QED
    BY <1>1, <2>1 DEF Wide
<1>8. [m EXCEPT !.frame = p].frame = p
  BY <1>1, <1>2, Shifted
<1> HIDE DEF t
<1>9. -F <= t.frame /\ t.frame <= F
  <2>1. CASE t = m
    BY <1>1, <2>1
  <2>2. CASE t.frame = 0
    BY <1>1, <2>2
  <2>3. CASE t = [m EXCEPT !.frame = p] /\ 0 <= p /\ p < LengthOf(m)
    <3>1. t.frame = p
      BY <1>8, <2>3
    <3> QED
      BY <1>1, <1>2, <1>7, <2>3, <3>1
  <2> QED
    BY <1>6, <2>1, <2>2, <2>3
<1> QED
  BY <1>6, <1>9 DEF Roaming, t, stop

LEMMA TickNear ==
  ASSUME NEW F, Wide(F), NEW m \in Near(F), NEW time \in Int, -(2 * F) <= time, time <= 2 * F
  PROVE  Tick(m, time) \in Near(F)
<1>1. m \in Roaming(F) /\ m \in Ready /\ m \in Fit
  BY NearSound DEF Wide, Roaming
<1>2. Tick(m, time) \in Roaming(F)
  BY <1>1, TickRoams DEF Tick
<1>3. Tick(m, time) \in Ready
  BY <1>1, Ticked, FollowsReady
<1> QED
  BY <1>2, <1>3, NearIs DEF Roaming

LEMMA SetFrameNear ==
  ASSUME NEW F, Wide(F), NEW m \in Near(F), NEW f \in Int, -F <= f, f <= F
  PROVE  SetFrame(m, f) \in Near(F) /\ SetFrame(m, f).frame = f
<1> DEFINE diff == f - m.frame
           n == Chunks(m, diff)
           time == Quotient(diff, n)
           stop == Stopping[MaxNesting]
           s == Seek(m, time, n, stop)
           P == [i \in 0..n |-> Roaming(F)]
<1>1. /\ m \in Roaming(F) /\ m \in Ready /\ m \in Fit /\ m \in Managers /\ m.frame \in Int
      /\ -F <= m.frame /\ m.frame <= F /\ F \in Nat
  BY NearSound DEF Wide, Roaming
<1>2. diff \in Int /\ -(2 * F) <= diff /\ diff <= 2 * F
  BY <1>1
<1> HIDE DEF diff
<1>3. n \in Nat \ {0}
  BY <1>1, <1>2, ChunksTyped
<1> HIDE DEF n
<1>4. time \in Int /\ -(2 * F) <= time /\ time <= 2 * F
  <2>1. CASE diff >= 0
    <3>1. diff \div n \in Nat /\ diff \div n <= diff /\ time = diff \div n
      BY <1>2, <1>3, <2>1, Division DEF Quotient
    <3> QED
      BY <1>1, <1>2, <3>1
  <2>2. CASE diff < 0
    <3> DEFINE a == -diff
    <3>1. a \in Nat
      BY <1>2, <2>2
    <3>2. time = -(a \div n)
      BY <1>2, <2>2 DEF Quotient
    <3> HIDE DEF a
    <3>3. a \div n \in Nat /\ a \div n <= a
      BY <1>3, <3>1, Division
    <3> QED
      BY <1>1, <1>2, <3>1, <3>2, <3>3 DEF a
  <2> QED
    BY <1>2, <2>1, <2>2
<1> HIDE DEF time
<1>5. stop \in Deeds
  BY StopFits, PlaybackAssumption DEF Stops
<1>6. \A i \in 1..n : \A t \in Managers : t \in P[i - 1] => TickWith(t, time, stop) \in P[i]
  BY <1>3, <1>4, TickRoams
<1>7. m \in P[0] /\ P[n] = Roaming(F) /\ n \in Nat
  BY <1>1, <1>3
<1> HIDE DEF P, stop
<1>8. s \in P[n]
  BY ONLY <1>1, <1>4, <1>5, <1>6, <1>7, SeekAlong
<1>9. s \in Sound
  BY <1>7, <1>8 DEF Roaming
<1>10. SetFrame(m, f) = [s EXCEPT !.frame = f]
  BY DEF SetFrame, SetFrameWith, Arrive, diff, n, time, stop
<1>11. LET x == [s EXCEPT !.frame = f] IN x \in Sound /\ x.frame = f
  BY <1>9, Shifted
<1>12. SetFrame(m, f) \in Ready
  BY <1>1, FrameSet, FollowsReady
<1> QED
  BY <1>10, <1>11, <1>12, NearIs

(* What the controls leave alone. *)
LEMMA Apart ==
  ASSUME NEW m \in Managers, ~m.runaway
  PROVE  /\ \A b : LET t == [m EXCEPT !.paused = b] IN t.frame = m.frame /\ ~t.runaway
         /\ \A c : LET t == [m EXCEPT !.count = c] IN t.frame = m.frame /\ ~t.runaway
         /\ \A s : LET t == [m EXCEPT !.speed = s] IN t.frame = m.frame /\ ~t.runaway
         /\ \A id, l : LET t == AddAnim(m, id, l) IN t.frame = m.frame /\ ~t.runaway
         /\ \A id, l : LET t == SetAnim(m, id, l) IN t.frame = 0 /\ ~t.runaway
<1>1. /\ \A b : LET t == [m EXCEPT !.paused = b] IN t.frame = m.frame /\ t.runaway = m.runaway
      /\ \A c : LET t == [m EXCEPT !.count = c] IN t.frame = m.frame /\ t.runaway = m.runaway
      /\ \A s : LET t == [m EXCEPT !.speed = s] IN t.frame = m.frame /\ t.runaway = m.runaway
  BY DEF Managers
<1>2. \A id, l : LET t == AddAnim(m, id, l) IN t.frame = m.frame /\ t.runaway = m.runaway
  BY DEF Managers, AddAnim
<1>3. \A id, l : LET t == SetAnim(m, id, l) IN t.frame = 0 /\ t.runaway = m.runaway
  BY DEF Managers, SetAnim
<1> QED
  BY <1>1, <1>2, <1>3, Zenon

LEMMA KeptNear ==
  ASSUME NEW F, NEW m \in Near(F), NEW t \in Ready, t.frame = m.frame, ~t.runaway
  PROVE  t \in Near(F)
  BY DEF Near

LEMMA PlayedNear ==
  ASSUME NEW F, NEW m \in Near(F)
  PROVE  \A b \in BOOLEAN : [m EXCEPT !.paused = b] \in Near(F)
<1>1. m \in Ready /\ ~m.runaway /\ m \in Managers
  BY ReadyTyped DEF Near
<1> QED
  BY <1>1, Apart, Played, KeptNear

LEMMA AddedNear ==
  ASSUME NEW F, NEW m \in Near(F), NEW id \in Anims, NEW loops \in LoopChoices
  PROVE  AddAnim(m, id, loops) \in Near(F)
<1>1. m \in Ready /\ ~m.runaway /\ m \in Managers
  BY ReadyTyped DEF Near
<1>2. AddAnim(m, id, loops) \in Ready /\ AddAnim(m, id, loops).frame = m.frame /\ ~AddAnim(m, id, loops).runaway
  BY <1>1, Apart, Added
<1> QED
  BY <1>2, KeptNear

LEMMA ChainedNear ==
  ASSUME NEW F, NEW m \in Near(F), NEW id \in Anims, NEW loops \in LoopChoices
  PROVE  AddSuccessors(m, id, loops) \in Near(F)
<1>1. \A a \in Anims \cup {None} : After(a) \in Anims \cup {None}
  BY PlaybackAssumption DEF After
<1>2. \A t \in Near(F), a \in Anims \cup {None} : AddIfAny(t, a, loops) \in Near(F)
  BY AddedNear DEF AddIfAny
<1> QED
  BY <1>1, <1>2 DEF AddSuccessors

LEMMA FollowedNear ==
  ASSUME panel \in Panels, NEW F, NEW m \in Near(F), NEW id \in Anims
  PROVE  Follow(m, id) \in Near(F)
  BY ChainedNear DEF Follow, Panels

LEMMA SetNear ==
  ASSUME NEW F \in Nat, NEW m \in Ready, ~m.runaway, NEW id \in Anims, NEW loops \in LoopChoices
  PROVE  SetAnim(m, id, loops) \in Near(F)
<1>1. m \in Managers /\ m.speed \in Speeds \cup {10} /\ Counted(m)
  BY DEF Ready, Fit
<1>2. SetAnim(m, id, loops) \in Ready /\ SetAnim(m, id, loops).frame = 0 /\ ~SetAnim(m, id, loops).runaway
  BY <1>1, Apart, AnimSet
<1>3. -F <= 0 /\ 0 <= F
  OBVIOUS
<1> QED
  BY <1>2, <1>3 DEF Near

LEMMA RestartedNear ==
  ASSUME panel \in Panels, NEW F, Wide(F), NEW m \in Near(F), NEW id \in Anims, NEW loops \in LoopChoices
  PROVE  Restart(m, id, loops) \in Near(F)
<1>1. Stop(m) \in Ready /\ ~Stop(m).runaway
  BY StopNear DEF Near
<1>2. SetAnim(Stop(m), id, loops) \in Near(F)
  BY <1>1, SetNear DEF Wide
<1> QED
  BY <1>2, FollowedNear, PlayedNear DEF Restart, Play

LEMMA LoadedNear ==
  ASSUME panel \in Panels, NEW F \in Nat
  PROVE  Load \in Near(F)
<1>1. AnimManager \in Ready /\ ~AnimManager.runaway
  BY NewManager DEF AnimManager
<1>2. SetAnim(AnimManager, Stand, 0) \in Near(F)
  BY <1>1, SetNear, PlaybackAssumption
<1> QED
  BY <1>2, FollowedNear, PlayedNear, PlaybackAssumption DEF Load, Play

LEMMA EmptiedNear ==
  ASSUME NEW F, Wide(F), NEW m \in Near(F)
  PROVE  Clear(m) \in Near(F)
<1> DEFINE s == Stop(m)
           t == [s EXCEPT !.paused = TRUE, !.index = 0, !.count = 0, !.loop = 0, !.frame = 0]
<1>1. s \in Ready /\ ~s.runaway /\ s \in Managers
  BY StopNear, ReadyTyped DEF Near
<1>2. Clear(m) = t /\ t \in Ready
  <2>1. m \in Ready
    BY DEF Near
  <2> QED
    BY <2>1, Emptied DEF Clear
<1> HIDE DEF s
<1>3. t.frame = 0 /\ t.runaway = s.runaway
  BY <1>1 DEF Managers
<1> HIDE DEF t
<1>4. ~t.runaway
  BY <1>1, <1>3, Zenon
<1>5. -F <= 0 /\ 0 <= F
  BY DEF Wide
<1> QED
  BY <1>2, <1>3, <1>4, <1>5 DEF Near

(* A step of the frame buttons goes once beyond, and ticks by as much. *)
LEMMA SteppedNear ==
  ASSUME NEW F, NEW G, Wide(F), Wide(G), NEW reach \in Nat, F + reach <= G,
         \A id \in Anims : Length[id] <= reach,
         NEW m \in Near(F), NEW sign \in {-1, 1}
  PROVE  StepFrame(m, sign) \in Near(G)
<1> DEFINE iv == LengthOf(m) \div FrameIntervals
           d == sign * iv
           p == m.frame + d
           t == [m EXCEPT !.frame = p]
<1>1. /\ m \in Sound /\ m \in Ready /\ m \in Fit /\ m \in Managers /\ m.frame \in Int /\ ~m.runaway
      /\ -F <= m.frame /\ m.frame <= F /\ F \in Nat /\ G \in Nat
  BY NearSound DEF Wide
<1>2. iv \in Nat /\ iv <= reach
  <2>1. LengthOf(m) \in Nat /\ (LengthOf(m) = 0 \/ \E id \in Anims : LengthOf(m) = Length[id])
    BY <1>1, LengthTyped DEF LengthOf
  <2>2. LengthOf(m) <= reach
    BY <2>1
  <2>3. iv \in Nat /\ iv <= LengthOf(m)
    BY <2>1, Division, PlaybackAssumption
  <2> HIDE DEF iv
  <2> QED
    BY <2>1, <2>2, <2>3
<1> HIDE DEF iv
<1>3. d \in Int /\ -reach <= d /\ d <= reach
  BY <1>2
<1>4. StepFrame(m, sign) = Tick(t, d)
  BY DEF StepFrame, iv
<1> HIDE DEF d
<1>5. p \in Int /\ -G <= p /\ p <= G /\ -(2 * G) <= d /\ d <= 2 * G
  BY <1>1, <1>3
<1> HIDE DEF p
<1>6. t \in Sound /\ t.frame = p /\ Alike(m, t)
  BY <1>1, <1>5, Shifted
<1> HIDE DEF t
<1>7. t \in Ready
  BY <1>1, <1>6, SoundTyped DEF Ready, Alike
<1>8. t \in Near(G)
  BY <1>5, <1>6, <1>7, NearIs
<1> QED
  BY <1>3, <1>4, <1>5, <1>8, TickNear

(***************************************************************************)
(* The invariant: each event of the user takes the head farther by no more *)
(* than the reach, so a Stop never runs away.                              *)
(***************************************************************************)
Far(reach) == reach * (clicks + 1)
NearInv(reach) ==
  /\ PlayInv
  /\ clicks \in 0..MaxClicks
  /\ anim \in Near(Far(reach))
  /\ export.saved \in Near(Far(reach))
  /\ export.last <= Far(reach)

LEMMA FarWide ==
  ASSUME NEW reach \in Nat, Moderate(reach), NEW c \in 0..MaxClicks
  PROVE  LET F == reach * (c + 1) IN Wide(F) /\ reach <= F
<1> DEFINE F == reach * (c + 1)
<1>0. MaxClicks \in Nat /\ c \in Nat /\ MaxClicks - c \in Nat
  BY PlaybackAssumption
<1>1. F \in Nat /\ reach <= F
  <2>1. reach * c \in Nat /\ F = reach * c + reach
    BY <1>0
  <2> QED
    BY <2>1
<1>2. 30 * F + 1 <= MaxNesting
  <2> DEFINE G == reach * (MaxClicks + 1)
  <2>1. 30 * reach * (MaxClicks + 1) + 1 <= MaxNesting
    BY DEF Moderate
  <2>2. 30 * reach * (MaxClicks + 1) = 30 * G
    BY <1>0
  <2>3. reach * (MaxClicks - c) \in Nat /\ G = F + reach * (MaxClicks - c)
    BY <1>0
  <2>4. G \in Nat /\ F <= G
    BY <1>0, <1>1, <2>3
  <2> HIDE DEF F, G
  <2>5. 30 * G + 1 <= MaxNesting
    BY <2>1, <2>2
  <2> QED
    BY <1>1, <2>4, <2>5, PlaybackAssumption
<1> HIDE DEF F
<1>3. Brisk
  BY DEF Moderate, Brisk
<1>4. \A id \in Anims : Length[id] <= F
  BY <1>1, PlaybackAssumption DEF Moderate
<1> QED
  BY <1>1, <1>2, <1>3, <1>4 DEF Wide, F

LEMMA Nearer ==
  ASSUME NEW F \in Nat, NEW G \in Nat, F <= G
  PROVE  Near(F) \subseteq Near(G)
<1> SUFFICES ASSUME NEW m \in Near(F) PROVE m \in Near(G)
  OBVIOUS
<1>1. m.frame \in Int
  BY ReadyTyped DEF Near, Managers
<1> QED
  BY <1>1 DEF Near

LEMMA StartsNear ==
  ASSUME NEW reach \in Nat, Moderate(reach)
  PROVE  Init => NearInv(reach)
<1> SUFFICES ASSUME Init PROVE NearInv(reach)
  OBVIOUS
<1>1. PlayInv /\ panel \in Panels
  BY Starts DEF PlayInv
<1>2. clicks = 0 /\ clicks \in 0..MaxClicks /\ anim = Load /\ export = Idle
  BY PlaybackAssumption DEF Init
<1>3. Far(reach) \in Nat
  BY <1>2 DEF Far
<1>4. anim \in Near(Far(reach))
  BY <1>1, <1>2, <1>3, LoadedNear
<1>5. AnimManager \in Near(Far(reach))
  <2>1. AnimManager \in Ready /\ AnimManager.frame = 0 /\ ~AnimManager.runaway
    BY NewManager DEF AnimManager
  <2>2. -Far(reach) <= 0 /\ 0 <= Far(reach)
    BY <1>3
  <2> QED
    BY <2>1, <2>2 DEF Near
<1>6. export.saved = AnimManager /\ export.last = 0
  BY <1>2 DEF Idle
<1> QED
  BY <1>1, <1>2, <1>3, <1>4, <1>5, <1>6 DEF NearInv

(* What the invariant gives to every step. *)
LEMMA NearNow ==
  ASSUME NEW reach \in Nat, Moderate(reach), NearInv(reach)
  PROVE  LET F == Far(reach)
         IN  /\ F \in Nat /\ reach <= F /\ Wide(F) /\ Brisk
             /\ anim \in Near(F) /\ anim.frame \in Int /\ -F <= anim.frame /\ anim.frame <= F
             /\ export.saved \in Near(F) /\ export.saved.frame \in Int
             /\ -F <= export.saved.frame /\ export.saved.frame <= F
             /\ export.last <= F /\ export \in Exports /\ panel \in Panels /\ PlayInv
<1>1. clicks \in 0..MaxClicks /\ anim \in Near(Far(reach)) /\ export.saved \in Near(Far(reach))
      /\ export.last <= Far(reach) /\ PlayInv
  BY DEF NearInv
<1>2. Wide(Far(reach)) /\ reach <= Far(reach)
  BY <1>1, FarWide DEF Far
<1>3. Brisk /\ Far(reach) \in Nat
  BY <1>2 DEF Wide
<1>4. export \in Exports /\ panel \in Panels
  BY <1>1 DEF PlayInv
<1> QED
  BY <1>1, <1>2, <1>3, <1>4, NearSound

(* An event of the user goes one reach farther. *)
LEMMA ClickedNear ==
  ASSUME NEW reach \in Nat, Moderate(reach), NearInv(reach), Click, PlayInv'
  PROVE  LET F == Far(reach)
             G == reach * (clicks + 2)
         IN  /\ G \in Nat /\ F + reach <= G /\ Wide(G) /\ Near(F) \subseteq Near(G)
             /\ anim' \in Near(G) => NearInv(reach)'
<1> DEFINE F == Far(reach)
           G == reach * (clicks + 2)
<1>1. F \in Nat /\ export \in Exports /\ export.saved \in Near(F) /\ export.last <= F
  BY NearNow
<1>2. clicks \in 0..MaxClicks /\ clicks + 1 \in 0..MaxClicks /\ clicks \in Nat
  BY PlaybackAssumption DEF NearInv, Click
<1>3. G = reach * ((clicks + 1) + 1) /\ F = reach * (clicks + 1) /\ G \in Nat /\ G = F + reach
  BY <1>2 DEF Far
<1>4. Wide(G)
  <2>1. Wide(reach * ((clicks + 1) + 1))
    BY <1>2, FarWide
  <2> QED
    BY <1>3, <2>1
<1>5. clicks' = clicks + 1 /\ Far(reach)' = G
  BY <1>2, <1>3 DEF Click, Far
<1> HIDE DEF F, G
<1>6. Near(F) \subseteq Near(G)
  BY <1>1, <1>3, Nearer
<1>7. export'.saved = export.saved /\ export'.last = export.last
  BY <1>1 DEF Exports, Click
<1>8. export.last \in Nat
  BY <1>1 DEF Exports
<1>9. export'.saved \in Near(G) /\ export'.last <= G
  BY <1>1, <1>3, <1>6, <1>7, <1>8
<1>10. ASSUME anim' \in Near(G) PROVE NearInv(reach)'
  BY <1>2, <1>5, <1>9, <1>10 DEF NearInv
<1> QED
  BY <1>3, <1>4, <1>6, <1>10 DEF F, G

LEMMA ButtonsNear ==
  ASSUME NEW reach \in Nat, Moderate(reach)
  PROVE  NearInv(reach) /\ OnButton => NearInv(reach)'
<1> SUFFICES ASSUME NearInv(reach), OnButton PROVE NearInv(reach)'
  OBVIOUS
<1> DEFINE F == Far(reach)
           G == reach * (clicks + 2)
<1>1. /\ F \in Nat /\ Wide(F) /\ anim \in Near(F) /\ panel \in Panels /\ PlayInv /\ Click
  BY NearNow DEF OnButton
<1>2. PlayInv'
  BY <1>1, Buttons
<1>3. /\ G \in Nat /\ F + reach <= G /\ Wide(G) /\ Near(F) \subseteq Near(G)
      /\ anim' \in Near(G) => NearInv(reach)'
  BY <1>1, <1>2, ClickedNear
<1> HIDE DEF F, G
<1>4. CASE anim' = Play(anim)
  BY <1>1, <1>3, <1>4, PlayedNear DEF Play
<1>5. CASE anim' = Pause(anim, FALSE)
  <2>1. (~anim.paused) \in BOOLEAN
    OBVIOUS
  <2> QED
    BY <1>1, <1>3, <1>5, <2>1, PlayedNear, Pausing, ReadyTyped DEF Near
<1>6. CASE anim' = Clear(anim)
  BY <1>1, <1>3, <1>6, EmptiedNear
<1>7. CASE anim' = AddAnim(anim, panel.selected, panel.loops)
  <2>1. anim' \in Near(F)
    BY <1>1, <1>7, AddedNear DEF Panels
  <2> QED
    BY <1>3, <2>1
<1>8. ASSUME NEW sign \in {-1, 1}, anim' = SetFrame(StepFrame(anim, sign), StepFrame(anim, sign).frame)
      PROVE  NearInv(reach)'
  <2> DEFINE m == StepFrame(anim, sign)
  <2>1. \A id \in Anims : Length[id] <= reach
    BY DEF Moderate
  <2>2. m \in Near(G)
    BY <1>1, <1>3, <2>1, SteppedNear
  <2> HIDE DEF m
  <2>3. m.frame \in Int /\ -G <= m.frame /\ m.frame <= G
    BY <1>3, <2>2, NearSound DEF Wide
  <2>4. SetFrame(m, m.frame) \in Near(G)
    BY <1>3, <2>2, <2>3, SetFrameNear
  <2> QED
    BY <1>3, <1>8, <2>4 DEF m
<1> QED
  BY <1>4, <1>5, <1>6, <1>7, <1>8 DEF OnButton

LEMMA ChoicesNear ==
  ASSUME NEW reach \in Nat, Moderate(reach)
  PROVE  NearInv(reach) /\ (OnAnim \/ OnLoop) => NearInv(reach)'
<1> SUFFICES ASSUME NearInv(reach), OnAnim \/ OnLoop PROVE NearInv(reach)'
  OBVIOUS
<1> DEFINE F == Far(reach)
           G == reach * (clicks + 2)
<1>1. /\ F \in Nat /\ Wide(F) /\ anim \in Near(F) /\ panel \in Panels /\ PlayInv /\ Click
  BY NearNow DEF OnAnim, OnLoop
<1>2. PlayInv'
  BY <1>1, Choices
<1>3. Near(F) \subseteq Near(G) /\ (anim' \in Near(G) => NearInv(reach)')
  BY <1>1, <1>2, ClickedNear
<1> HIDE DEF F, G
<1>4. panel.selected \in Anims /\ panel.loops \in LoopChoices
  BY <1>1 DEF Panels
<1>5. anim' = anim \/ \E id \in Anims, n \in LoopChoices : anim' = Restart(anim, id, n)
  BY <1>4 DEF OnAnim, OnLoop
<1> QED
  BY <1>1, <1>3, <1>5, RestartedNear

LEMMA SwitchesNear ==
  ASSUME NEW reach \in Nat, Moderate(reach)
  PROVE  NearInv(reach) /\ (OnStop \/ OnNextAnims \/ OnOldStyle \/ OnSpeed \/ OnFrame \/ UpdateModel)
           => NearInv(reach)'
<1> SUFFICES ASSUME NearInv(reach), OnStop \/ OnNextAnims \/ OnOldStyle \/ OnSpeed \/ OnFrame \/ UpdateModel
             PROVE  NearInv(reach)'
  OBVIOUS
<1> DEFINE F == Far(reach)
           G == reach * (clicks + 2)
<1>1. /\ F \in Nat /\ Wide(F) /\ reach <= F /\ anim \in Near(F) /\ panel \in Panels /\ PlayInv /\ Click
  BY NearNow DEF OnStop, OnNextAnims, OnOldStyle, OnSpeed, OnFrame, UpdateModel
<1>2. PlayInv'
  BY <1>1, Switches
<1>3. G \in Nat /\ Near(F) \subseteq Near(G) /\ (anim' \in Near(G) => NearInv(reach)')
  BY <1>1, <1>2, ClickedNear
<1> HIDE DEF F, G
<1>4. anim \in Ready /\ ~anim.runaway /\ anim \in Managers
  BY <1>1, ReadyTyped DEF Near
<1>5. panel.selected \in Anims /\ panel.loops \in LoopChoices /\ panel' \in Panels
  BY <1>1, <1>2 DEF Panels, PlayInv
<1>6. CASE OnStop
  BY <1>1, <1>3, <1>6, StopNear DEF OnStop
<1>7. CASE OnNextAnims
  <2>1. [anim EXCEPT !.count = 1] \in Near(F)
    BY <1>1, <1>4, Apart, CountCut, KeptNear
  <2>2. AddSuccessors(anim, panel.selected, panel.loops) \in Near(F)
    BY <1>1, <1>5, ChainedNear
  <2> QED
    BY <1>3, <1>7, <2>1, <2>2 DEF OnNextAnims
<1>8. CASE OnOldStyle
  BY <1>1, <1>3, <1>8 DEF OnOldStyle
<1>9. CASE OnSpeed
  <2>1. \A s \in Speeds : [anim EXCEPT !.speed = s] \in Near(F)
    BY <1>1, <1>4, Apart, SpeedSet, KeptNear
  <2> QED
    BY <1>3, <1>9, <2>1 DEF OnSpeed
<1>10. CASE OnFrame
  <2>1. PICK f \in SliderStops : anim' = SetFrame(anim, f)
    BY <1>10 DEF OnFrame
  <2>2. f \in 0..reach
    BY DEF Moderate
  <2>3. f \in Int /\ -F <= f /\ f <= F
    BY <1>1, <2>2
  <2> QED
    BY <1>1, <1>3, <2>1, <2>3, SetFrameNear
<1>11. CASE UpdateModel
  <2>1. anim' = Load
    BY <1>11 DEF UpdateModel
  <2>2. Load \in Near(G)
    BY <1>1, <1>3, LoadedNear
  <2> QED
    BY <1>3, <2>1, <2>2
<1> QED
  BY <1>6, <1>7, <1>8, <1>9, <1>10, <1>11

LEMMA TimerNear ==
  ASSUME NEW reach \in Nat, Moderate(reach)
  PROVE  NearInv(reach) /\ CanvasTick => NearInv(reach)'
<1> SUFFICES ASSUME NearInv(reach), CanvasTick PROVE NearInv(reach)'
  OBVIOUS
<1> DEFINE F == Far(reach)
<1>1. F \in Nat /\ reach <= F /\ Wide(F) /\ anim \in Near(F) /\ PlayInv
  BY NearNow
<1>2. PlayInv' /\ export' = export /\ clicks' = clicks
  BY <1>1, TimerTicks DEF CanvasTick
<1>3. F' = F
  BY <1>2 DEF Far
<1> HIDE DEF F
<1>4. PICK t \in Ticks : anim' = Tick(anim, IF anim.paused THEN 0 ELSE t)
  BY DEF CanvasTick
<1> DEFINE time == IF anim.paused THEN 0 ELSE t
<1>5. t \in 0..reach
  BY DEF Moderate
<1>6. time \in Int /\ -(2 * F) <= time /\ time <= 2 * F
  BY <1>1, <1>5
<1> HIDE DEF time
<1>7. anim' \in Near(F)
  BY <1>1, <1>4, <1>6, TickNear DEF time
<1> QED
  BY <1>2, <1>3, <1>7 DEF NearInv, F

LEMMA ExportStartsNear ==
  ASSUME NEW reach \in Nat, Moderate(reach)
  PROVE  NearInv(reach) /\ StartExport => NearInv(reach)'
<1> SUFFICES ASSUME NearInv(reach), StartExport PROVE NearInv(reach)'
  OBVIOUS
<1> DEFINE F == Far(reach)
           G == reach * (clicks + 2)
<1>1. F \in Nat /\ reach <= F /\ anim \in Near(F) /\ PlayInv /\ anim \in Ready
  BY NearNow DEF Near
<1>2. PlayInv'
  BY <1>1, ExportStarts
<1>3. clicks \in 0..MaxClicks /\ clicks + 1 \in 0..MaxClicks /\ clicks' = clicks + 1 /\ clicks \in Nat
  BY PlaybackAssumption DEF NearInv, StartExport
<1>4. G \in Nat /\ F <= G /\ reach <= G /\ F' = G
  <2>1. G = F + reach
    BY <1>3 DEF Far
  <2>2. F' = G
    BY <1>3 DEF Far
  <2> HIDE DEF F, G
  <2> QED
    BY <1>1, <2>1, <2>2
<1> HIDE DEF F, G
<1>5. Near(F) \subseteq Near(G)
  BY <1>1, <1>4, Nearer
<1>6. PICK r \in Ranges \cup {<<0, LengthOf(anim)>>} :
        export' = [Idle EXCEPT !.on = TRUE, !.first = r[1], !.last = r[2], !.saved = anim]
  BY DEF StartExport
<1>7. export'.saved = anim /\ export'.last = r[2]
  BY <1>6 DEF Idle
<1>8. r[2] \in Nat /\ r[2] <= reach
  <2>1. LengthOf(anim) \in Nat /\ (LengthOf(anim) = 0 \/ \E id \in Anims : LengthOf(anim) = Length[id])
    BY <1>1, ReadyTyped, LengthTyped DEF LengthOf
  <2>2. LengthOf(anim) <= reach
    BY <2>1 DEF Moderate
  <2> QED
    BY <2>1, <2>2, PlaybackAssumption DEF Moderate
<1>9. anim' \in Near(F)
  <2>1. anim' = [anim EXCEPT !.paused = TRUE]
    BY <1>1, Pausing, ReadyTyped DEF StartExport
  <2> QED
    BY <1>1, <2>1, PlayedNear
<1>10. anim' \in Near(G) /\ export'.saved \in Near(G) /\ export'.last <= G
  BY <1>1, <1>4, <1>5, <1>7, <1>8, <1>9
<1> QED
  BY <1>2, <1>3, <1>4, <1>10 DEF NearInv, F

LEMMA PicturesNear ==
  ASSUME NEW reach \in Nat, Moderate(reach)
  PROVE  NearInv(reach) /\ ExportFrame => NearInv(reach)'
<1> SUFFICES ASSUME NearInv(reach), ExportFrame PROVE NearInv(reach)'
  OBVIOUS
<1> DEFINE F == Far(reach)
<1>1. /\ F \in Nat /\ Wide(F) /\ anim \in Near(F) /\ PlayInv /\ export \in Exports /\ export.last <= F
      /\ export.saved \in Near(F)
  BY NearNow
<1>2. PlayInv' /\ clicks' = clicks
  BY <1>1, Pictures DEF ExportFrame
<1>3. F' = F
  BY <1>2 DEF Far
<1> HIDE DEF F
<1>4. FrameTime \in Int /\ -F <= FrameTime /\ FrameTime <= F
  <2>1. export.first \in Nat /\ export.last \in Nat /\ export.index \in Nat /\ Step \in Nat
    BY <1>1, PlaybackAssumption DEF Exports
  <2>2. export.index * Step \in Nat
    BY <2>1
  <2> DEFINE t == export.first + export.index * Step
  <2>3. t \in Nat
    BY <2>1, <2>2
  <2>4. FrameTime = IF t > export.last THEN export.last ELSE t
    BY DEF FrameTime
  <2> HIDE DEF t
  <2> QED
    BY <1>1, <2>1, <2>3, <2>4
<1>5. anim' \in Near(F)
  BY <1>1, <1>4, SetFrameNear DEF ExportFrame
<1>6. export'.saved = export.saved /\ export'.last = export.last
  BY <1>1 DEF ExportFrame, Exports
<1> QED
  BY <1>1, <1>2, <1>3, <1>5, <1>6 DEF NearInv, F

LEMMA EndsNear ==
  ASSUME NEW reach \in Nat, Moderate(reach)
  PROVE  NearInv(reach) /\ ExportEnds => NearInv(reach)'
<1> SUFFICES ASSUME NearInv(reach), ExportEnds PROVE NearInv(reach)'
  OBVIOUS
<1> DEFINE F == Far(reach)
<1>1. /\ F \in Nat /\ Wide(F) /\ anim \in Near(F) /\ PlayInv /\ export.saved.frame \in Int
      /\ -F <= export.saved.frame /\ export.saved.frame <= F
  BY NearNow
<1>2. PlayInv' /\ clicks' = clicks /\ export' = Idle
  BY <1>1, Ends DEF ExportEnds
<1>3. F' = F
  BY <1>2 DEF Far
<1> HIDE DEF F
<1>4. SetFrame(anim, export.saved.frame) \in Near(F)
  BY <1>1, SetFrameNear
<1>5. anim' \in Near(F)
  BY <1>4, PlayedNear DEF ExportEnds, Restored, Play
<1>6. AnimManager \in Near(F)
  <2>1. AnimManager \in Ready /\ AnimManager.frame = 0 /\ ~AnimManager.runaway
    BY NewManager DEF AnimManager
  <2>2. -F <= 0 /\ 0 <= F
    BY <1>1
  <2> QED
    BY <2>1, <2>2 DEF Near
<1>7. export'.saved = AnimManager /\ export'.last = 0 /\ 0 <= F
  BY <1>1, <1>2 DEF Idle
<1>8. export'.saved \in Near(F) /\ export'.last <= F
  BY <1>6, <1>7
<1> QED
  BY <1>2, <1>3, <1>5, <1>8 DEF NearInv, F

LEMMA StepsNear ==
  ASSUME NEW reach \in Nat, Moderate(reach)
  PROVE  NearInv(reach) /\ [Next]_vars => NearInv(reach)'
<1>1. UNCHANGED vars /\ NearInv(reach) => NearInv(reach)'
  <2> SUFFICES ASSUME UNCHANGED vars, NearInv(reach) PROVE NearInv(reach)'
    OBVIOUS
  <2>1. PlayInv'
    BY Steps DEF NearInv
  <2> QED
    BY <2>1 DEF vars, NearInv, Far
<1> QED
  BY <1>1, ButtonsNear, ChoicesNear, SwitchesNear, TimerNear, ExportStartsNear, PicturesNear, EndsNear DEF Next

(* Whatever the clips, the queue, the loops and the order of the events, at
   normal to double speed and with clips that are not too short, Stop comes to
   an end though the seek in it may call it again. *)
THEOREM Returns ==
  ASSUME NEW reach \in Nat, Moderate(reach)
  PROVE  Spec => []StopReturns
<1>1. NearInv(reach) => StopReturns
  BY DEF NearInv, Near, StopReturns
<1>2. Init => NearInv(reach)
  BY StartsNear
<1>3. NearInv(reach) /\ [Next]_vars => NearInv(reach)'
  BY StepsNear
<1> QED
  BY <1>1, <1>2, <1>3, PTL DEF Spec
=============================================================================
