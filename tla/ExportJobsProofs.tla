--------------------------- MODULE ExportJobsProofs ---------------------------
(* Theorems about ExportJobs, for any instances, requests and bounds.      *)
EXTENDS ExportJobs, SequenceTheorems, TLAPS

(* Every step keeps the state well typed. *)
LEMMA TypeStep == TypeOK /\ [Next]_vars => TypeOK'
<1> SUFFICES ASSUME TypeOK, [Next]_vars PROVE TypeOK'
    OBVIOUS
<1> USE RequestAssumption, BoundAssumption
<1>1. CASE UNCHANGED vars
  BY <1>1 DEF TypeOK, vars, uiVars, jobVars, childVars, diskVars
<1>2. ASSUME NEW j \in Jobs, StartStep(j) PROVE TypeOK'
  <2>1. CASE Refuse(j)
    BY <2>1 DEF Refuse, TypeOK, uiVars, childVars, diskVars
  <2>2. CASE Admit(j)
    BY <2>2 DEF Admit, StatusOnStart, NoStatus, TypeOK, uiVars, childVars
  <2>3. CASE WriteLock(j)
    BY <2>3 DEF WriteLock, TypeOK, uiVars, childVars
  <2>4. CASE Spawn(j)
    BY <2>4 DEF Spawn, TimerOnStart, TypeOK, diskVars, Alive
  <2>5. CASE SpawnFails(j)
    BY <2>5 DEF SpawnFails, LockOnSpawnFails, TypeOK, uiVars, childVars
  <2> QED
    BY <1>2, <2>1, <2>2, <2>3, <2>4, <2>5 DEF StartStep
<1>3. ASSUME NEW j \in Jobs, ChildStep(j) PROVE TypeOK'
  <2>1. CASE ChildLine(j)
    <3>1. said[j] + 1 \in 0 .. MaxLines /\ pipe[j] + 1 \in 0 .. MaxLines
      BY <2>1 DEF ChildLine, TypeOK
    <3>2. \A k \in Jobs : pipe'[k] <= said'[k]
      BY <2>1 DEF ChildLine, TypeOK
    <3> QED
      BY <2>1, <3>1, <3>2 DEF ChildLine, TypeOK, uiVars, jobVars, diskVars
  <2>2. CASE ChildOpensTarget(j)
    BY <2>2 DEF ChildOpensTarget, TypeOK, Alive, uiVars, jobVars
  <2>3. CASE ChildFinishesTarget(j)
    BY <2>3 DEF ChildFinishesTarget, TypeOK, Alive, uiVars, jobVars
  <2>4. CASE ChildWritesStatus(j)
    BY <2>4 DEF ChildWritesStatus, TypeOK, Alive, uiVars, jobVars
  <2>5. CASE ChildExits(j)
    BY <2>5 DEF ChildExits, TypeOK, Alive, uiVars, jobVars, diskVars
  <2> QED
    BY <1>3, <2>1, <2>2, <2>3, <2>4, <2>5 DEF ChildStep
<1>4. ASSUME NEW j \in Jobs, ClickCancel(j) PROVE TypeOK'
  BY <1>4 DEF ClickCancel, TypeOK, uiVars, childVars, diskVars
<1>5. ASSUME NEW j \in Jobs, OnTerminate(j) PROVE TypeOK'
  <2>1. /\ IdleAfterDrain(j) \in 0 .. HangKill
        /\ HungAfterDrain(j) \in BOOLEAN
        /\ Verdict(j) \in {"none", "ok", "failed", "cancelled"}
    BY DEF IdleAfterDrain, HungAfterDrain, Verdict, TypeOK
  <2>2. modal' \in [Instances -> Seq(Jobs)]
    <3>1. CASE UNCHANGED modal
      BY <3>1 DEF TypeOK
    <3>2. CASE modal' = [modal EXCEPT ![Inst[j]] = Append(@, j)]
      BY <3>2 DEF TypeOK
    <3> QED
      BY <1>5, <3>1, <3>2 DEF OnTerminate
  <2>3. timer' \in [Instances -> BOOLEAN]
    <3>1. CASE UNCHANGED timer
      BY <3>1 DEF TypeOK
    <3>2. CASE timer' = [timer EXCEPT ![Inst[j]] = @ /\ Others(j) # {}]
      BY <3>2 DEF TypeOK
    <3> QED
      BY <1>5, <3>1, <3>2 DEF OnTerminate
  <2>4. phase' \in [Jobs -> {"new", "checked", "locked", "running",
                             "reporting", "done", "refused", "abandoned"}]
    <3>1. \E s \in {"done", "reporting"} : phase' = [phase EXCEPT ![j] = s]
      BY <1>5 DEF OnTerminate
    <3> QED
      BY <3>1 DEF TypeOK
  <2>5. temp' \in [Jobs -> BOOLEAN]
    BY <1>5 DEF OnTerminate, TempOnFinalize, TypeOK
  <2>6. /\ pipe' \in [Jobs -> 0 .. MaxLines] /\ \A k \in Jobs : pipe'[k] <= said'[k]
        /\ lock' \in [Targets -> {"absent", "fresh", "stale"}]
    BY <1>5 DEF OnTerminate, TypeOK
  <2>7. /\ idle' \in [Jobs -> 0 .. HangKill]
        /\ hung' \in [Jobs -> BOOLEAN]
        /\ result' \in [Jobs -> {"none", "ok", "failed", "cancelled"}]
    BY <1>5, <2>1 DEF OnTerminate, TypeOK
  <2>8. UNCHANGED <<inst, cancel, child, said, status, file, dangling>>
    BY <1>5 DEF OnTerminate
  <2> QED
    BY <2>2, <2>3, <2>4, <2>5, <2>6, <2>7, <2>8 DEF TypeOK
<1>6. ASSUME NEW j \in Jobs, LateTerminate(j) PROVE TypeOK'
  BY <1>6 DEF LateTerminate, TypeOK, uiVars, jobVars, childVars, diskVars
<1>7. ASSUME NEW i \in Instances, Poll(i) PROVE TypeOK'
  <2>1. \A j \in Jobs : IdleAfterDrain(j) \in 0 .. HangKill
    BY DEF IdleAfterDrain, TypeOK
  <2>2. \A j \in Jobs : (HungAfterDrain(j) \/ Warned(j)) \in BOOLEAN
    BY DEF HungAfterDrain, Warned, TypeOK
  <2>3. /\ pipe' \in [Jobs -> 0 .. MaxLines] /\ \A k \in Jobs : pipe'[k] <= said'[k]
        /\ cancel' \in [Jobs -> {"no", "asked", "sent"}]
        /\ child' \in [Jobs -> Alive \cup {"none", "dead"}]
    BY <1>7 DEF Poll, TypeOK
  <2>4. timer' \in [Instances -> BOOLEAN]
    BY <1>7 DEF Poll, TypeOK
  <2>5. idle' \in [Jobs -> 0 .. HangKill]
    BY <1>7, <2>1 DEF Poll, TypeOK
  <2>6. hung' \in [Jobs -> BOOLEAN]
    BY <1>7, <2>2 DEF Poll, TypeOK
  <2>7. UNCHANGED <<inst, modal, phase, result, temp, said, diskVars, dangling>>
    BY <1>7 DEF Poll
  <2> QED
    BY <2>3, <2>4, <2>5, <2>6, <2>7 DEF TypeOK, diskVars
<1>8. ASSUME NEW i \in Instances, DismissBox(i) PROVE TypeOK'
  <2> DEFINE s == modal[i]
  <2>1. s \in Seq(Jobs) /\ s # <<>>
    BY <1>8 DEF DismissBox, TypeOK
  <2>2. SubSeq(s, 1, Len(s) - 1) \in Seq(Jobs)
    BY <2>1
  <2>3. modal' = [modal EXCEPT ![i] = SubSeq(s, 1, Len(s) - 1)]
    BY <1>8 DEF DismissBox
  <2>4. modal' \in [Instances -> Seq(Jobs)]
    BY <2>2, <2>3 DEF TypeOK
  <2>5. timer' \in [Instances -> BOOLEAN]
    BY <1>8 DEF DismissBox, TypeOK
  <2>6. phase' \in [Jobs -> {"new", "checked", "locked", "running",
                             "reporting", "done", "refused", "abandoned"}]
    BY <1>8 DEF DismissBox, TypeOK
  <2>7. UNCHANGED <<inst, cancel, idle, hung, result, temp, childVars, diskVars, dangling>>
    BY <1>8 DEF DismissBox
  <2> QED
    BY <2>4, <2>5, <2>6, <2>7 DEF TypeOK, childVars, diskVars
<1>9. ASSUME NEW i \in Instances, CloseApp(i) PROVE TypeOK'
  BY <1>9 DEF CloseApp, TypeOK, childVars, diskVars
<1>10. ASSUME NEW i \in Instances, EndDrain(i) PROVE TypeOK'
  BY <1>10 DEF EndDrain, TypeOK, jobVars, childVars, diskVars
<1>11. CASE Tick
  <2>1. idle' \in [Jobs -> 0 .. HangKill]
    BY <1>11 DEF Tick, TypeOK
  <2> QED
    BY <1>11, <2>1 DEF Tick, TypeOK, uiVars, childVars, diskVars
<1>12. ASSUME NEW t \in Targets, AgeLock(t) PROVE TypeOK'
  BY <1>12 DEF AgeLock, TypeOK, uiVars, jobVars, childVars
<1> QED
  BY <1>1, <1>2, <1>3, <1>4, <1>5, <1>6, <1>7, <1>8, <1>9, <1>10, <1>11, <1>12
     DEF Next, UIStep

LEMMA InitTyped == Init => TypeOK
<1> SUFFICES ASSUME Init PROVE TypeOK
    OBVIOUS
<1>1. NoStatus \in [by : Jobs \cup {NoJob}, ok : BOOLEAN]
  BY DEF NoStatus
<1>2. [by |-> NoJob, ok |-> TRUE] \in [by : Jobs \cup {NoJob}, ok : BOOLEAN]
  OBVIOUS
<1>3. status \in [Targets -> [by : Jobs \cup {NoJob}, ok : BOOLEAN]]
  BY <1>1, <1>2 DEF Init
<1>4. /\ idle \in [Jobs -> 0 .. HangKill]
      /\ said \in [Jobs -> 0 .. MaxLines]
      /\ pipe \in [Jobs -> 0 .. MaxLines] /\ \A j \in Jobs : pipe[j] <= said[j]
  BY BoundAssumption DEF Init
<1>5. modal \in [Instances -> Seq(Jobs)]
  BY DEF Init
<1> QED
  BY <1>3, <1>4, <1>5 DEF Init, TypeOK

(* The state of the manager stays well typed. *)
THEOREM Typing == Spec => []TypeOK
<1>1. Init => TypeOK
  BY InitTyped
<1>2. TypeOK /\ [Next]_vars => TypeOK'
  BY TypeStep
<1> QED
  BY <1>1, <1>2, PTL DEF Spec
-----------------------------------------------------------------------------
(* No duplicate job *)

Starting(j) == phase[j] \in {"checked", "locked"}

(* startExport runs to its end on the UI thread: one start at a time, and  *)
(* what findActiveByKey answered is still true when the job is launched.   *)
OneStart       == \A j, k \in Jobs : Starting(j) /\ Starting(k) /\ Inst[j] = Inst[k] => j = k
StartStillFree == \A j \in Jobs : Starting(j) => ~FindActiveByKey(j)

DupInv == TypeOK /\ OneStart /\ StartStillFree /\ NoDuplicateActive

(* Only Spawn makes a job run and only Admit begins a start. *)
LEMMA PhaseStep ==
  ASSUME TypeOK, [Next]_vars
  PROVE  \A j \in Jobs :
           /\ phase'[j] = "running" => phase[j] = "running" \/ Spawn(j)
           /\ Starting(j)' => Starting(j) \/ Admit(j)
<1> USE RequestAssumption
<1>1. CASE UNCHANGED phase
  BY <1>1 DEF Starting
<1>2. ASSUME NEW j \in Jobs, StartStep(j)
      PROVE  \A k \in Jobs :
               /\ phase'[k] = "running" => phase[k] = "running" \/ Spawn(k)
               /\ Starting(k)' => Starting(k) \/ Admit(k)
  BY <1>2 DEF StartStep, Refuse, Admit, WriteLock, Spawn, SpawnFails, Starting, TypeOK
<1>3. ASSUME NEW j \in Jobs, OnTerminate(j)
      PROVE  \A k \in Jobs :
               /\ phase'[k] = "running" => phase[k] = "running"
               /\ Starting(k)' => Starting(k)
  BY <1>3 DEF OnTerminate, Starting, TypeOK
<1>4. ASSUME NEW i \in Instances, DismissBox(i)
      PROVE  \A k \in Jobs :
               /\ phase'[k] = "running" => phase[k] = "running"
               /\ Starting(k)' => Starting(k)
  BY <1>4 DEF DismissBox, Starting, TypeOK
<1>5. ASSUME NEW i \in Instances, CloseApp(i)
      PROVE  \A k \in Jobs :
               /\ phase'[k] = "running" => phase[k] = "running"
               /\ Starting(k)' => Starting(k)
  BY <1>5 DEF CloseApp, Starting, TypeOK
<1>6. ASSUME NEW j \in Jobs, ChildStep(j) \/ ClickCancel(j) \/ LateTerminate(j)
      PROVE  UNCHANGED phase
  BY <1>6 DEF ChildStep, ChildLine, ChildOpensTarget, ChildFinishesTarget,
     ChildWritesStatus, ChildExits, ClickCancel, LateTerminate, jobVars
<1>7. ASSUME NEW i \in Instances, Poll(i) \/ EndDrain(i)
      PROVE  UNCHANGED phase
  BY <1>7 DEF Poll, EndDrain, jobVars
<1>8. ASSUME NEW t \in Targets, AgeLock(t) PROVE UNCHANGED phase
  BY <1>8 DEF AgeLock, jobVars
<1>9. CASE Tick
  BY <1>9, <1>1 DEF Tick
<1>10. CASE UNCHANGED vars
  BY <1>10, <1>1 DEF vars, jobVars
<1> QED
  BY <1>1, <1>2, <1>3, <1>4, <1>5, <1>6, <1>7, <1>8, <1>9, <1>10 DEF Next, UIStep

LEMMA DupStep == DupInv /\ [Next]_vars => DupInv'
<1> SUFFICES ASSUME DupInv, [Next]_vars PROVE DupInv'
    OBVIOUS
<1> USE RequestAssumption
<1>1. TypeOK'
  BY TypeStep DEF DupInv
<1>2. \A j \in Jobs : /\ phase'[j] = "running" => phase[j] = "running" \/ Spawn(j)
                      /\ Starting(j)' => Starting(j) \/ Admit(j)
  BY PhaseStep DEF DupInv
<1>3. \A j \in Jobs : Spawn(j) => Starting(j)
  BY DEF Spawn, Starting
<1>4. \A j, k \in Jobs : Spawn(j) /\ Spawn(k) => j = k
  BY DEF Spawn, TypeOK, DupInv
<1>5. \A j, k \in Jobs : Admit(j) /\ Admit(k) => j = k
  BY DEF Admit, CanRequest, TypeOK, DupInv
<1>6. \A j, k \in Jobs : Admit(j) /\ Inst[k] = Inst[j] => ~Starting(k)
  BY DEF Admit, CanRequest, AtLoop, Starting
<1>7. \A j, k \in Jobs : ~(Admit(j) /\ Spawn(k))
  <2> SUFFICES ASSUME NEW j \in Jobs, NEW k \in Jobs, Admit(j), Spawn(k) PROVE FALSE
    OBVIOUS
  <2>1. phase \in [Jobs -> {"new", "checked", "locked", "running",
                            "reporting", "done", "refused", "abandoned"}]
    BY DEF DupInv, TypeOK
  <2>2. phase[k] = "locked" /\ phase' = [phase EXCEPT ![k] = "running"]
    BY DEF Spawn
  <2>3. phase[j] = "new" /\ phase' = [phase EXCEPT ![j] = "checked"]
    BY DEF Admit, CanRequest
  <2>4. phase'[j] = "checked" /\ phase'[k] = "running"
    BY <2>1, <2>2, <2>3
  <2> QED
    BY <2>1, <2>2, <2>3, <2>4
<1>8. OneStart'
  BY <1>2, <1>5, <1>6 DEF OneStart, DupInv
<1>9. NoDuplicateActive'
  <2> SUFFICES ASSUME NEW j \in Jobs, NEW k \in Jobs,
                      phase'[j] = "running", phase'[k] = "running",
                      Inst[j] = Inst[k], AssetKey(j) = AssetKey(k)
               PROVE  j = k
    BY DEF NoDuplicateActive, AssetKey
  <2>1. CASE phase[j] = "running" /\ phase[k] = "running"
    BY <2>1 DEF DupInv, NoDuplicateActive
  <2>2. ASSUME NEW p \in Jobs, NEW q \in Jobs, Spawn(p), phase[q] = "running",
               Inst[p] = Inst[q]
        PROVE  AssetKey(p) # AssetKey(q)
    BY <2>2, <1>3 DEF DupInv, StartStillFree, FindActiveByKey, Running
  <2> QED
    BY <1>2, <1>4, <2>1, <2>2
<1>10. \A j \in Jobs : Spawn(j) => ~Starting(j)'
  BY DEF Spawn, Starting, TypeOK, DupInv
<1>11. StartStillFree'
  <2> SUFFICES ASSUME NEW j \in Jobs, Starting(j)',
                      NEW k \in Jobs, Inst[k] = Inst[j], phase'[k] = "running",
                      AssetKey(k) = AssetKey(j)
               PROVE  FALSE
    BY DEF StartStillFree, FindActiveByKey, Running, AssetKey
  <2>1. CASE Starting(j) /\ phase[k] = "running"
    BY <2>1 DEF DupInv, StartStillFree, FindActiveByKey, Running
  <2>2. CASE Starting(j) /\ Spawn(k)
    BY <2>2, <1>3, <1>10 DEF DupInv, OneStart
  <2>3. CASE Admit(j) /\ phase[k] = "running"
    BY <2>3 DEF Admit, FindActiveByKey, Running
  <2>4. CASE Admit(j) /\ Spawn(k)
    BY <2>4, <1>7
  <2> QED
    BY <1>2, <2>1, <2>2, <2>3, <2>4
<1> QED
  BY <1>1, <1>8, <1>9, <1>11 DEF DupInv

(* findActiveByKey is enough: with any number of instances, whether or not
   the lock sidecars exist, no instance runs two jobs with the same key. *)
THEOREM NoDuplicate == Spec => []NoDuplicateActive
<1>1. Init => DupInv
  BY InitTyped DEF Init, DupInv, OneStart, StartStillFree, NoDuplicateActive, Starting
<1>2. DupInv => NoDuplicateActive
  BY DEF DupInv
<1> QED
  BY <1>1, <1>2, DupStep, PTL DEF Spec
-----------------------------------------------------------------------------
(* Boxes, timer, lock and temporary file of a job *)

(* A box belongs to a job of its instance whose result is in.              *)
Boxed == \A i \in Instances : \A n \in DOMAIN modal[i] :
            Inst[modal[i][n]] = i /\ phase[modal[i][n]] \in {"reporting", "done"}

(* A job whose result is shown never runs again. *)
LEMMA BoxStep == TypeOK /\ Boxed /\ [Next]_vars => Boxed'
<1> SUFFICES ASSUME TypeOK, Boxed, [Next]_vars PROVE Boxed'
    OBVIOUS
<1> USE RequestAssumption
<1> DEFINE Shown == {"reporting", "done"}
<1>1. \A i \in Instances : \A n \in DOMAIN modal[i] : modal[i][n] \in Jobs
  BY DEF TypeOK
<1>2. ASSUME UNCHANGED modal, \A j \in Jobs : phase[j] \in Shown => phase'[j] \in Shown
      PROVE  Boxed'
  BY <1>1, <1>2 DEF Boxed
<1>3. ASSUME NEW j \in Jobs, StartStep(j) PROVE Boxed'
  <2>1. UNCHANGED modal
    BY <1>3 DEF StartStep, Refuse, Admit, WriteLock, Spawn, SpawnFails, uiVars
  <2>2. phase[j] \notin Shown /\ \A k \in Jobs \ {j} : phase'[k] = phase[k]
    BY <1>3 DEF StartStep, Refuse, Admit, CanRequest, WriteLock, Spawn, SpawnFails, TypeOK
  <2> QED
    BY <1>2, <2>1, <2>2
<1>4. ASSUME NEW j \in Jobs, ChildStep(j) \/ ClickCancel(j) \/ LateTerminate(j) PROVE Boxed'
  BY <1>2, <1>4 DEF ChildStep, ChildLine, ChildOpensTarget, ChildFinishesTarget,
     ChildWritesStatus, ChildExits, ClickCancel, LateTerminate, jobVars, uiVars
<1>5. ASSUME NEW j \in Jobs, OnTerminate(j) PROVE Boxed'
  <2>1. phase'[j] \in Shown /\ \A k \in Jobs \ {j} : phase'[k] = phase[k]
    BY <1>5 DEF OnTerminate, TypeOK
  <2>2. CASE UNCHANGED modal
    BY <1>2, <2>1, <2>2
  <2>3. CASE modal' = [modal EXCEPT ![Inst[j]] = Append(@, j)]
    <3> SUFFICES ASSUME NEW i \in Instances, NEW n \in DOMAIN modal'[i]
                 PROVE  Inst[modal'[i][n]] = i /\ phase'[modal'[i][n]] \in Shown
      BY DEF Boxed
    <3>1. CASE i # Inst[j]
      <4>1. modal'[i] = modal[i]
        BY <2>3, <3>1 DEF TypeOK
      <4> QED
        BY <1>1, <2>1, <4>1 DEF Boxed
    <3>2. CASE i = Inst[j]
      <4>1. modal[i] \in Seq(Jobs) /\ modal'[i] = Append(modal[i], j)
        BY <2>3, <3>2 DEF TypeOK
      <4>2. (n \in DOMAIN modal[i] /\ modal'[i][n] = modal[i][n]) \/ modal'[i][n] = j
        BY <4>1
      <4> QED
        BY <1>1, <2>1, <3>2, <4>2 DEF Boxed
    <3> QED
      BY <3>1, <3>2
  <2> QED
    BY <1>5, <2>2, <2>3 DEF OnTerminate
<1>6. ASSUME NEW i \in Instances, DismissBox(i) PROVE Boxed'
  <2> DEFINE s == modal[i]
             j == s[Len(s)]
  <2>1. /\ s \in Seq(Jobs) /\ s # <<>>
        /\ modal' = [modal EXCEPT ![i] = SubSeq(s, 1, Len(s) - 1)]
        /\ phase' = [phase EXCEPT ![j] = "done"]
    BY <1>6 DEF DismissBox, TypeOK
  <2>2. \A k \in Jobs : phase[k] \in Shown => phase'[k] \in Shown
    <3>1. phase \in [Jobs -> {"new", "checked", "locked", "running",
                              "reporting", "done", "refused", "abandoned"}]
      BY DEF TypeOK
    <3> HIDE DEF j
    <3> QED
      BY ONLY <2>1, <3>1
  <2>3. \A k \in Instances \ {i} : modal'[k] = modal[k]
    BY <2>1 DEF TypeOK
  <2>4. \A n \in DOMAIN modal'[i] : n \in DOMAIN s /\ modal'[i][n] = s[n]
    <3>1. modal'[i] = SubSeq(s, 1, Len(s) - 1)
      BY <2>1 DEF TypeOK
    <3> HIDE DEF s, j
    <3>2. Len(s) \in Nat /\ DOMAIN s = 1..Len(s) /\ Len(s) # 0
      BY ONLY <2>1
    <3>3. /\ DOMAIN SubSeq(s, 1, Len(s) - 1) = 1..(Len(s) - 1)
          /\ \A n \in 1..(Len(s) - 1) : SubSeq(s, 1, Len(s) - 1)[n] = s[n]
      BY ONLY <2>1, <3>2
    <3> QED
      BY ONLY <3>1, <3>2, <3>3
  <2> QED
    BY <1>1, <2>2, <2>3, <2>4 DEF Boxed
<1>7. ASSUME NEW i \in Instances, CloseApp(i) PROVE Boxed'
  <2>1. UNCHANGED modal /\ \A j \in Jobs : phase[j] # "running" => phase'[j] = phase[j]
    BY <1>7 DEF CloseApp, Running
  <2> QED
    BY <1>2, <2>1
<1>8. ASSUME NEW i \in Instances, Poll(i) \/ EndDrain(i) PROVE Boxed'
  BY <1>2, <1>8 DEF Poll, EndDrain, jobVars
<1>9. ASSUME NEW t \in Targets, AgeLock(t) PROVE Boxed'
  BY <1>2, <1>9 DEF AgeLock, jobVars, uiVars
<1>10. CASE Tick
  BY <1>2, <1>10 DEF Tick, uiVars
<1>11. CASE UNCHANGED vars
  BY <1>2, <1>11 DEF vars, jobVars, uiVars
<1> QED
  BY <1>3, <1>4, <1>5, <1>6, <1>7, <1>8, <1>9, <1>10, <1>11 DEF Next, UIStep

CareInv == TypeOK /\ Boxed /\ PollerRuns /\ FreshLockHasHolder /\ TempRemoved

(* The timer outlives every job that runs, and who ends cleans up. *)
LEMMA CareStep == CareInv /\ [Next]_vars => CareInv'
<1> SUFFICES ASSUME CareInv, [Next]_vars PROVE CareInv'
    OBVIOUS
<1> USE RequestAssumption DEF CareInv
<1> DEFINE Goal == PollerRuns' /\ FreshLockHasHolder' /\ TempRemoved'
<1>1. ASSUME UNCHANGED <<phase, timer, temp>>,
             \A t \in Targets : lock'[t] = "fresh" => lock[t] = "fresh"
      PROVE  Goal
  BY <1>1 DEF PollerRuns, FreshLockHasHolder, TempRemoved
<1>2. ASSUME NEW j \in Jobs, StartStep(j) PROVE Goal
  <2>1. CASE Refuse(j)
    BY <2>1 DEF Refuse, CanRequest, TypeOK, uiVars, diskVars,
       PollerRuns, FreshLockHasHolder, TempRemoved
  <2>2. CASE Admit(j)
    BY <2>2 DEF Admit, CanRequest, TypeOK, uiVars, PollerRuns, FreshLockHasHolder, TempRemoved
  <2>3. CASE WriteLock(j)
    BY <2>3 DEF WriteLock, TypeOK, uiVars, PollerRuns, FreshLockHasHolder, TempRemoved
  <2>4. CASE Spawn(j)
    BY <2>4 DEF Spawn, TimerOnStart, TypeOK, diskVars, PollerRuns, FreshLockHasHolder, TempRemoved
  <2>5. CASE SpawnFails(j)
    BY <2>5 DEF SpawnFails, LockOnSpawnFails, TypeOK, uiVars,
       PollerRuns, FreshLockHasHolder, TempRemoved
  <2> QED
    BY <1>2, <2>1, <2>2, <2>3, <2>4, <2>5 DEF StartStep
<1>3. ASSUME NEW j \in Jobs, ChildStep(j) \/ ClickCancel(j) \/ LateTerminate(j) PROVE Goal
  BY <1>1, <1>3 DEF ChildStep, ChildLine, ChildOpensTarget, ChildFinishesTarget,
     ChildWritesStatus, ChildExits, ClickCancel, LateTerminate, uiVars, jobVars, diskVars
<1>4. ASSUME NEW j \in Jobs, OnTerminate(j) PROVE Goal
  <2>1. /\ phase[j] = "running" /\ phase'[j] \in {"reporting", "done"}
        /\ \A k \in Jobs \ {j} : phase'[k] = phase[k]
    BY <1>4 DEF OnTerminate, TypeOK
  <2>2. PollerRuns'
    <3> SUFFICES ASSUME NEW k \in Jobs, phase'[k] = "running" PROVE timer'[Inst[k]]
      BY DEF PollerRuns
    <3>1. k # j /\ phase[k] = "running" /\ timer[Inst[k]]
      BY <2>1 DEF PollerRuns
    <3>2. Inst[k] = Inst[j] => k \in Others(j)
      BY <3>1 DEF Others, InList
    <3>3. timer' = timer \/ timer' = [timer EXCEPT ![Inst[j]] = @ /\ Others(j) # {}]
      BY <1>4 DEF OnTerminate
    <3>4. timer \in [Instances -> BOOLEAN] /\ Inst[k] \in Instances /\ Inst[j] \in Instances
      BY DEF TypeOK
    <3>5. CASE Inst[k] = Inst[j]
      BY <3>1, <3>2, <3>3, <3>4, <3>5
    <3>6. CASE Inst[k] # Inst[j]
      BY <3>1, <3>3, <3>4, <3>6
    <3> QED
      BY <3>5, <3>6
  <2>3. FreshLockHasHolder'
    <3>1. lock' = [lock EXCEPT ![Target[j]] = "absent"] /\ lock \in [Targets -> {"absent", "fresh", "stale"}]
      BY <1>4 DEF OnTerminate, TypeOK
    <3> QED
      BY <2>1, <3>1 DEF FreshLockHasHolder
  <2>4. TempRemoved'
    BY <1>4, <2>1 DEF OnTerminate, TempOnFinalize, TypeOK, TempRemoved
  <2> QED
    BY <2>2, <2>3, <2>4
<1>5. ASSUME NEW i \in Instances, Poll(i) PROVE Goal
  <2>1. PollerRuns'
    BY <1>5 DEF Poll, InList, TypeOK, PollerRuns
  <2> QED
    BY <1>5, <2>1 DEF Poll, diskVars, FreshLockHasHolder, TempRemoved
<1>6. ASSUME NEW i \in Instances, DismissBox(i) PROVE Goal
  <2> DEFINE j == modal[i][Len(modal[i])]
  <2>1. /\ phase' = [phase EXCEPT ![j] = "done"]
        /\ timer' = [timer EXCEPT ![i] = @ /\ Others(j) # {}]
        /\ UNCHANGED <<temp, lock>>
    BY <1>6 DEF DismissBox, diskVars
  <2>2. j \in Jobs /\ Inst[j] = i /\ phase[j] \in {"reporting", "done"}
    <3>1. modal[i] \in Seq(Jobs) /\ modal[i] # <<>>
      BY <1>6 DEF DismissBox, TypeOK
    <3>2. Len(modal[i]) \in DOMAIN modal[i] /\ j \in Jobs
      BY <3>1
    <3> QED
      BY <3>2 DEF Boxed
  <2>3. phase'[j] = "done" /\ \A k \in Jobs \ {j} : phase'[k] = phase[k]
    <3> HIDE DEF j
    <3> QED
      BY <2>1, <2>2 DEF TypeOK
  <2>4. PollerRuns'
    <3> SUFFICES ASSUME NEW k \in Jobs, phase'[k] = "running" PROVE timer'[Inst[k]]
      BY DEF PollerRuns
    <3> HIDE DEF j
    <3>1. k # j /\ phase[k] = "running" /\ timer[Inst[k]]
      BY <2>3 DEF PollerRuns
    <3>2. Inst[k] = i => k \in Others(j)
      BY <2>2, <3>1 DEF Others, InList
    <3> QED
      BY <2>1, <3>1, <3>2 DEF TypeOK
  <2>5. FreshLockHasHolder' /\ TempRemoved'
    <3> HIDE DEF j
    <3> QED
      BY <2>1, <2>2, <2>3 DEF FreshLockHasHolder, TempRemoved
  <2> QED
    BY <2>4, <2>5
<1>7. ASSUME NEW i \in Instances, CloseApp(i) PROVE Goal
  <2>1. \A k \in Jobs : phase'[k] = IF Inst[k] = i /\ phase[k] = "running" THEN "abandoned" ELSE phase[k]
    BY <1>7 DEF CloseApp, Running
  <2>2. timer' = [timer EXCEPT ![i] = FALSE] /\ UNCHANGED <<temp, lock>>
    BY <1>7 DEF CloseApp, diskVars
  <2>3. PollerRuns'
    <3>1. timer \in [Instances -> BOOLEAN]
      BY DEF TypeOK
    <3> QED
      BY <2>1, <2>2, <3>1 DEF PollerRuns
  <2>4. FreshLockHasHolder'
    BY <2>1, <2>2 DEF FreshLockHasHolder
  <2>5. TempRemoved'
    BY <2>1, <2>2 DEF TempRemoved
  <2> QED
    BY <2>3, <2>4, <2>5
<1>8. ASSUME NEW i \in Instances, EndDrain(i) PROVE Goal
  BY <1>1, <1>8 DEF EndDrain, jobVars, diskVars
<1>9. ASSUME NEW t \in Targets, AgeLock(t) PROVE Goal
  BY <1>1, <1>9 DEF AgeLock, TypeOK, uiVars, jobVars
<1>10. ASSUME Tick PROVE Goal
  BY <1>1, <1>10 DEF Tick, uiVars, diskVars
<1>11. ASSUME UNCHANGED vars PROVE Goal
  BY <1>1, <1>11 DEF vars, uiVars, jobVars, diskVars
<1>12. Goal
  BY <1>2, <1>3, <1>4, <1>5, <1>6, <1>7, <1>8, <1>9, <1>10, <1>11 DEF Next, UIStep
<1> QED
  BY <1>12, TypeStep, BoxStep

(* m_pollTimer: however boxes nest and jobs end in between, the watchdog of
   an open instance runs as long as one of its jobs does. *)
THEOREM Watched == Spec => []PollerRuns
<1>1. Init => CareInv
  BY InitTyped DEF Init, CareInv, Boxed, PollerRuns, FreshLockHasHolder, TempRemoved
<1>2. CareInv => PollerRuns
  BY DEF CareInv
<1> QED
  BY <1>1, <1>2, CareStep, PTL DEF Spec

(* startExport and finalize: a fresh lock has a job that holds it or was
   abandoned with it, and a job that was launched and ended leaves no
   temporary .chr. *)
THEOREM CleansUp == Spec => [](FreshLockHasHolder /\ TempRemoved)
<1>1. Init => CareInv
  BY InitTyped DEF Init, CareInv, Boxed, PollerRuns, FreshLockHasHolder, TempRemoved
<1>2. CareInv => FreshLockHasHolder /\ TempRemoved
  BY DEF CareInv
<1> QED
  BY <1>1, <1>2, CareStep, PTL DEF Spec

(* onPoll drains before it judges: whatever the limits are, a child whose
   progress waits in the pipe is killed only for the user who cancelled. *)
THEOREM DrainsFirst == Spec => OnlySilentKilled
<1>1. ASSUME TypeOK, NEW i \in Instances, Poll(i), NEW j \in Running(i),
             pipe[j] > 0, child[j] \in Alive, child'[j] = "dead"
      PROVE  cancel[j] = "asked"
  <2>1. j \in Jobs /\ child' = [k \in Jobs |-> IF k \in Running(i) /\ Killed(k) THEN "dead" ELSE child[k]]
    BY <1>1 DEF Poll, Running
  <2>2. Killed(j)
    BY <1>1, <2>1 DEF Alive
  <2>3. ~(IdleAfterDrain(j) >= HangKill)
    BY <1>1, BoundAssumption DEF IdleAfterDrain
  <2> QED
    BY <2>2, <2>3 DEF Killed, Wedged, Cancels
<1>2. TypeOK /\ [Next]_vars =>
         [\A i \in Instances : Poll(i) =>
             \A j \in Running(i) : pipe[j] > 0 /\ child[j] \in Alive /\ child'[j] = "dead"
                                   => cancel[j] = "asked"]_vars
  BY <1>1
<1> QED
  BY <1>2, Typing, PTL DEF Spec, OnlySilentKilled
-----------------------------------------------------------------------------
(* One writer per target *)

(* The lock can be relied on: it is always created, it never goes stale    *)
(* under a running export, and no other instance tests it meanwhile.       *)
LockReliable == /\ \A i, k \in Instances : i = k
                /\ ~LockMayFail /\ ~LongExports

(* Admitted requests and live or abandoned jobs each claim their target.   *)
Claims(j)       == phase[j] \in {"checked", "locked", "running", "abandoned"}
OneClaim        == \A j, k \in Jobs : Claims(j) /\ Claims(k) /\ Target[j] = Target[k] => j = k
LockHeld        == \A j \in Jobs : phase[j] \in {"locked", "running"} => lock[Target[j]] = "fresh"
ChildSupervised == \A j \in Jobs : child[j] \in Alive => phase[j] \in {"running", "abandoned"}
ClosedLast      == \A j \in Jobs : /\ phase[j] = "abandoned" => inst[Inst[j]] # "open"
                                   /\ Starting(j) => inst[Inst[j]] = "open"

LockInv == TypeOK /\ OneClaim /\ LockHeld /\ ChildSupervised /\ ClosedLast /\ Boxed

LEMMA ClaimStart ==
  ASSUME LockReliable, LockInv, NEW j \in Jobs, StartStep(j)
  PROVE  OneClaim' /\ LockHeld' /\ ChildSupervised' /\ ClosedLast'
<1> USE RequestAssumption DEF LockInv
<1>1. CASE Refuse(j)
  <2>1. phase' = [phase EXCEPT ![j] = "refused"] /\ UNCHANGED <<lock, child, inst>>
    BY <1>1 DEF Refuse, diskVars, childVars, uiVars
  <2>2. phase[j] = "new"
    BY <1>1 DEF Refuse, CanRequest
  <2> QED
    BY <2>1, <2>2 DEF OneClaim, Claims, LockHeld, ChildSupervised, ClosedLast, Starting, TypeOK
<1>2. CASE Admit(j)
  <2>1. /\ phase[j] = "new" /\ phase' = [phase EXCEPT ![j] = "checked"]
        /\ lock[Target[j]] # "fresh" /\ lock' = [lock EXCEPT ![Target[j]] = "absent"]
        /\ inst[Inst[j]] = "open" /\ \A k \in Jobs : Inst[k] = Inst[j] => ~Starting(k)
        /\ UNCHANGED <<child, inst>>
    BY <1>2 DEF Admit, CanRequest, AtLoop, LockBlocks, Starting, childVars, uiVars
  <2>2. \A k \in Jobs : Inst[k] = Inst[j]
    BY DEF LockReliable
  <2>3. \A k \in Jobs : Claims(k) => Target[k] # Target[j]
    BY <2>1, <2>2 DEF Claims, LockHeld, ClosedLast, Starting
  <2>4. OneClaim'
    BY <2>1, <2>3 DEF OneClaim, Claims, TypeOK
  <2>5. LockHeld'
    BY <2>1 DEF LockHeld, TypeOK
  <2> QED
    BY <2>1, <2>4, <2>5 DEF ChildSupervised, ClosedLast, Starting, TypeOK
<1>3. CASE WriteLock(j)
  <2>1. /\ phase[j] = "checked" /\ phase' = [phase EXCEPT ![j] = "locked"]
        /\ lock' = [lock EXCEPT ![Target[j]] = "fresh"]
        /\ UNCHANGED <<child, inst>>
    BY <1>3 DEF WriteLock, LockReliable, childVars, uiVars
  <2> QED
    BY <2>1 DEF OneClaim, Claims, LockHeld, ChildSupervised, ClosedLast, Starting, TypeOK
<1>4. CASE Spawn(j)
  <2>1. /\ phase[j] = "locked" /\ phase' = [phase EXCEPT ![j] = "running"]
        /\ child' = [child EXCEPT ![j] = "busy"] /\ UNCHANGED <<lock, inst>>
    BY <1>4 DEF Spawn, diskVars
  <2> QED
    BY <2>1 DEF OneClaim, Claims, LockHeld, ChildSupervised, ClosedLast, Starting, TypeOK
<1>5. CASE SpawnFails(j)
  <2>1. /\ phase[j] = "locked" /\ phase' = [phase EXCEPT ![j] = "refused"]
        /\ lock' = [lock EXCEPT ![Target[j]] = "absent"] /\ UNCHANGED <<child, inst>>
    BY <1>5 DEF SpawnFails, LockOnSpawnFails, childVars, uiVars
  <2>2. \A k \in Jobs \ {j} : Claims(k) => Target[k] # Target[j]
    BY <2>1 DEF OneClaim, Claims
  <2> QED
    BY <2>1, <2>2 DEF OneClaim, Claims, LockHeld, ChildSupervised, ClosedLast, Starting, TypeOK
<1> QED
  BY <1>1, <1>2, <1>3, <1>4, <1>5 DEF StartStep

LEMMA LockStep == LockReliable /\ LockInv /\ [Next]_vars => LockInv'
<1> SUFFICES ASSUME LockReliable, LockInv, [Next]_vars PROVE LockInv'
    OBVIOUS
<1> USE RequestAssumption
<1> DEFINE Goal == OneClaim' /\ LockHeld' /\ ChildSupervised' /\ ClosedLast'
<1>1. TypeOK'
  BY TypeStep DEF LockInv
<1>2. ASSUME UNCHANGED <<phase, lock, inst>>,
             \A j \in Jobs : child'[j] \in Alive => child[j] \in Alive
      PROVE  Goal
  BY <1>2 DEF LockInv, OneClaim, Claims, LockHeld, ChildSupervised, ClosedLast, Starting
<1>3. ASSUME NEW j \in Jobs, StartStep(j) PROVE Goal
  BY <1>3, ClaimStart
<1>4. ASSUME NEW j \in Jobs, ChildStep(j) PROVE Goal
  <2>1. UNCHANGED <<phase, lock, inst>>
    BY <1>4 DEF ChildStep, ChildLine, ChildOpensTarget, ChildFinishesTarget,
       ChildWritesStatus, ChildExits, uiVars, jobVars, diskVars
  <2>2. child[j] \in Alive /\ \A k \in Jobs \ {j} : child'[k] = child[k]
    BY <1>4 DEF ChildStep, ChildLine, ChildOpensTarget, ChildFinishesTarget,
       ChildWritesStatus, ChildExits, LockInv, TypeOK, Alive
  <2> QED
    BY <1>2, <2>1, <2>2
<1>5. ASSUME NEW j \in Jobs, ClickCancel(j) \/ LateTerminate(j) PROVE Goal
  BY <1>2, <1>5 DEF ClickCancel, LateTerminate, uiVars, jobVars, childVars, diskVars
<1>6. ASSUME NEW j \in Jobs, OnTerminate(j) PROVE Goal
  <2>1. /\ phase[j] = "running" /\ child[j] = "dead" /\ UNCHANGED <<child, inst>>
        /\ lock' = [lock EXCEPT ![Target[j]] = "absent"]
        /\ \E s \in {"done", "reporting"} : phase' = [phase EXCEPT ![j] = s]
    BY <1>6 DEF OnTerminate
  <2>2. \A k \in Jobs \ {j} : Claims(k) => Target[k] # Target[j]
    BY <2>1 DEF OneClaim, Claims, LockInv
  <2>3. /\ phase'[j] \in {"done", "reporting"}
        /\ \A k \in Jobs \ {j} : phase'[k] = phase[k]
    BY <2>1 DEF LockInv, TypeOK
  <2>4. \A k \in Jobs : Target[k] # Target[j] => lock'[Target[k]] = lock[Target[k]]
    BY <2>1 DEF LockInv, TypeOK
  <2>5. OneClaim' /\ LockHeld'
    BY <2>2, <2>3, <2>4 DEF LockInv, OneClaim, Claims, LockHeld
  <2>6. ChildSupervised'
    BY <2>1, <2>3 DEF LockInv, ChildSupervised, Alive
  <2>7. ClosedLast'
    BY <2>1, <2>3 DEF LockInv, ClosedLast, Starting
  <2> QED
    BY <2>5, <2>6, <2>7
<1>7. ASSUME NEW i \in Instances, Poll(i) PROVE Goal
  <2>1. UNCHANGED <<phase, lock, inst>>
    BY <1>7 DEF Poll, diskVars
  <2>2. \A j \in Jobs : child'[j] \in Alive => child[j] \in Alive
    BY <1>7 DEF Poll, Alive
  <2> QED
    BY <1>2, <2>1, <2>2
<1>8. ASSUME NEW i \in Instances, DismissBox(i) PROVE Goal
  <2> DEFINE s == modal[i]
             j == s[Len(s)]
  <2>1. s \in Seq(Jobs) /\ s # <<>>
    BY <1>8 DEF DismissBox, LockInv, TypeOK
  <2>2. j \in Jobs /\ phase[j] \in {"reporting", "done"}
    BY <2>1 DEF LockInv, Boxed
  <2>3. phase' = [phase EXCEPT ![j] = "done"] /\ UNCHANGED <<child, lock, inst>>
    BY <1>8 DEF DismissBox, childVars, diskVars
  <2> QED
    BY <2>2, <2>3 DEF LockInv, OneClaim, Claims, LockHeld, ChildSupervised, ClosedLast,
       Starting, TypeOK
<1>9. ASSUME NEW i \in Instances, CloseApp(i) PROVE Goal
  <2>1. /\ inst[i] = "open" /\ \A j \in Jobs : Inst[j] = i => ~Starting(j)
        /\ inst' = [inst EXCEPT ![i] = "draining"]
        /\ phase' = [j \in Jobs |-> IF j \in Running(i) THEN "abandoned" ELSE phase[j]]
        /\ UNCHANGED <<child, lock>>
    BY <1>9 DEF CloseApp, AtLoop, Starting, childVars, diskVars
  <2>2. inst'[i] # "open" /\ \A k \in Instances \ {i} : inst'[k] = inst[k]
    BY <2>1 DEF LockInv, TypeOK
  <2>3. ClosedLast'
    BY <2>1, <2>2 DEF LockInv, ClosedLast, Starting, Running
  <2>4. OneClaim' /\ LockHeld' /\ ChildSupervised'
    BY <2>1 DEF LockInv, OneClaim, Claims, LockHeld, ChildSupervised, Running
  <2> QED
    BY <2>3, <2>4
<1>10. ASSUME NEW i \in Instances, EndDrain(i) PROVE Goal
  <2>1. inst[i] = "draining" /\ inst' = [inst EXCEPT ![i] = "closed"]
        /\ UNCHANGED <<phase, child, lock>>
    BY <1>10 DEF EndDrain, jobVars, childVars, diskVars
  <2> QED
    BY <2>1 DEF LockInv, OneClaim, Claims, LockHeld, ChildSupervised, ClosedLast,
       Starting, TypeOK
<1>11. ASSUME NEW t \in Targets, AgeLock(t) PROVE Goal
  <2>1. /\ \A j \in Jobs : Target[j] = t => phase[j] \notin {"locked", "running"}
        /\ lock' = [lock EXCEPT ![t] = "stale"] /\ UNCHANGED <<phase, child, inst>>
    BY <1>11 DEF AgeLock, LockReliable, uiVars, jobVars, childVars
  <2> QED
    BY <2>1 DEF LockInv, OneClaim, Claims, LockHeld, ChildSupervised, ClosedLast,
       Starting, TypeOK
<1>12. ASSUME Tick PROVE Goal
  BY <1>2, <1>12 DEF Tick, uiVars, childVars, diskVars
<1>13. ASSUME UNCHANGED vars PROVE Goal
  BY <1>2, <1>13 DEF vars, uiVars, jobVars, childVars, diskVars
<1>14. Goal
  BY <1>3, <1>4, <1>5, <1>6, <1>7, <1>8, <1>9, <1>10, <1>11, <1>12, <1>13 DEF Next, UIStep
<1>15. Boxed'
  BY BoxStep DEF LockInv
<1> QED
  BY <1>1, <1>14, <1>15 DEF LockInv

(* The lock sidecar keeps the writers of one target apart, as long as it is
   created, does not go stale under a running export and is not raced by
   another instance (the run ExportJobs_cross shows that race). *)
THEOREM LockExcludes == LockReliable => (Spec => []OneWriter)
<1> SUFFICES ASSUME LockReliable PROVE Spec => []OneWriter
    OBVIOUS
<1>1. Init => LockInv
  BY InitTyped DEF Init, LockInv, OneClaim, Claims, LockHeld, ChildSupervised,
     ClosedLast, Starting, Boxed, Alive
<1>2. LockInv => OneWriter
  BY DEF LockInv, OneWriter, OneClaim, Claims, ChildSupervised
<1>3. LockInv /\ [Next]_vars => LockInv'
  BY LockStep
<1> QED
  BY <1>1, <1>2, <1>3, PTL DEF Spec
-----------------------------------------------------------------------------
(* The manager implements the service *)

(* The sidecar of a claimed target never vouches for anything but the      *)
(* complete file of the claiming job, which nobody touches any more.       *)
StatusHonest == \A j \in Jobs : Claims(j) /\ status[Target[j]].ok
                   => file[Target[j]] = j /\ child[j] \in {"stated", "dead"}
WroteOwn     == \A j \in Jobs : child[j] = "wrote" => file[Target[j]] = j

Before(j)    == phase[j] \in {"new", "checked", "locked"}
(* Steps of a phase that claim nothing.                                    *)
Calm == \A j \in Jobs : \/ phase'[j] = phase[j]
                        \/ phase'[j] \in {"refused", "reporting", "done"}
                        \/ phase[j] = "checked" /\ phase'[j] = "locked"
                        \/ phase[j] = "running" /\ phase'[j] = "abandoned"
Unborn       == \A j \in Jobs : Before(j) => child[j] = "none"

ServiceInv == LockInv /\ StatusHonest /\ WroteOwn /\ Unborn

LEMMA HonestStep == LockReliable /\ ServiceInv /\ [Next]_vars => ServiceInv'
<1> SUFFICES ASSUME LockReliable, ServiceInv, [Next]_vars PROVE ServiceInv'
    OBVIOUS
<1> USE RequestAssumption
<1> DEFINE Goal == StatusHonest' /\ WroteOwn' /\ Unborn'
<1>1. LockInv'
  BY LockStep DEF ServiceInv
<1>2. TypeOK /\ TypeOK' /\ StatusHonest /\ WroteOwn /\ Unborn
  BY <1>1 DEF ServiceInv, LockInv
<1>3. \A j, k \in Jobs : child[j] \in Alive /\ Claims(k) /\ Target[j] = Target[k] => j = k
  BY DEF ServiceInv, LockInv, ChildSupervised, OneClaim, Claims
<1>4. ASSUME status' = status, file' = file, Calm,
             \A j \in Jobs : child'[j] = child[j] \/ (child'[j] = "dead" /\ ~Before(j))
      PROVE  Goal
  BY <1>2, <1>4 DEF StatusHonest, WroteOwn, Unborn, Claims, Before, Calm
<1>5. ASSUME NEW j \in Jobs, StartStep(j) PROVE Goal
  <2>1. CASE Admit(j)
    <3>1. /\ status' = [status EXCEPT ![Target[j]] = NoStatus]
          /\ phase' = [phase EXCEPT ![j] = "checked"]
          /\ UNCHANGED <<file, child>>
      BY <2>1 DEF Admit, StatusOnStart, childVars
    <3>2. phase[j] = "new"
      BY <2>1 DEF Admit, CanRequest
    <3> QED
      BY <1>2, <3>1, <3>2 DEF StatusHonest, WroteOwn, Unborn, Before, Claims, NoStatus, TypeOK
  <2>2. CASE Refuse(j) \/ WriteLock(j) \/ SpawnFails(j)
    <3>1. status' = status /\ file' = file /\ child' = child
      BY <2>2 DEF Refuse, WriteLock, SpawnFails, childVars, diskVars
    <3>2. Calm
      BY <1>2, <2>2 DEF Refuse, WriteLock, SpawnFails, Calm, TypeOK
    <3> QED
      BY <1>4, <3>1, <3>2
  <2>3. CASE Spawn(j)
    <3>1. /\ phase[j] = "locked" /\ child' = [child EXCEPT ![j] = "busy"]
          /\ phase' = [phase EXCEPT ![j] = "running"] /\ status' = status /\ file' = file
      BY <2>3 DEF Spawn, diskVars
    <3>2. child[j] = "none"
      BY <1>2, <3>1 DEF Unborn, Before
    <3> QED
      BY <1>2, <3>1, <3>2 DEF StatusHonest, WroteOwn, Unborn, Before, Claims, TypeOK
  <2> QED
    BY <1>5, <2>1, <2>2, <2>3 DEF StartStep
<1>6. ASSUME NEW j \in Jobs, ChildStep(j) PROVE Goal
  <2>1. UNCHANGED phase
    BY <1>6 DEF ChildStep, ChildLine, ChildOpensTarget, ChildFinishesTarget,
       ChildWritesStatus, ChildExits, jobVars
  <2>2. child[j] \in Alive /\ ~Before(j)
    BY <1>2, <1>6 DEF ChildStep, ChildLine, ChildOpensTarget, ChildFinishesTarget,
       ChildWritesStatus, ChildExits, Alive, Unborn, Before
  <2>3. \A k \in Jobs : Claims(k) /\ Target[j] = Target[k] => j = k
    BY <1>3, <2>2
  <2>4. CASE ChildLine(j) \/ ChildExits(j)
    <3>1. /\ status' = status /\ file' = file
          /\ \A k \in Jobs : child'[k] = child[k] \/ (child'[k] = "dead" /\ ~Before(k))
      BY <1>2, <2>2, <2>4 DEF ChildLine, ChildExits, diskVars, TypeOK, Alive
    <3> QED
      BY <1>4, <2>1, <3>1 DEF Calm
  <2>5. CASE ChildOpensTarget(j)
    <3>1. /\ child[j] = "busy" /\ child' = [child EXCEPT ![j] = "writing"]
          /\ file' = [file EXCEPT ![Target[j]] = NoJob] /\ UNCHANGED status
      BY <2>5 DEF ChildOpensTarget
    <3>2. \A k \in Jobs : child[k] = "wrote" => Target[k] # Target[j]
      BY <1>2, <1>3, <3>1, <2>2 DEF ServiceInv, LockInv, ChildSupervised, Claims, Alive
    <3> QED
      BY <1>2, <2>1, <2>2, <2>3, <3>1, <3>2
         DEF StatusHonest, WroteOwn, Unborn, Before, Claims, TypeOK
  <2>6. CASE ChildFinishesTarget(j)
    <3>1. /\ child[j] = "writing" /\ child' = [child EXCEPT ![j] = "wrote"]
          /\ file' = [file EXCEPT ![Target[j]] = j] /\ UNCHANGED status
      BY <2>6 DEF ChildFinishesTarget
    <3>2. \A k \in Jobs : child[k] = "wrote" => Target[k] # Target[j]
      BY <1>2, <1>3, <3>1, <2>2 DEF ServiceInv, LockInv, ChildSupervised, Claims, Alive
    <3> QED
      BY <1>2, <2>1, <2>2, <2>3, <3>1, <3>2
         DEF StatusHonest, WroteOwn, Unborn, Before, Claims, TypeOK
  <2>7. CASE ChildWritesStatus(j)
    <3>1. /\ child' = [child EXCEPT ![j] = "stated"] /\ UNCHANGED file
          /\ status' = [status EXCEPT ![Target[j]] = [by |-> j, ok |-> child[j] = "wrote"]]
      BY <2>7 DEF ChildWritesStatus
    <3> QED
      BY <1>2, <2>1, <2>2, <2>3, <3>1 DEF StatusHonest, WroteOwn, Unborn, Before, Claims, TypeOK
  <2> QED
    BY <1>6, <2>4, <2>5, <2>6, <2>7 DEF ChildStep
<1>7. ASSUME NEW j \in Jobs, ClickCancel(j) \/ LateTerminate(j) PROVE Goal
  BY <1>4, <1>7 DEF ClickCancel, LateTerminate, Calm, jobVars, childVars, diskVars
<1>8. ASSUME NEW j \in Jobs, OnTerminate(j) PROVE Goal
  <2>1. status' = status /\ file' = file /\ child' = child
    BY <1>8 DEF OnTerminate
  <2>2. \A k \in Jobs : phase'[k] = phase[k] \/ phase'[k] \in {"done", "reporting"}
    BY <1>2, <1>8 DEF OnTerminate, TypeOK
  <2> QED
    BY <1>4, <2>1, <2>2 DEF Calm
<1>9. ASSUME NEW i \in Instances, Poll(i) PROVE Goal
  <2>1. status' = status /\ file' = file /\ phase' = phase
    BY <1>9 DEF Poll, diskVars
  <2>2. \A j \in Jobs : child'[j] = child[j] \/ (child'[j] = "dead" /\ ~Before(j))
    BY <1>9 DEF Poll, Running, Before
  <2> QED
    BY <1>4, <2>1, <2>2 DEF Calm
<1>10. ASSUME NEW i \in Instances, DismissBox(i) PROVE Goal
  <2>1. status' = status /\ file' = file /\ child' = child
    BY <1>10 DEF DismissBox, childVars, diskVars
  <2>2. \A k \in Jobs : phase'[k] = phase[k] \/ phase'[k] = "done"
    BY <1>2, <1>10 DEF DismissBox, TypeOK
  <2> QED
    BY <1>4, <2>1, <2>2 DEF Calm
<1>11. ASSUME NEW i \in Instances, CloseApp(i) PROVE Goal
  <2>1. status' = status /\ file' = file /\ child' = child
    BY <1>11 DEF CloseApp, childVars, diskVars
  <2>2. \A k \in Jobs : phase'[k] = phase[k] \/ (phase[k] = "running" /\ phase'[k] = "abandoned")
    BY <1>11 DEF CloseApp, Running
  <2> QED
    BY <1>4, <2>1, <2>2 DEF Calm
<1>12. ASSUME NEW i \in Instances, EndDrain(i) PROVE Goal
  BY <1>4, <1>12 DEF EndDrain, Calm, jobVars, childVars, diskVars
<1>13. ASSUME NEW t \in Targets, AgeLock(t) PROVE Goal
  BY <1>4, <1>13 DEF AgeLock, Calm, jobVars, childVars
<1>14. ASSUME Tick \/ UNCHANGED vars PROVE Goal
  BY <1>4, <1>14 DEF Tick, Calm, vars, jobVars, childVars, diskVars
<1>15. Goal
  BY <1>5, <1>6, <1>7, <1>8, <1>9, <1>10, <1>11, <1>12, <1>13, <1>14 DEF Next, UIStep
<1> QED
  BY <1>1, <1>15 DEF ServiceInv

(* The view of one job changes as the phase and the result of that job do. *)
LEMMA ViewStep ==
  ASSUME NEW j \in Jobs, NEW v,
         \A k \in Jobs \ {j} : phase'[k] = phase[k] /\ result'[k] = result[k],
         JobView'[j] = v
  PROVE  JobView' = [JobView EXCEPT ![j] = v]
<1>1. \A k \in Jobs \ {j} : JobView'[k] = JobView[k]
  BY DEF JobView
<1>2. JobView = [k \in Jobs |-> JobView[k]] /\ JobView' = [k \in Jobs |-> JobView'[k]]
  BY DEF JobView
<1> QED
  BY <1>1, <1>2

LEMMA ServiceStep ==
  LockReliable /\ ServiceInv /\ [Next]_vars => [Service!Next]_(Service!vars)
<1> SUFFICES ASSUME LockReliable, ServiceInv, [Next]_vars
             PROVE  Service!Next \/ (JobView' = JobView /\ file' = file)
    BY DEF Service!vars
<1> USE RequestAssumption
<1> DEFINE Goal == Service!Next \/ (JobView' = JobView /\ file' = file)
<1>1. TypeOK /\ TypeOK'
  BY TypeStep DEF ServiceInv, LockInv
<1>2. ASSUME phase' = phase, result' = result, file' = file PROVE Goal
  BY <1>2 DEF JobView
<1>3. ASSUME NEW j \in Jobs, StartStep(j) PROVE Goal
  <2>1. file' = file /\ result' = result
    BY <1>3 DEF StartStep, Refuse, Admit, WriteLock, Spawn, SpawnFails, diskVars
  <2>2. \A k \in Jobs \ {j} : phase'[k] = phase[k] /\ result'[k] = result[k]
    <3>1. \E s \in {"refused", "checked", "locked", "running"} : phase' = [phase EXCEPT ![j] = s]
      BY <1>3 DEF StartStep, Refuse, Admit, WriteLock, Spawn, SpawnFails
    <3> QED
      BY <1>1, <2>1, <3>1 DEF TypeOK
  <2>3. CASE Refuse(j) \/ SpawnFails(j)
    <3>1. JobView[j] = "idle" /\ JobView'[j] = "rejected"
      BY <1>1, <2>3 DEF Refuse, CanRequest, SpawnFails, JobView, TypeOK
    <3>2. JobView' = [JobView EXCEPT ![j] = "rejected"]
      BY <2>2, <3>1, ViewStep
    <3> QED
      BY <2>1, <3>1, <3>2 DEF Service!Next, Service!Reject
  <2>4. CASE Admit(j) \/ WriteLock(j)
    <3>1. JobView[j] = "idle" /\ JobView'[j] = "idle"
      BY <1>1, <2>4 DEF Admit, CanRequest, WriteLock, JobView, TypeOK
    <3>2. JobView' = [JobView EXCEPT ![j] = "idle"]
      BY <2>2, <3>1, ViewStep
    <3>3. JobView = [k \in Jobs |-> JobView[k]]
      BY DEF JobView
    <3> QED
      BY <2>1, <3>1, <3>2, <3>3
  <2>5. CASE Spawn(j)
    <3>1. JobView[j] = "idle" /\ JobView'[j] = "active" /\ phase[j] = "locked"
      BY <1>1, <2>5 DEF Spawn, JobView, TypeOK
    <3>2. JobView' = [JobView EXCEPT ![j] = "active"]
      BY <2>2, <3>1, ViewStep
    <3>3. \A k \in Jobs : JobView[k] = "active" => phase[k] = "running"
      BY <1>1 DEF JobView, TypeOK
    <3>4. \A k \in Jobs : JobView[k] = "active" => Target[k] # Target[j]
      BY <3>1, <3>3 DEF ServiceInv, LockInv, OneClaim, Claims
    <3> QED
      BY <2>1, <3>1, <3>2, <3>4 DEF Service!Next, Service!Start
  <2> QED
    BY <1>3, <2>3, <2>4, <2>5 DEF StartStep
<1>4. ASSUME NEW j \in Jobs, ChildStep(j) PROVE Goal
  <2>1. phase' = phase /\ result' = result
    BY <1>4 DEF ChildStep, ChildLine, ChildOpensTarget, ChildFinishesTarget,
       ChildWritesStatus, ChildExits, jobVars
  <2>2. CASE file' = file
    BY <1>2, <2>1, <2>2
  <2>3. CASE \E c \in {NoJob, j} : file' = [file EXCEPT ![Target[j]] = c] /\ child[j] \in Alive
    <3>1. JobView[j] \in {"active", "lost"}
      BY <2>3 DEF ServiceInv, LockInv, ChildSupervised, JobView
    <3>2. JobView' = JobView
      BY <2>1 DEF JobView
    <3> QED
      BY <2>3, <3>1, <3>2 DEF Service!Next, Service!Write
  <2> QED
    BY <1>4, <2>2, <2>3 DEF ChildStep, ChildLine, ChildOpensTarget, ChildFinishesTarget,
       ChildWritesStatus, ChildExits, diskVars, Alive
<1>5. ASSUME NEW j \in Jobs, OnTerminate(j) PROVE Goal
  <2>1. /\ phase[j] = "running" /\ file' = file
        /\ \E s \in {"done", "reporting"} : phase' = [phase EXCEPT ![j] = s]
        /\ result' = [result EXCEPT ![j] = Verdict(j)]
    BY <1>5 DEF OnTerminate
  <2>2. \A k \in Jobs \ {j} : phase'[k] = phase[k] /\ result'[k] = result[k]
    BY <1>1, <2>1 DEF TypeOK
  <2>3. JobView[j] = "active" /\ JobView'[j] = Verdict(j)
    BY <1>1, <2>1 DEF JobView, TypeOK
  <2>4. JobView' = [JobView EXCEPT ![j] = Verdict(j)]
    BY <2>2, <2>3, ViewStep
  <2>5. /\ Verdict(j) \in {"ok", "failed", "cancelled"}
        /\ Verdict(j) = "ok" => file[Target[j]] = j
    BY <2>1 DEF Verdict, StatusSaysOk, ServiceInv, StatusHonest, Claims
  <2> QED
    BY <2>1, <2>3, <2>4, <2>5 DEF Service!Next, Service!Finish
<1>6. ASSUME NEW i \in Instances, DismissBox(i) PROVE Goal
  <2> DEFINE s == modal[i]
             j == s[Len(s)]
  <2>1. s \in Seq(Jobs) /\ s # <<>>
    BY <1>1, <1>6 DEF DismissBox, TypeOK
  <2>2. j \in Jobs /\ phase[j] \in {"reporting", "done"}
    BY <2>1 DEF ServiceInv, LockInv, Boxed
  <2>3. phase' = [phase EXCEPT ![j] = "done"] /\ file' = file /\ result' = result
    BY <1>6 DEF DismissBox, diskVars
  <2>4. \A k \in Jobs : JobView'[k] = JobView[k]
    BY <1>1, <2>2, <2>3 DEF JobView, TypeOK
  <2> QED
    BY <2>3, <2>4 DEF JobView
<1>7. ASSUME NEW i \in Instances, CloseApp(i) PROVE Goal
  <2>1. /\ phase' = [j \in Jobs |-> IF j \in Running(i) THEN "abandoned" ELSE phase[j]]
        /\ file' = file /\ result' = result
    BY <1>7 DEF CloseApp, diskVars
  <2>2. \A j \in Running(i) : JobView[j] = "active" /\ JobView'[j] = "lost"
    BY <2>1 DEF Running, JobView
  <2>3. \A j \in Jobs \ Running(i) : JobView'[j] = JobView[j]
    BY <2>1 DEF JobView
  <2>4. JobView' = [j \in Jobs |-> IF j \in Running(i) THEN "lost" ELSE JobView[j]]
    BY <2>2, <2>3 DEF JobView
  <2>5. CASE Running(i) = {}
    BY <2>1, <2>3, <2>5 DEF JobView
  <2>6. CASE Running(i) # {}
    <3>1. Service!Lose(Running(i))
      BY <2>1, <2>2, <2>4, <2>6 DEF Service!Lose
    <3>2. Running(i) \in SUBSET Jobs
      BY DEF Running
    <3> QED
      BY <3>1, <3>2 DEF Service!Next
  <2> QED
    BY <2>5, <2>6
<1>8. ASSUME NEW j \in Jobs, ClickCancel(j) \/ LateTerminate(j) PROVE Goal
  BY <1>2, <1>8 DEF ClickCancel, LateTerminate, jobVars, diskVars
<1>9. ASSUME NEW i \in Instances, Poll(i) \/ EndDrain(i) PROVE Goal
  BY <1>2, <1>9 DEF Poll, EndDrain, jobVars, diskVars
<1>10. ASSUME NEW t \in Targets, AgeLock(t) PROVE Goal
  BY <1>2, <1>10 DEF AgeLock, jobVars
<1>11. ASSUME Tick \/ UNCHANGED vars PROVE Goal
  BY <1>2, <1>11 DEF Tick, vars, jobVars, diskVars
<1> QED
  BY <1>3, <1>4, <1>5, <1>6, <1>7, <1>8, <1>9, <1>10, <1>11 DEF Next, UIStep

(* The manager implements the abstract service: exports to one target take
   turns and a reported success is a complete file of that very export. *)
THEOREM Refinement == LockReliable => (Spec => ServiceImplemented)
<1> SUFFICES ASSUME LockReliable PROVE Spec => ServiceImplemented
    OBVIOUS
<1>1. Init => ServiceInv
  BY InitTyped DEF Init, ServiceInv, LockInv, OneClaim, Claims, LockHeld, ChildSupervised,
     ClosedLast, Starting, Boxed, Alive, StatusHonest, WroteOwn, Unborn, Before
<1>2. Init => Service!Init
  BY DEF Init, Service!Init, JobView
<1>3. ServiceInv /\ [Next]_vars => ServiceInv'
  BY HonestStep
<1>4. ServiceInv /\ [Next]_vars => [Service!Next]_(Service!vars)
  BY ServiceStep
<1> QED
  BY <1>1, <1>2, <1>3, <1>4, PTL DEF Spec, ServiceImplemented, Service!Spec
=============================================================================
