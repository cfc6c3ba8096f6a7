------------------------------ MODULE ExportJobs ------------------------------
(***************************************************************************)
(* Out-of-process FBX exports of WoW Model Viewer (ExportJobManager).      *)
(*                                                                         *)
(* Each running copy of the application (an instance) owns a list of       *)
(* export jobs.  A job spawns a child process that writes the target file  *)
(* and then a ".status" sidecar; a ".lock" sidecar guards the target       *)
(* between instances.  One poll timer per instance drains the children's   *)
(* output, forwards a cancellation and runs the hang watchdog; the end of  *)
(* a child is delivered as an event of its own, and its result is shown in *)
(* a message box whose nested event loop keeps serving everything else.    *)
(*                                                                         *)
(* All handlers of one instance run on its one UI thread.  Instances and   *)
(* children interleave at every access to the shared files.                *)
(***************************************************************************)
EXTENDS Integers, Sequences

CONSTANTS
    Instances,      \* running copies of the application
    Jobs,           \* export requests, each made at most once
    Targets,        \* output paths
    Inst,           \* Inst[j]:   the instance the user makes request j in
    Asset,          \* Asset[j]:  what request j exports
    Target,         \* Target[j]: where request j writes
    CharJobs,       \* requests for a character: they carry a temporary .chr
    NoJob,
    HangWarn,       \* silent ticks before the dialog warns      (45 s)
    HangKill,       \* silent ticks before the child is killed   (240 s)
    MaxLines,       \* BOUND: progress lines one child prints
    LockMayFail,    \* may the lock sidecar fail to be created?
    LongExports     \* may an export outlive LOCK_STALE_HOURS?

ASSUME RequestAssumption ==
    /\ Inst \in [Jobs -> Instances]
    /\ Target \in [Jobs -> Targets]
    /\ DOMAIN Asset = Jobs
    /\ CharJobs \subseteq Jobs
    /\ NoJob \notin Jobs
ASSUME BoundAssumption ==
    /\ MaxLines \in Nat
    /\ HangWarn \in Nat \ {0} /\ HangKill \in Nat \ {0}
    /\ HangWarn <= HangKill
    /\ LockMayFail \in BOOLEAN /\ LongExports \in BOOLEAN

VARIABLES
    inst,       \* inst[i]: open, draining (manager deleted, events left), closed
    timer,      \* timer[i]: is the poll timer of instance i running
    modal,      \* modal[i]: jobs whose result box is open, innermost last
    phase,      \* phase[j]: where request j stands in its manager
    cancel,     \* cancel[j]: no, asked (in the dialog), sent (child killed)
    idle,       \* idle[j]: ticks since lastProgress
    hung,       \* hung[j]: hungFlagged
    result,     \* result[j]: what finalize reports
    temp,       \* temp[j]: the temporary .chr is on disk
    child,      \* child[j]: the child process
    said,       \* said[j]: progress lines printed so far
    pipe,       \* pipe[j]: progress lines not drained yet
    lock,       \* lock[t]: the .lock sidecar
    status,     \* status[t]: the .status sidecar
    file,       \* file[t]: the job whose complete output is at t, or NoJob
    dangling    \* jobs whose end was delivered to a deleted manager

uiVars    == <<inst, timer, modal>>
jobVars   == <<phase, cancel, idle, hung, result, temp>>
childVars == <<child, said, pipe>>
diskVars  == <<lock, status, file>>
vars      == <<uiVars, jobVars, childVars, diskVars, dangling>>

Alive    == {"busy", "writing", "wrote", "stated"}
NoStatus == [by |-> NoJob, ok |-> FALSE]

TypeOK ==
    /\ inst \in [Instances -> {"open", "draining", "closed"}]
    /\ timer \in [Instances -> BOOLEAN]
    /\ modal \in [Instances -> Seq(Jobs)]
    /\ phase \in [Jobs -> {"new", "checked", "locked", "running",
                           "reporting", "done", "refused", "abandoned"}]
    /\ cancel \in [Jobs -> {"no", "asked", "sent"}]
    /\ idle \in [Jobs -> 0 .. HangKill]
    /\ hung \in [Jobs -> BOOLEAN]
    /\ result \in [Jobs -> {"none", "ok", "failed", "cancelled"}]
    /\ temp \in [Jobs -> BOOLEAN]
    /\ child \in [Jobs -> Alive \cup {"none", "dead"}]
    /\ said \in [Jobs -> 0 .. MaxLines]
    /\ pipe \in [Jobs -> 0 .. MaxLines] /\ \A j \in Jobs : pipe[j] <= said[j]
    /\ lock \in [Targets -> {"absent", "fresh", "stale"}]
    /\ status \in [Targets -> [by : Jobs \cup {NoJob}, ok : BOOLEAN]]
    /\ file \in [Targets -> Jobs \cup {NoJob}]
    /\ dangling \in SUBSET Jobs

(* A previous run may have crashed and left a lock and an OK status behind. *)
Init ==
    /\ inst = [i \in Instances |-> "open"]
    /\ timer = [i \in Instances |-> FALSE]
    /\ modal = [i \in Instances |-> <<>>]
    /\ phase = [j \in Jobs |-> "new"]
    /\ cancel = [j \in Jobs |-> "no"]
    /\ idle = [j \in Jobs |-> 0]
    /\ hung = [j \in Jobs |-> FALSE]
    /\ result = [j \in Jobs |-> "none"]
    /\ temp = [j \in Jobs |-> FALSE]
    /\ child = [j \in Jobs |-> "none"]
    /\ said = [j \in Jobs |-> 0]
    /\ pipe = [j \in Jobs |-> 0]
    /\ lock \in [Targets -> {"absent", "stale"}]
    /\ status \in [Targets -> {NoStatus, [by |-> NoJob, ok |-> TRUE]}]
    /\ file = [t \in Targets |-> NoJob]
    /\ dangling = {}

-----------------------------------------------------------------------------
(* startExport *)

(* The path of the temporary .chr is part of a character's descriptor, so  *)
(* two requests for the same character never have the same key.            *)
AssetKey(j) == IF j \in CharJobs THEN <<j, Target[j]>>
                                 ELSE <<Asset[j], Target[j]>>

InList(j)  == phase[j] \in {"running", "reporting"}     \* job is in m_jobs
Running(i) == {j \in Jobs : Inst[j] = i /\ phase[j] = "running"}
OthersReporting(j) == {k \in Jobs : Inst[k] = Inst[j] /\ phase[k] = "reporting"}
Others(j)  == {k \in Jobs \ {j} : Inst[k] = Inst[j] /\ InList(k)}

(* The UI thread of i is between events: no startExport is half way.       *)
AtLoop(i) == inst[i] = "open"
             /\ \A j \in Jobs : Inst[j] = i => phase[j] \notin {"checked", "locked"}

NoActiveByKey(j)      == FALSE
FindActiveByKey(j)    == \E k \in Running(Inst[j]) : AssetKey(k) = AssetKey(j)
IgnoreLock(t)         == FALSE
LockBlocks(t)         == lock[t] = "fresh"
StatusOnStart(t)      == NoStatus

(* The main frame is disabled while a result box is open.                  *)
CanRequest(j) == phase[j] = "new" /\ AtLoop(Inst[j]) /\ modal[Inst[j]] = <<>>

Refuse(j) ==
    /\ CanRequest(j)
    /\ FindActiveByKey(j) \/ LockBlocks(Target[j])
    /\ phase' = [phase EXCEPT ![j] = "refused"]
    /\ temp' = [temp EXCEPT ![j] = j \in CharJobs]
    /\ UNCHANGED <<uiVars, cancel, idle, hung, result, childVars, diskVars, dangling>>

Admit(j) ==
    /\ CanRequest(j)
    /\ ~FindActiveByKey(j) /\ ~LockBlocks(Target[j])
    /\ phase' = [phase EXCEPT ![j] = "checked"]
    /\ temp' = [temp EXCEPT ![j] = j \in CharJobs]
    /\ lock' = [lock EXCEPT ![Target[j]] = "absent"]
    /\ status' = [status EXCEPT ![Target[j]] = StatusOnStart(Target[j])]
    /\ UNCHANGED <<uiVars, cancel, idle, hung, result, childVars, file, dangling>>

WriteLock(j) ==
    /\ phase[j] = "checked"
    /\ phase' = [phase EXCEPT ![j] = "locked"]
    /\ \/ lock' = [lock EXCEPT ![Target[j]] = "fresh"]
       \/ LockMayFail /\ UNCHANGED lock
    /\ UNCHANGED <<uiVars, cancel, idle, hung, result, temp, childVars,
                   status, file, dangling>>

TimerUntouched(i) == timer[i]
TimerOnStart(i)   == TRUE

Spawn(j) ==
    /\ phase[j] = "locked"
    /\ phase' = [phase EXCEPT ![j] = "running"]
    /\ child' = [child EXCEPT ![j] = "busy"]
    /\ idle' = [idle EXCEPT ![j] = 0]
    /\ timer' = [timer EXCEPT ![Inst[j]] = TimerOnStart(Inst[j])]
    /\ UNCHANGED <<inst, modal, cancel, hung, result, temp, said, pipe,
                   diskVars, dangling>>

LockOnSpawnFails(t) == "absent"

SpawnFails(j) ==
    /\ phase[j] = "locked"
    /\ phase' = [phase EXCEPT ![j] = "refused"]
    /\ lock' = [lock EXCEPT ![Target[j]] = LockOnSpawnFails(Target[j])]
    /\ UNCHANGED <<uiVars, cancel, idle, hung, result, temp, childVars,
                   status, file, dangling>>
-----------------------------------------------------------------------------
(* The child process: the headless export of app.cpp *)

ChildLine(j) ==
    /\ child[j] \in Alive /\ said[j] < MaxLines
    /\ said' = [said EXCEPT ![j] = @ + 1]
    /\ pipe' = [pipe EXCEPT ![j] = @ + 1]
    /\ UNCHANGED <<uiVars, jobVars, child, diskVars, dangling>>

ChildOpensTarget(j) ==
    /\ child[j] = "busy"
    /\ child' = [child EXCEPT ![j] = "writing"]
    /\ file' = [file EXCEPT ![Target[j]] = NoJob]
    /\ UNCHANGED <<uiVars, jobVars, said, pipe, lock, status, dangling>>

ChildFinishesTarget(j) ==
    /\ child[j] = "writing"
    /\ child' = [child EXCEPT ![j] = "wrote"]
    /\ file' = [file EXCEPT ![Target[j]] = j]
    /\ UNCHANGED <<uiVars, jobVars, said, pipe, lock, status, dangling>>

ChildWritesStatus(j) ==
    /\ child[j] \in {"busy", "writing", "wrote"}
    /\ child' = [child EXCEPT ![j] = "stated"]
    /\ status' = [status EXCEPT ![Target[j]] = [by |-> j, ok |-> child[j] = "wrote"]]
    /\ UNCHANGED <<uiVars, jobVars, said, pipe, lock, file, dangling>>

(* A normal exit follows the status; anywhere else the child crashed.      *)
ChildExits(j) ==
    /\ child[j] \in Alive
    /\ child' = [child EXCEPT ![j] = "dead"]
    /\ UNCHANGED <<uiVars, jobVars, said, pipe, diskVars, dangling>>
-----------------------------------------------------------------------------
(* Dialog, poll timer and termination event *)

ClickCancel(j) ==
    /\ phase[j] = "running" /\ cancel[j] = "no" /\ AtLoop(Inst[j])
    /\ cancel' = [cancel EXCEPT ![j] = "asked"]
    /\ UNCHANGED <<uiVars, phase, idle, hung, result, temp, childVars,
                   diskVars, dangling>>

DrainLater(j)     == idle[j]
DrainCounts(j)    == idle[j] + pipe[j]
IdleAfterDrain(j) == IF pipe[j] > 0 THEN 0 ELSE idle[j]
HungAfterDrain(j) == hung[j] /\ pipe[j] = 0

Cancels(j)        == cancel[j] = "asked"
NeverWedged(j)    == FALSE
Wedged(j)         == ~Cancels(j) /\ IdleAfterDrain(j) >= HangKill
Killed(j)         == Cancels(j) \/ Wedged(j)
Warned(j)         == ~Killed(j) /\ IdleAfterDrain(j) >= HangWarn

(* onPoll: drain every running job, then cancel it, kill it or warn.       *)
Poll(i) ==
    LET R == Running(i) IN
    /\ AtLoop(i) /\ timer[i]
    /\ pipe' = [j \in Jobs |-> IF j \in R THEN 0 ELSE pipe[j]]
    /\ idle' = [j \in Jobs |-> IF j \in R THEN IdleAfterDrain(j) ELSE idle[j]]
    /\ hung' = [j \in Jobs |-> IF j \in R THEN HungAfterDrain(j) \/ Warned(j)
                                          ELSE hung[j]]
    /\ cancel' = [j \in Jobs |-> IF j \in R /\ Cancels(j) THEN "sent"
                                                          ELSE cancel[j]]
    /\ child' = [j \in Jobs |-> IF j \in R /\ Killed(j) THEN "dead"
                                                        ELSE child[j]]
    /\ timer' = [timer EXCEPT ![i] = \E j \in Jobs : Inst[j] = i /\ InList(j)]
    /\ UNCHANGED <<inst, modal, phase, result, temp, said, diskVars, dangling>>

StatusSaysOk(t) == status[t].ok

Verdict(j) == IF cancel[j] = "sent" THEN "cancelled"
              ELSE IF StatusSaysOk(Target[j]) THEN "ok" ELSE "failed"

TempOnFinalize(j) == FALSE

(* onProcessTerminated and finalize, up to the message box if there is one *)
OnTerminate(j) ==
    LET i == Inst[j] IN
    /\ phase[j] = "running" /\ child[j] = "dead" /\ AtLoop(i)
    /\ pipe' = [pipe EXCEPT ![j] = 0]
    /\ idle' = [idle EXCEPT ![j] = IdleAfterDrain(j)]
    /\ hung' = [hung EXCEPT ![j] = HungAfterDrain(j)]
    /\ result' = [result EXCEPT ![j] = Verdict(j)]
    /\ lock' = [lock EXCEPT ![Target[j]] = "absent"]
    /\ temp' = [temp EXCEPT ![j] = TempOnFinalize(j)]
    /\ \/ /\ cancel[j] = "sent"
          /\ phase' = [phase EXCEPT ![j] = "done"]
          /\ timer' = [timer EXCEPT ![i] = @ /\ Others(j) # {}]
          /\ UNCHANGED modal
       \/ /\ cancel[j] # "sent"
          /\ phase' = [phase EXCEPT ![j] = "reporting"]
          /\ modal' = [modal EXCEPT ![i] = Append(@, j)]
          /\ UNCHANGED timer
    /\ UNCHANGED <<inst, cancel, child, said, status, file, dangling>>

(* The user closes the innermost box and finalize of its job goes on.      *)
DismissBox(i) ==
    /\ AtLoop(i) /\ modal[i] # <<>>
    /\ LET j == modal[i][Len(modal[i])] IN
       /\ phase' = [phase EXCEPT ![j] = "done"]
       /\ timer' = [timer EXCEPT ![i] = @ /\ Others(j) # {}]
    /\ modal' = [modal EXCEPT ![i] = SubSeq(@, 1, Len(@) - 1)]
    /\ UNCHANGED <<inst, cancel, idle, hung, result, temp, childVars,
                   diskVars, dangling>>
-----------------------------------------------------------------------------
(* Shutdown: the destructors delete the manager and its jobs but leave the *)
(* wxProcess objects attached while the event loop empties its queue.      *)

CloseApp(i) ==
    /\ AtLoop(i) /\ modal[i] = <<>>
    /\ inst' = [inst EXCEPT ![i] = "draining"]
    /\ timer' = [timer EXCEPT ![i] = FALSE]
    /\ phase' = [j \in Jobs |-> IF j \in Running(i) THEN "abandoned" ELSE phase[j]]
    /\ UNCHANGED <<modal, cancel, idle, hung, result, temp, childVars,
                   diskVars, dangling>>

LateTerminate(j) ==
    /\ phase[j] = "abandoned" /\ child[j] = "dead" /\ inst[Inst[j]] = "draining"
    /\ j \notin dangling
    /\ dangling' = dangling \cup {j}
    /\ UNCHANGED <<uiVars, jobVars, childVars, diskVars>>

EndDrain(i) ==
    /\ inst[i] = "draining"
    /\ inst' = [inst EXCEPT ![i] = "closed"]
    /\ UNCHANGED <<timer, modal, jobVars, childVars, diskVars, dangling>>

(* Time *)
Tick ==
    /\ \E j \in Jobs : phase[j] = "running" /\ idle[j] < HangKill
    /\ idle' = [j \in Jobs |-> IF phase[j] = "running" /\ idle[j] < HangKill
                               THEN idle[j] + 1 ELSE idle[j]]
    /\ UNCHANGED <<uiVars, phase, cancel, hung, result, temp, childVars,
                   diskVars, dangling>>

AgeLock(t) ==
    /\ lock[t] = "fresh"
    /\ LongExports \/ \A j \in Jobs : Target[j] = t =>
                         child[j] \notin Alive /\ phase[j] \notin {"locked", "running"}
    /\ lock' = [lock EXCEPT ![t] = "stale"]
    /\ UNCHANGED <<uiVars, jobVars, childVars, status, file, dangling>>
-----------------------------------------------------------------------------
StartStep(j) == Refuse(j) \/ Admit(j) \/ WriteLock(j) \/ Spawn(j) \/ SpawnFails(j)
ChildStep(j) == \/ ChildLine(j) \/ ChildOpensTarget(j) \/ ChildFinishesTarget(j)
                \/ ChildWritesStatus(j) \/ ChildExits(j)
UIStep(i)    == Poll(i) \/ DismissBox(i) \/ CloseApp(i) \/ EndDrain(i)

Next ==
    \/ \E j \in Jobs : StartStep(j) \/ ChildStep(j)
    \/ \E j \in Jobs : ClickCancel(j) \/ OnTerminate(j) \/ LateTerminate(j)
    \/ \E i \in Instances : UIStep(i)
    \/ \E t \in Targets : AgeLock(t)
    \/ Tick

(* The event loop serves its timer and the children's ends, time passes,   *)
(* startExport returns, and the user closes the box that blocks the frame. *)
(* Nothing is assumed of the children.                                     *)
Fairness ==
    /\ WF_vars(Tick)
    /\ \A i \in Instances : WF_vars(Poll(i)) /\ WF_vars(DismissBox(i))
    /\ \A j \in Jobs : WF_vars(WriteLock(j)) /\ WF_vars(Spawn(j) \/ SpawnFails(j))
                       /\ WF_vars(OnTerminate(j))

Spec     == Init /\ [][Next]_vars
FairSpec == Spec /\ Fairness
-----------------------------------------------------------------------------
(* Properties *)

(* findActiveByKey: one instance never runs two jobs for the same asset and
   target, whatever became of the lock file. *)
NoDuplicateActive ==
    \A j, k \in Jobs : /\ phase[j] = "running" /\ phase[k] = "running"
                       /\ Inst[j] = Inst[k] /\ AssetKey(j) = AssetKey(k)
                       => j = k

(* Lock sidecar: two children never export to the same file at once. *)
OneWriter ==
    \A j, k \in Jobs : /\ child[j] \in Alive /\ child[k] \in Alive
                       /\ Target[j] = Target[k]
                       => j = k

(* startExport and finalize: a fresh lock always has a job that holds it or
   was abandoned with it, so a refusal is never due to a finished export. *)
FreshLockHasHolder ==
    \A t \in Targets : lock[t] = "fresh" =>
        \E j \in Jobs : Target[j] = t /\ phase[j] \in {"locked", "running", "abandoned"}

(* m_pollTimer: while an open instance has a running job its watchdog runs. *)
PollerRuns ==
    \A j \in Jobs : phase[j] = "running" => timer[Inst[j]]

(* finalize: a job that was launched and has ended leaves no temporary .chr. *)
TempRemoved ==
    \A j \in Jobs : phase[j] \in {"reporting", "done"} => ~temp[j]

(* onPoll drains before it judges: a child whose progress is waiting in the
   pipe is killed by a poll only if the user asked for it. *)
OnlySilentKilled ==
    [][\A i \in Instances : Poll(i) =>
          \A j \in Running(i) : pipe[j] > 0 /\ child[j] \in Alive /\ child'[j] = "dead"
                                => cancel[j] = "asked"]_vars

(* Watchdog and termination event: every launched job ends, wedged child or
   not, and leaves the list unless its instance is closed first. *)
LaunchedEnds ==
    \A j \in Jobs : (phase[j] = "running") ~> (phase[j] \in {"done", "abandoned"})

(* The abstract view of this manager: a job is active while its child is   *)
(* supervised, and the content of a target is its last complete file.      *)
JobView == [j \in Jobs |->
              CASE phase[j] \in {"new", "checked", "locked"} -> "idle"
                [] phase[j] = "refused"                      -> "rejected"
                [] phase[j] = "running"                      -> "active"
                [] phase[j] = "abandoned"                    -> "lost"
                [] OTHER                                     -> result[j]]

Service == INSTANCE ExportService WITH job <- JobView, content <- file

(* startExport, finalize and the destructor together implement the service:
   exports to one target take turns and a success is a complete own file. *)
ServiceImplemented == Service!Spec

=============================================================================
