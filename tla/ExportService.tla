---------------------------- MODULE ExportService ----------------------------
(***************************************************************************)
(* What the export manager promises its user, without processes, locks,    *)
(* sidecars, timers or dialogs: exports to one target take turns and a     *)
(* reported success is a complete file of that export.                     *)
(***************************************************************************)
CONSTANTS Jobs, Targets, Target, NoJob

VARIABLES job,      \* job[j]: idle, rejected, active, or how it ended
          content   \* content[t]: the job whose complete file is at t

vars == <<job, content>>

Init == /\ job = [j \in Jobs |-> "idle"]
        /\ content = [t \in Targets |-> NoJob]

Reject(j) == /\ job[j] = "idle"
             /\ job' = [job EXCEPT ![j] = "rejected"]
             /\ UNCHANGED content

Start(j) == /\ job[j] = "idle"
            /\ \A k \in Jobs : job[k] = "active" => Target[k] # Target[j]
            /\ job' = [job EXCEPT ![j] = "active"]
            /\ UNCHANGED content

(* Only an export that may still be running touches its target.            *)
Write(j, c) == /\ job[j] \in {"active", "lost"}
               /\ content' = [content EXCEPT ![Target[j]] = c]
               /\ UNCHANGED job

Finish(j, r) == /\ job[j] = "active"
                /\ r = "ok" => content[Target[j]] = j
                /\ job' = [job EXCEPT ![j] = r]
                /\ UNCHANGED content

(* The application closes: its exports go on but nobody reports them.      *)
Lose(J) == /\ J # {} /\ \A j \in J : job[j] = "active"
           /\ job' = [j \in Jobs |-> IF j \in J THEN "lost" ELSE job[j]]
           /\ UNCHANGED content

Next == \/ \E j \in Jobs : Reject(j) \/ Start(j)
        \/ \E j \in Jobs : Write(j, NoJob) \/ Write(j, j)
        \/ \E j \in Jobs, r \in {"ok", "failed", "cancelled"} : Finish(j, r)
        \/ \E J \in SUBSET Jobs : Lose(J)

Spec == Init /\ [][Next]_vars
=============================================================================
