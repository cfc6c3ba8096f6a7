----------------------------- MODULE MCExportJobs -----------------------------
(* Instances of ExportJobs for TLC.  a and b export the same asset to the  *)
(* same file; c is a character exported to that file too.                  *)
EXTENDS ExportJobs, TLC

CONSTANTS a, b, c, w1, w2, t

(* All requests made in one instance: the lock only meets its own jobs.    *)
OneInst == (a :> w1) @@ (b :> w1) @@ (c :> w1)
(* a and b made in two copies of the application.                          *)
TwoInst == (a :> w1) @@ (b :> w2) @@ (c :> w1)
Assets  == (a :> "boar") @@ (b :> "boar") @@ (c :> "character")
(* One target for all.                                                     *)
OneTarget  == (a :> t) @@ (b :> t) @@ (c :> t)

InstOne   == [j \in Jobs |-> OneInst[j]]
InstTwo   == [j \in Jobs |-> TwoInst[j]]
AssetOf   == [j \in Jobs |-> Assets[j]]
TargetOne == [j \in Jobs |-> OneTarget[j]]
=============================================================================
