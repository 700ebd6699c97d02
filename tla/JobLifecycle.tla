---------------------------- MODULE JobLifecycle ----------------------------
(***************************************************************************)
(* What the job store (internal/apps/jobs/store.go) promises the pollers   *)
(* of /api/jobs: a job is created queued, begins running once, is reported *)
(* succeeded only from running, and once failed it stays failed.  A        *)
(* succeeded job may still fail: ReconcileOnStartup demotes an update that *)
(* did not take effect.  Detailed specifications implement this one.       *)
(***************************************************************************)
CONSTANT Jobs

VARIABLE status

\* "none" is an identifier the store has not handed out yet.
Statuses == {"none", "queued", "running", "succeeded", "failed"}

Init == status = [j \in Jobs |-> "none"]

Move(j, from, to) ==
    /\ status[j] \in from
    /\ status' = [status EXCEPT ![j] = to]

Create(j)  == Move(j, {"none"}, "queued")
Begin(j)   == Move(j, {"queued"}, "running")
Succeed(j) == Move(j, {"running"}, "succeeded")
Fail(j)    == Move(j, {"queued", "running", "succeeded"}, "failed")

Next == \E j \in Jobs : Create(j) \/ Begin(j) \/ Succeed(j) \/ Fail(j)

Spec == Init /\ [][Next]_status
=============================================================================
