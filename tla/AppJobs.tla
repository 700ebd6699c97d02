------------------------------ MODULE AppJobs -------------------------------
(***************************************************************************)
(* App jobs (internal/apps/service.go): a request checks what the host     *)
(* has installed, creates a job and spawns a goroutine that runs an        *)
(* Ansible playbook, looks at the host again and reports.  Nothing keeps   *)
(* two jobs off one app, and looking at the host takes one command per     *)
(* artifact (internal/apps/detect/detect.go).  A restart of the process    *)
(* ends its goroutines and playbooks; host and job store survive it.       *)
(***************************************************************************)
EXTENDS Naturals

CONSTANTS
    Requests,      \* POST requests, each with the one job it may create
    Apps,          \* the catalog
    Dependencies,  \* Dependencies[a]: the apps that must be there before a
    Pieces,        \* the artifacts an app is detected by
    MaxRestarts,   \* bound: how often the process ends
    None           \* no request

ASSUME ConstantsAssumption ==
    /\ Dependencies \in [Apps -> SUBSET Apps]
    /\ Pieces # {}
    /\ MaxRestarts \in Nat
    /\ None \notin Requests

VARIABLES
    pc,        \* pc[r]: what request r, or the goroutine it spawned, does next
    app,       \* app[r]: the app it is about
    action,    \* action[r]: what it asks for
    seen,      \* seen[r]: the artifacts its present look at the host has found
    left,      \* left[r]: the artifacts its playbook has yet to deal with
    status,    \* job store: the status of the job of request r
    host,      \* host[a]: the artifacts of app a on the host
    latest,    \* latest[a]: the job that looked at a last, if that settles a
    restarts   \* restarts so far

vars == <<pc, app, action, seen, left, status, host, latest, restarts>>

Actions == {"install", "upgrade", "remove"}

Stages == {"idle", "asking", "accepted", "created", "spawned", "playing",
           "exited", "looking", "right", "wrong", "done", "lost"}

Installed(a) == host[a] = Pieces

\* A request that is under way in this process, or its goroutine.
Active(r) == pc[r] \notin {"idle", "done", "lost"}
Quiet(a)  == \A r \in Requests : Active(r) => app[r] # a

Unfinished(r) == status[r] \in {"queued", "running"}

At(r, s)   == pc[r] = s
Goto(r, s) == pc' = [pc EXCEPT ![r] = s]

\* A host may have any apps; what is there is whole.
Init ==
    /\ pc = [r \in Requests |-> "idle"]
    /\ app \in [Requests -> Apps]
    /\ action \in [Requests -> Actions]
    /\ seen = [r \in Requests |-> {}]
    /\ left = [r \in Requests |-> {}]
    /\ status = [r \in Requests |-> "none"]
    /\ host \in [Apps -> {{}, Pieces}]
    /\ latest = [a \in Apps |-> None]
    /\ restarts = 0

-----------------------------------------------------------------------------
(* InstalledForUser: one artifact after the other, up to the first absent   *)
(* one.                                                                     *)

Find(r, p) ==
    /\ pc[r] \in {"asking", "looking"}
    /\ p \in host[app[r]] \ seen[r]
    /\ seen' = [seen EXCEPT ![r] = @ \cup {p}]
    /\ UNCHANGED <<pc, app, action, left, status, host, latest, restarts>>

FoundAll(r)    == seen[r] = Pieces
FoundAbsent(r) == \E p \in Pieces \ seen[r] : p \notin host[app[r]]

-----------------------------------------------------------------------------
(* startJob.                                                                *)

Ask(r) ==
    /\ At(r, "idle")
    /\ Goto(r, "asking")
    /\ seen' = [seen EXCEPT ![r] = {}]
    /\ UNCHANGED <<app, action, left, status, host, latest, restarts>>

DependenciesSatisfied(a) == \A d \in Dependencies[a] : Installed(d)

Accept(r) ==
    /\ At(r, "asking")
    /\ IF action[r] = "install"
       THEN FoundAbsent(r) /\ DependenciesSatisfied(app[r])
       ELSE FoundAll(r)
    /\ Goto(r, "accepted")
    /\ UNCHANGED <<app, action, seen, left, status, host, latest, restarts>>

\* The wrong state, missing dependencies, or no playbook in the tree.
Refuse(r) ==
    /\ \/ /\ At(r, "asking")
          /\ IF action[r] = "install"
             THEN FoundAll(r) \/ ~DependenciesSatisfied(app[r])
             ELSE FoundAbsent(r)
       \/ At(r, "accepted")
    /\ Goto(r, "done")
    /\ UNCHANGED <<app, action, seen, left, status, host, latest, restarts>>

Create(r) ==
    /\ At(r, "accepted")
    /\ status' = [status EXCEPT ![r] = "queued"]
    /\ Goto(r, "created")
    /\ UNCHANGED <<app, action, seen, left, host, latest, restarts>>

\* enrichAppVars has what it needs; the goroutine is spawned.
Spawn(r) ==
    /\ At(r, "created")
    /\ Goto(r, "spawned")
    /\ UNCHANGED <<app, action, seen, left, status, host, latest, restarts>>

FailToEnrich_Unreported(r) ==
    /\ At(r, "created") /\ action[r] # "remove"
    /\ Goto(r, "done")
    /\ UNCHANGED <<app, action, seen, left, status, host, latest, restarts>>

\* enrichAppVars fails: the caller gets an error instead of the job.
FailToEnrich(r) ==
    /\ At(r, "created") /\ action[r] # "remove"
    /\ status' = [status EXCEPT ![r] = "failed"]
    /\ Goto(r, "done")
    /\ UNCHANGED <<app, action, seen, left, host, latest, restarts>>

-----------------------------------------------------------------------------
(* runJob up to the end of the playbook.                                    *)

Begin_Unmarked(r) ==
    /\ At(r, "spawned")
    /\ left' = [left EXCEPT ![r] = Pieces]
    /\ Goto(r, "playing")
    /\ UNCHANGED <<app, action, seen, status, host, latest, restarts>>

\* MarkRunning, then Run.
Begin(r) ==
    /\ At(r, "spawned")
    /\ status' = [status EXCEPT ![r] = "running"]
    /\ left' = [left EXCEPT ![r] = Pieces]
    /\ Goto(r, "playing")
    /\ UNCHANGED <<app, action, seen, host, latest, restarts>>

\* A task of the playbook: an install or an upgrade clears an artifact it is
\* about to replace (sonarr/install.yml removes /opt/Sonarr) or puts it there;
\* a removal takes it away.
Task(r, p) ==
    /\ At(r, "playing") /\ p \in left[r]
    /\ \/ /\ action[r] # "remove"
          /\ host' = [host EXCEPT ![app[r]] = @ \cup {p}]
          /\ left' = [left EXCEPT ![r] = @ \ {p}]
       \/ /\ action[r] # "remove"
          /\ host' = [host EXCEPT ![app[r]] = @ \ {p}]
          /\ UNCHANGED left
       \/ /\ action[r] = "remove"
          /\ host' = [host EXCEPT ![app[r]] = @ \ {p}]
          /\ left' = [left EXCEPT ![r] = @ \ {p}]
    /\ UNCHANGED <<pc, app, action, seen, status, latest, restarts>>

\* ansible-playbook exits 0 after its last task.
Exit(r) ==
    /\ At(r, "playing") /\ left[r] = {}
    /\ Goto(r, "exited")
    /\ UNCHANGED <<app, action, seen, left, status, host, latest, restarts>>

\* Run returns an error: at any task, or because nothing could be started.
Abort(r) ==
    /\ At(r, "playing")
    /\ latest' = [latest EXCEPT ![app[r]] = None]
    /\ Goto(r, "wrong")
    /\ UNCHANGED <<app, action, seen, left, status, host, restarts>>

-----------------------------------------------------------------------------
(* runJob after the playbook: a second look at the host, and the verdict.   *)

Look_OldAnswer(r) ==
    /\ At(r, "exited")
    /\ latest' = [latest EXCEPT ![app[r]] = r]
    /\ Goto(r, "looking")
    /\ UNCHANGED <<app, action, seen, left, status, host, restarts>>

Look(r) ==
    /\ At(r, "exited")
    /\ seen' = [seen EXCEPT ![r] = {}]
    /\ latest' = [latest EXCEPT ![app[r]] = r]
    /\ Goto(r, "looking")
    /\ UNCHANGED <<app, action, left, status, host, restarts>>

Judge_Silent(r) ==
    /\ At(r, "looking")
    /\ \/ FoundAll(r) /\ Goto(r, IF action[r] = "remove" THEN "done" ELSE "right")
       \/ FoundAbsent(r) /\ Goto(r, IF action[r] = "remove" THEN "right" ELSE "wrong")
    /\ UNCHANGED <<app, action, seen, left, status, host, latest, restarts>>

\* Installs and upgrades want the app detected, removals the opposite.
Judge(r) ==
    /\ At(r, "looking")
    /\ \/ FoundAll(r) /\ Goto(r, IF action[r] = "remove" THEN "wrong" ELSE "right")
       \/ FoundAbsent(r) /\ Goto(r, IF action[r] = "remove" THEN "right" ELSE "wrong")
    /\ UNCHANGED <<app, action, seen, left, status, host, latest, restarts>>

Report_UnknownStatus(r) ==
    /\ pc[r] \in {"right", "wrong"}
    /\ status' = [status EXCEPT ![r] =
                    IF At(r, "right") THEN "succeeded" ELSE "error"]
    /\ Goto(r, "done")
    /\ UNCHANGED <<app, action, seen, left, host, latest, restarts>>

\* SetStatus.
Report(r) ==
    /\ pc[r] \in {"right", "wrong"}
    /\ status' = [status EXCEPT ![r] =
                    IF At(r, "right") THEN "succeeded" ELSE "failed"]
    /\ Goto(r, "done")
    /\ UNCHANGED <<app, action, seen, left, host, latest, restarts>>

-----------------------------------------------------------------------------

\* The process ends and a new one comes up.  systemd ends the playbooks with
\* it; ReconcileOnStartup settles no jobs but those of the self-update.
Restart ==
    /\ restarts < MaxRestarts
    /\ restarts' = restarts + 1
    /\ pc' = [r \in Requests |-> IF Active(r) THEN "lost" ELSE pc[r]]
    /\ latest' = [a \in Apps |-> IF Quiet(a) THEN latest[a] ELSE None]
    /\ UNCHANGED <<app, action, seen, left, status, host>>

Request(r) ==
    \/ Ask(r) \/ Accept(r) \/ Refuse(r) \/ Create(r) \/ Spawn(r) \/ FailToEnrich(r)

Goroutine(r) == Begin(r) \/ Look(r) \/ Judge(r) \/ Report(r)

Playbook(r) == Exit(r) \/ Abort(r) \/ \E p \in Pieces : Task(r, p)

Looking(r) == \E p \in Pieces : Find(r, p)

Next ==
    \/ \E r \in Requests : Request(r) \/ Goroutine(r) \/ Playbook(r) \/ Looking(r)
    \/ Restart

Spec == Init /\ [][Next]_vars

\* The runtime schedules goroutines, and the commands that look at the host
\* end.  Playbooks need not: Run has neither a timeout nor a way to cancel.
Fairness ==
    \A r \in Requests :
        WF_vars((Request(r) /\ ~At(r, "idle")) \/ Goroutine(r) \/ Looking(r))

FairSpec == Spec /\ Fairness

-----------------------------------------------------------------------------

\* The state is well formed.
TypeOK ==
    /\ pc \in [Requests -> Stages]
    /\ app \in [Requests -> Apps]
    /\ action \in [Requests -> Actions]
    /\ seen \in [Requests -> SUBSET Pieces]
    /\ left \in [Requests -> SUBSET Pieces]
    /\ status \in [Requests -> {"none", "queued", "running", "succeeded", "failed"}]
    /\ host \in [Apps -> SUBSET Pieces]
    /\ latest \in [Apps -> Requests \cup {None}]
    /\ restarts \in 0..MaxRestarts

\* Every unfinished job is being worked on, or was cut off by a restart: no
\* path through startJob and runJob forgets to report (service.go:136-194).
UnfinishedHasOwner ==
    \A r \in Requests : Unfinished(r) => Active(r) \/ At(r, "lost")

\* What the user is left with is what the jobs said: once no job works on an
\* app, the one that looked at the host last told the truth about it, if no
\* playbook failed since (a failed one may leave the app in any state).  This
\* is what looking only after one's own playbook is for (service.go:180).
LastLookIsTrue ==
    \A a \in Apps : Quiet(a) /\ latest[a] # None =>
        (status[latest[a]] = "succeeded"
            <=> (Installed(a) <=> action[latest[a]] # "remove"))

Lifecycle == INSTANCE JobLifecycle WITH Jobs <- Requests

\* App jobs, too, live as JobLifecycle says.
ImplementsLifecycle == Lifecycle!Spec

\* A job does not stay queued or running, except by a restart or because its
\* playbook never ends.
JobsEnd ==
    \A r \in Requests :
        Unfinished(r) ~> (~Unfinished(r) \/ At(r, "lost") \/ []At(r, "playing"))
=============================================================================
