---------------------------- MODULE UpdateServer ----------------------------
(***************************************************************************)
(* The daemon as a tab of the web UI sees it while an update is installed: *)
(* a process that is there or not, the release it runs, the self-update    *)
(* jobs, and the session of this browser, which is kept in memory          *)
(* (internal/auth) and dies with the process.  Of what happens inside an   *)
(* install, which is SelfUpdate.tla, there are the steps that a restart or *)
(* a tab can tell apart: the download, the binary, the marker, the end.    *)
(* (The two renames that replace the binary are one step here.)            *)
(***************************************************************************)
EXTENDS Naturals

CONSTANTS
    MaxJobs,     \* bound: self-update jobs
    MaxReleases, \* bound: the releases newer than the one that runs at first
    MaxBoots,    \* bound: processes that are started after the first one
    MaxSignIns   \* bound: sign-ins after the first one

ASSUME ServerAssumption ==
    /\ MaxJobs \in Nat
    /\ MaxReleases \in Nat
    /\ MaxBoots \in Nat
    /\ MaxSignIns \in Nat

\* Self-update jobs, by the order in which they are created.
Jobs == 1..MaxJobs
None == 0

\* Releases, by the order of their versions.
Releases == 0..MaxReleases

\* The marker of an installed update: none, that of a job, or one whose write
\* did not finish.
Torn == MaxJobs + 1
Markers == Jobs \cup {None, Torn}

VARIABLES
    up,         \* the API answers
    boots,      \* processes started so far, the first one not counted
    latest,     \* the newest release on GitHub
    serving,    \* the release the process runs
    installed,  \* the release of the binary on disk
    marker,     \* an installed update waits for a restart
    stopping,   \* systemd has been asked to restart the service
    known,      \* the release the checks of this process found last
    stage,      \* how far the install is that has the updater, or idle
    target,     \* target[j]: the release a job installs
    job,        \* job[j]: status of a self-update job in the job store
    signedIn,   \* the cookie of this browser names a session in memory
    signIns     \* sign-ins so far

installVars == <<installed, marker, stage, target, job>>
serverVars  == <<up, boots, latest, serving, stopping, known, installVars,
                 signedIn, signIns>>

Stages   == {"idle", "fetch", "place", "arm", "succeed", "clean"}
Statuses == {"none", "running", "succeeded", "failed"}

ServerTypeOK ==
    /\ up \in BOOLEAN /\ boots \in 0..MaxBoots
    /\ latest \in Releases /\ serving \in Releases /\ installed \in Releases
    /\ known \in Releases
    /\ marker \in Markers
    /\ stopping \in BOOLEAN
    /\ stage \in Stages
    /\ target \in [Jobs -> Releases]
    /\ job \in [Jobs -> Statuses]
    /\ signedIn \in BOOLEAN /\ signIns \in 0..MaxSignIns

ServerInit ==
    /\ up = TRUE
    /\ boots = 0
    /\ latest \in Releases
    /\ serving = 0
    /\ installed = 0
    /\ marker = None
    /\ stopping = FALSE
    /\ known = latest
    /\ stage = "idle"
    /\ target = [j \in Jobs |-> 0]
    /\ job = [j \in Jobs |-> "none"]
    /\ signedIn \in BOOLEAN
    /\ signIns = 0

-----------------------------------------------------------------------------
(* An install, and the release check, go on by themselves.                  *)

\* The install that has the updater, for job j, passes from a stage to the next.
Advance(j, from, to) ==
    /\ up /\ stage = from /\ job[j] = "running"
    /\ stage' = to
    /\ UNCHANGED <<up, boots, latest, serving, stopping, known, target, signedIn,
                   signIns>>

\* fetchRelease, whose client knows no timeout, and what comes before the binary.
Fetched(j) ==
    /\ Advance(j, "fetch", "place")
    /\ UNCHANGED <<installed, marker, job>>

\* installBinary.
Place(j) ==
    /\ Advance(j, "place", "arm")
    /\ installed' = target[j]
    /\ UNCHANGED <<marker, job>>

\* The marker arms Restart.
Arm(j) ==
    /\ Advance(j, "arm", "succeed")
    /\ marker' = j
    /\ UNCHANGED <<installed, job>>

Succeed(j) ==
    /\ Advance(j, "succeed", "clean")
    /\ job' = [job EXCEPT ![j] = "succeeded"]
    /\ UNCHANGED <<installed, marker>>

\* A step fails: the unit file and the marker come after the binary, and a
\* marker that cannot be written is left torn.
Fail(j) ==
    /\ \E from \in {"fetch", "place", "arm"} : Advance(j, from, "clean")
    /\ job' = [job EXCEPT ![j] = "failed"]
    /\ \/ marker' = marker
       \/ stage = "arm" /\ marker' = Torn
    /\ UNCHANGED installed

\* The staging directory is removed, and the updater is free again.
Finish ==
    /\ up /\ stage = "clean"
    /\ stage' = "idle"
    /\ UNCHANGED <<up, boots, latest, serving, installed, marker, stopping, known,
                   target, job, signedIn, signIns>>

\* A release is published.
Publish ==
    /\ latest < MaxReleases
    /\ latest' = latest + 1
    /\ UNCHANGED <<up, boots, serving, stopping, known, installVars, signedIn,
                   signIns>>

\* Refresh, by the ticker: the cache learns of the release, or keeps what it has.
Check ==
    /\ up /\ known # latest
    /\ known' = latest
    /\ UNCHANGED <<up, boots, latest, serving, stopping, installVars, signedIn,
                   signIns>>

-----------------------------------------------------------------------------
(* The end of a process and the start of the next.                          *)

\* The process ends: systemd was asked, or it crashed.  Sessions and the
\* install that was under way go with it, wherever it is; a marker that was
\* being written is left torn.
Stop ==
    /\ up /\ boots < MaxBoots
    /\ up' = FALSE
    /\ signedIn' = FALSE
    /\ known' = 0
    /\ stopping' = FALSE
    /\ stage' = "idle"
    /\ \/ marker' = marker
       \/ stage = "arm" /\ marker' = Torn
    /\ UNCHANGED <<boots, latest, serving, installed, target, job, signIns>>

\* The process starts from what is on disk, judges the job of the marker by
\* the release it runs, fails the jobs its predecessor left, and serves
\* (ReconcileOnStartup).
Boot ==
    /\ ~up
    /\ up' = TRUE
    /\ boots' = boots + 1
    /\ serving' = installed
    /\ marker' = None
    /\ job' = [j \in Jobs |->
                 IF job[j] = "running" \/ (j = marker /\ target[j] # installed)
                 THEN "failed" ELSE job[j]]
    /\ UNCHANGED <<latest, installed, stopping, known, stage, target, signedIn,
                   signIns>>

-----------------------------------------------------------------------------
(* What the handlers answer.  A request may always be lost on its way, or   *)
(* meet nginx without the daemon behind it: to the tab both are the same.   *)

\* A plain GET behind RequireAuth (internal/api/middleware/auth.go).
Reply == {"unreachable"} \cup
         (IF ~up THEN {} ELSE IF signedIn THEN {"ok"} ELSE {"unauthorized"})

\* POST /update on a valid session: a job, or a conflict, or no update.
StartUpdate(j) ==
    /\ up /\ signedIn
    /\ stage = "idle" /\ serving < latest
    /\ \A i \in Jobs : job[i] = "none" <=> i >= j
    /\ job' = [job EXCEPT ![j] = "running"]
    /\ target' = [target EXCEPT ![j] = latest]
    /\ stage' = "fetch"
    /\ known' = latest
    /\ UNCHANGED <<up, boots, latest, serving, installed, marker, stopping,
                   signedIn, signIns>>

\* POST /update/restart on a valid session.
RestartAllowed == up /\ signedIn /\ marker \in Jobs /\ stage = "idle"

AskRestart ==
    /\ RestartAllowed
    /\ stopping' = TRUE
    /\ UNCHANGED <<up, boots, latest, serving, known, installVars, signedIn,
                   signIns>>

\* POST /auth/login with the right password, in any tab of this browser.
SignIn ==
    /\ up /\ signIns < MaxSignIns
    /\ signedIn' = TRUE
    /\ signIns' = signIns + 1
    /\ UNCHANGED <<up, boots, latest, serving, stopping, known, installVars>>

\* POST /auth/logout, in any tab of this browser.
SignOut ==
    /\ up /\ signedIn
    /\ signedIn' = FALSE
    /\ UNCHANGED <<up, boots, latest, serving, stopping, known, installVars,
                   signIns>>
=============================================================================
