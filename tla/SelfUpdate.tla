----------------------------- MODULE SelfUpdate -----------------------------
(***************************************************************************)
(* The self-update of the brrewery daemon (internal/selfupdate): Start     *)
(* claims the updater, a goroutine downloads a release and installs it     *)
(* over the live files, Restart asks systemd for the new binary, and       *)
(* ReconcileOnStartup settles in the new process what the old one left.    *)
(* The process may die between any two steps; the files survive it.        *)
(***************************************************************************)
EXTENDS Naturals

CONSTANTS
    Requests,    \* POST /update calls, each with the goroutine it may spawn
    Jobs,        \* identifiers newJobID hands out
    MaxVersion,  \* bound: releases are the versions 0..MaxVersion
    MaxCrashes,  \* bound: how often the process dies unasked
    None,        \* an absent file, marker or job
    Torn         \* a file truncated by a copy that did not finish

ASSUME BoundsAssumption == MaxVersion \in Nat /\ MaxCrashes \in Nat
ASSUME ValuesAssumption ==
    /\ None \notin Nat /\ Torn \notin Nat /\ None # Torn
    /\ None \notin Jobs
    /\ \A j \in Jobs, v \in 0..MaxVersion :
          [job |-> j, release |-> v] \notin {None, Torn}

VARIABLES
    proc,     \* the process: down, starting up (three steps), or serving
    version,  \* buildinfo.Version of the running process
    running,  \* Updater.running
    pc,       \* pc[r]: what request r, or the goroutine it spawned, does next
    work,     \* work[r]: the locals of that goroutine
    restart,  \* where the POST /update/restart handler stands
    status,   \* job store: status[j]
    error,    \* job store: why job j failed
    disk,     \* the files the updater touches
    latest,   \* the newest published release
    queued,   \* systemd holds a restart job for the service
    crashes   \* unasked deaths so far (counts toward MaxCrashes)

daemon == <<proc, version, running, restart>>
store  == <<status, error>>
world  == <<latest, queued, crashes>>
vars   == <<proc, version, running, pc, work, restart, status, error, disk,
            latest, queued, crashes>>

Versions == 0..MaxVersion
Contents == Versions \cup {None, Torn}

Stages == {"idle", "check", "queued", "fetch", "stage", "aside", "swap",
           "backup", "conf", "confWrite", "vhost", "vhostWrite", "name",
           "nameWrite", "test", "undoConf", "undoVhost", "reload", "copyBinary",
           "moveBinary", "newBinary", "unit", "unitWrite", "daemonReload",
           "marker", "markerWrite", "succeed", "fail", "clean", "release"}

Errors == {"", "fetch", "playbooks", "nginx", "nginx-test", "nginx-restore",
           "binary", "unit", "marker", "interrupted", "version"}

\* The vhost file carries, besides its release, the operator's server_name.
Vhosts  == [release : Contents, named : BOOLEAN]
Markers == [job : Jobs, release : Versions] \cup {None, Torn}

\* One representative stands for the five nginx files other than the vhost.
Disks == [binary : Versions \cup {None}, backupBinary : Versions \cup {None},
          playbooks : Versions \cup {None}, oldPlaybooks : Versions \cup {None},
          conf : Contents, vhost : Vhosts, unit : Contents, marker : Markers,
          staging : Contents, confBackup : Contents, vhostBackup : Vhosts]

NoVhost == [release |-> None, named |-> FALSE]
NoWork  == [tag |-> 0, job |-> None, named |-> FALSE, err |-> ""]

Active(r)     == pc[r] # "idle"
At(r, s)      == pc[r] = s
Goto(r, s)    == pc' = [pc EXCEPT ![r] = s]
Unfinished(j) == status[j] \in {"queued", "running"}

\* A marker Restart and ReconcileOnStartup can decode.
Armed == disk.marker \notin {None, Torn}

\* The service runs again only from a binary at BinaryPath.
Unbootable == proc = "down" /\ disk.binary = None

-----------------------------------------------------------------------------
(* Install.sh left version 0 of everything, with the operator's domain in   *)
(* the vhost; the daemon serves it.                                         *)
Init ==
    /\ proc = "up" /\ version = 0 /\ running = FALSE /\ restart = "idle"
    /\ pc = [r \in Requests |-> "idle"]
    /\ work = [r \in Requests |-> NoWork]
    /\ status = [j \in Jobs |-> "none"]
    /\ error = [j \in Jobs |-> ""]
    /\ disk = [binary |-> 0, backupBinary |-> None,
               playbooks |-> 0, oldPlaybooks |-> None,
               conf |-> 0, vhost |-> [release |-> 0, named |-> TRUE],
               unit |-> 0, marker |-> None,
               staging |-> None, confBackup |-> None, vhostBackup |-> NoVhost]
    /\ latest = 0 /\ queued = FALSE /\ crashes = 0

\* A new release appears on GitHub.
Publish ==
    /\ latest < MaxVersion
    /\ latest' = latest + 1
    /\ UNCHANGED <<daemon, pc, work, store, disk, queued, crashes>>

-----------------------------------------------------------------------------
(* Start: the request claims the updater, asks GitHub, creates the job.     *)

\* (a definition with an underscored suffix is a faulty variant of the next)
Start_Unclaimed(r) ==
    /\ proc = "up" /\ At(r, "idle")
    /\ running' = TRUE
    /\ Goto(r, "check")
    /\ UNCHANGED <<proc, version, restart, work, store, disk, world>>

\* CompareAndSwap(false, true); a request that loses returns an error.
Start(r) ==
    /\ proc = "up" /\ At(r, "idle")
    /\ ~running
    /\ running' = TRUE
    /\ Goto(r, "check")
    /\ UNCHANGED <<proc, version, restart, work, store, disk, world>>

Refuse_StillClaimed(r) ==
    /\ At(r, "check")
    /\ Goto(r, "idle")
    /\ UNCHANGED <<daemon, work, store, disk, world>>

\* supported() or Refresh fails, or there is nothing newer than this process.
Refuse(r) ==
    /\ At(r, "check")
    /\ running' = FALSE
    /\ Goto(r, "idle")
    /\ UNCHANGED <<proc, version, restart, work, store, disk, world>>

\* Refresh found a newer tag; Jobs bounds how often that happens.
Accept(r) ==
    /\ At(r, "check")
    /\ version < latest
    /\ \E j \in Jobs :
          /\ status[j] = "none"
          /\ status' = [status EXCEPT ![j] = "queued"]
          /\ work' = [work EXCEPT ![r].tag = latest, ![r].job = j]
    /\ Goto(r, "queued")
    /\ UNCHANGED <<daemon, error, disk, world>>

Begin_Unmarked(r) ==
    /\ At(r, "queued")
    /\ Goto(r, "fetch")
    /\ UNCHANGED <<daemon, work, store, disk, world>>

\* The goroutine starts: MarkRunning.
Begin(r) ==
    /\ At(r, "queued")
    /\ status' = [status EXCEPT ![work[r].job] = "running"]
    /\ Goto(r, "fetch")
    /\ UNCHANGED <<daemon, work, error, disk, world>>

-----------------------------------------------------------------------------
(* install: every step leaves a disk behind and either goes on or makes     *)
(* install return an error, which run() reports.                            *)

Advance(r, from, to, newDisk) ==
    /\ At(r, from)
    /\ disk' = newDisk
    /\ Goto(r, to)
    /\ UNCHANGED <<daemon, work, store, world>>

Abort(r, from, newDisk, e) ==
    /\ At(r, from)
    /\ disk' = newDisk
    /\ work' = [work EXCEPT ![r].err = e]
    /\ Goto(r, "fail")
    /\ UNCHANGED <<daemon, store, world>>

\* copyFile and os.WriteFile truncate the file first, then write it; either
\* call may fail, and the second leaves the file torn.
Overwrite(r, from, writing, to, truncated, written, e) ==
    \/ Advance(r, from, writing, truncated)
    \/ Abort(r, from, disk, e)
    \/ Advance(r, writing, to, written)
    \/ Abort(r, writing, disk, e)

\* Clear staging, download, verify, extract and validate the release.
FetchRelease(r) ==
    \/ Advance(r, "fetch", "stage", [disk EXCEPT !.staging = work[r].tag,
                      !.confBackup = None, !.vhostBackup = NoVhost])
    \/ Abort(r, "fetch", [disk EXCEPT !.staging = Torn,
                      !.confBackup = None, !.vhostBackup = NoVhost], "fetch")

\* swapDir drops what an earlier swap left over and copies the new tree.
StagePlaybooks(r) ==
    \/ Advance(r, "stage", "aside", [disk EXCEPT !.oldPlaybooks = None])
    \/ Abort(r, "stage", [disk EXCEPT !.oldPlaybooks = None], "playbooks")

\* A live tree, when there is one, is renamed aside.
MovePlaybooksAside(r) ==
    \/ Advance(r, "aside", "swap", IF disk.playbooks = None THEN disk
          ELSE [disk EXCEPT !.oldPlaybooks = disk.playbooks, !.playbooks = None])
    \/ disk.playbooks # None /\ Abort(r, "aside", disk, "playbooks")

\* The new tree becomes live and the old one goes.
SwapPlaybooks_Unreported(r) ==
    \/ Advance(r, "swap", "backup", [disk EXCEPT !.playbooks = work[r].tag,
                                                 !.oldPlaybooks = None])
    \/ Advance(r, "swap", "backup", [disk EXCEPT !.playbooks = disk.oldPlaybooks,
                                                 !.oldPlaybooks = None])

\* ... or the old tree is renamed back, which may fail as well.
SwapPlaybooks(r) ==
    \/ Advance(r, "swap", "backup", [disk EXCEPT !.playbooks = work[r].tag,
                                                 !.oldPlaybooks = None])
    \/ Abort(r, "swap", [disk EXCEPT !.playbooks = disk.oldPlaybooks,
                                     !.oldPlaybooks = None], "playbooks")
    \/ Abort(r, "swap", disk, "playbooks")

\* installNginx reads the operator's server_name from the live vhost, then
\* copies the live files into staging.
BackUpNginx(r) ==
    \/ /\ At(r, "backup")
       /\ disk' = [disk EXCEPT !.confBackup = disk.conf, !.vhostBackup = disk.vhost]
       /\ work' = [work EXCEPT ![r].named = disk.vhost.named]
       /\ Goto(r, "conf")
       /\ UNCHANGED <<daemon, store, world>>
    \/ Abort(r, "backup", disk, "nginx")

CopyConf(r) ==
    Overwrite(r, "conf", "confWrite", "vhost",
        [disk EXCEPT !.conf = Torn],
        [disk EXCEPT !.conf = work[r].tag], "nginx")

\* The shipped vhost has the placeholder for a name.
CopyVhost(r) ==
    Overwrite(r, "vhost", "vhostWrite", IF work[r].named THEN "name" ELSE "test",
        [disk EXCEPT !.vhost = [release |-> Torn, named |-> FALSE]],
        [disk EXCEPT !.vhost = [release |-> work[r].tag, named |-> FALSE]], "nginx")

ApplyServerName(r) ==
    Overwrite(r, "name", "nameWrite", "test",
        [disk EXCEPT !.vhost = [release |-> Torn, named |-> FALSE]],
        [disk EXCEPT !.vhost = [release |-> work[r].tag, named |-> TRUE]], "nginx")

\* enableDefaultSite, then `nginx -t`: the new configuration passes, or the
\* link cannot be made, or nginx refuses it and the backups go back.
TestNginx(r) ==
    \/ Advance(r, "test", "reload", disk)
    \/ Abort(r, "test", disk, "nginx")
    \/ /\ At(r, "test")
       /\ work' = [work EXCEPT ![r].err = "nginx-test"]
       /\ Goto(r, "undoConf")
       /\ UNCHANGED <<daemon, store, disk, world>>

\* restoreNginxBackups goes on after a file it cannot restore, and logs it.
Restore(r, from, to, restored, failed) ==
    /\ At(r, from)
    /\ Goto(r, to)
    /\ \/ disk' = restored /\ UNCHANGED work
       \/ /\ disk' \in failed
          /\ work' = [work EXCEPT ![r].err = "nginx-restore"]
    /\ UNCHANGED <<daemon, store, world>>

RestoreConf(r) ==
    Restore(r, "undoConf", "undoVhost",
        [disk EXCEPT !.conf = disk.confBackup],
        {disk, [disk EXCEPT !.conf = Torn]})

RestoreVhost_Skipped(r) ==
    Restore(r, "undoVhost", "fail", disk, {disk})

RestoreVhost(r) ==
    Restore(r, "undoVhost", "fail",
        [disk EXCEPT !.vhost = disk.vhostBackup],
        {disk, [disk EXCEPT !.vhost = [release |-> Torn, named |-> FALSE]]})

\* Reload, or start, nginx; both may fail.
ReloadNginx(r) ==
    \/ Advance(r, "reload", "copyBinary", disk)
    \/ Abort(r, "reload", disk, "nginx")

CopyBinary_InPlace(r) ==
    Overwrite(r, "copyBinary", "moveBinary", "unit",
        [disk EXCEPT !.binary = Torn],
        [disk EXCEPT !.binary = work[r].tag], "binary")

\* installBinary copies the new binary beside the live one and drops the
\* backup of the update before, if there is a binary to take its place.
CopyBinary(r) ==
    \/ Advance(r, "copyBinary", "moveBinary", IF disk.binary = None THEN disk
          ELSE [disk EXCEPT !.backupBinary = None])
    \/ Abort(r, "copyBinary", disk, "binary")

MoveBinary_Removed(r) ==
    \/ Advance(r, "moveBinary", "newBinary", [disk EXCEPT !.binary = None])
    \/ Abort(r, "moveBinary", disk, "binary")

MoveBinary(r) ==
    \/ Advance(r, "moveBinary", "newBinary", IF disk.binary = None THEN disk
          ELSE [disk EXCEPT !.backupBinary = disk.binary, !.binary = None])
    \/ disk.binary # None /\ Abort(r, "moveBinary", disk, "binary")

\* The second rename, undone from the backup when it fails.
ActivateBinary(r) ==
    \/ Advance(r, "newBinary", "unit", [disk EXCEPT !.binary = work[r].tag])
    \/ Abort(r, "newBinary", IF disk.backupBinary = None THEN disk
          ELSE [disk EXCEPT !.binary = disk.backupBinary, !.backupBinary = None],
          "binary")
    \/ Abort(r, "newBinary", disk, "binary")

CopyUnit_ErrorIgnored(r) ==
    \/ Advance(r, "unit", "unitWrite", [disk EXCEPT !.unit = Torn])
    \/ Advance(r, "unitWrite", "daemonReload", [disk EXCEPT !.unit = work[r].tag])
    \/ Advance(r, "unitWrite", "daemonReload", disk)

CopyUnit(r) ==
    Overwrite(r, "unit", "unitWrite", "daemonReload",
        [disk EXCEPT !.unit = Torn],
        [disk EXCEPT !.unit = work[r].tag], "unit")

DaemonReload(r) ==
    \/ Advance(r, "daemonReload", "marker", disk)
    \/ Abort(r, "daemonReload", disk, "unit")

WriteMarker_RunningVersion(r) ==
    Overwrite(r, "marker", "markerWrite", "succeed",
        [disk EXCEPT !.marker = Torn],
        [disk EXCEPT !.marker = [job |-> work[r].job, release |-> version]],
        "marker")

\* The marker arms Restart and names the job to the next process.
WriteMarker(r) ==
    Overwrite(r, "marker", "markerWrite", "succeed",
        [disk EXCEPT !.marker = Torn],
        [disk EXCEPT !.marker = [job |-> work[r].job, release |-> work[r].tag]],
        "marker")

Install(r) ==
    \/ StagePlaybooks(r) \/ MovePlaybooksAside(r) \/ SwapPlaybooks(r)
    \/ BackUpNginx(r) \/ CopyConf(r) \/ CopyVhost(r) \/ ApplyServerName(r)
    \/ TestNginx(r) \/ RestoreConf(r) \/ RestoreVhost(r) \/ ReloadNginx(r)
    \/ CopyBinary(r) \/ MoveBinary(r) \/ ActivateBinary(r)
    \/ CopyUnit(r) \/ DaemonReload(r) \/ WriteMarker(r)

-----------------------------------------------------------------------------
(* run() reports the outcome, empties staging and releases the updater, in  *)
(* this order.                                                              *)

Succeed(r) ==
    /\ At(r, "succeed")
    /\ status' = [status EXCEPT ![work[r].job] = "succeeded"]
    /\ error' = [error EXCEPT ![work[r].job] = ""]
    /\ Goto(r, "clean")
    /\ UNCHANGED <<daemon, work, disk, world>>

FailJob_ReleasedEarly(r) ==
    /\ At(r, "fail")
    /\ status' = [status EXCEPT ![work[r].job] = "failed"]
    /\ error' = [error EXCEPT ![work[r].job] = work[r].err]
    /\ running' = FALSE
    /\ Goto(r, "clean")
    /\ UNCHANGED <<proc, version, restart, work, disk, world>>

FailJob(r) ==
    /\ At(r, "fail")
    /\ status' = [status EXCEPT ![work[r].job] = "failed"]
    /\ error' = [error EXCEPT ![work[r].job] = work[r].err]
    /\ Goto(r, "clean")
    /\ UNCHANGED <<daemon, work, disk, world>>

EmptyStaging == [disk EXCEPT !.staging = None, !.confBackup = None,
                             !.vhostBackup = NoVhost]

Clean(r) == Advance(r, "clean", "release", EmptyStaging)

Release(r) ==
    /\ At(r, "release")
    /\ running' = FALSE
    /\ work' = [work EXCEPT ![r] = NoWork]
    /\ Goto(r, "idle")
    /\ UNCHANGED <<proc, version, restart, store, disk, world>>

-----------------------------------------------------------------------------
(* Restart: three steps of one handler.  Two handlers at once do no more    *)
(* than one, so the model has one.                                          *)

RestartCheck ==
    /\ proc = "up" /\ restart = "idle"
    /\ ~running
    /\ restart' = "checked"
    /\ UNCHANGED <<proc, version, running, pc, work, store, disk, world>>

\* Without a marker it can decode the handler answers ErrNoPendingRestart.
RestartRead ==
    /\ restart = "checked"
    /\ restart' = IF Armed THEN "armed" ELSE "idle"
    /\ UNCHANGED <<proc, version, running, pc, work, store, disk, world>>

\* systemctl --no-block restart queues the job, or refuses.
RestartIssue ==
    /\ restart = "armed"
    /\ restart' = "idle"
    /\ queued' \in {queued, TRUE}
    /\ UNCHANGED <<proc, version, running, pc, work, store, disk, latest, crashes>>

-----------------------------------------------------------------------------
(* The process ends and starts again.  Its memory goes, the files stay.     *)

Die ==
    /\ proc # "down"
    /\ proc' = "down"
    /\ running' = FALSE /\ restart' = "idle"
    /\ pc' = [r \in Requests |-> "idle"]
    /\ work' = [r \in Requests |-> NoWork]
    /\ queued' = FALSE
    /\ UNCHANGED <<version, store, disk, latest>>

\* systemd carries out the queued restart; handlers and goroutines run on
\* until the process is gone.
SystemdRestart ==
    /\ queued
    /\ Die
    /\ UNCHANGED crashes

Crash ==
    /\ crashes < MaxCrashes
    /\ crashes' = crashes + 1
    /\ Die

\* ExecStart=/usr/local/bin/brrewery serve
Boot ==
    /\ proc = "down"
    /\ disk.binary # None
    /\ proc' = "resolve"
    /\ version' = disk.binary
    /\ UNCHANGED <<running, restart, pc, work, store, disk, world>>

\* ReconcileOnStartup: the marker's job is demoted unless this is its version.
ResolveMarker ==
    /\ proc = "resolve"
    /\ proc' = "remove"
    /\ IF Armed /\ disk.marker.release # version
       THEN /\ status' = [status EXCEPT ![disk.marker.job] = "failed"]
            /\ error' = [error EXCEPT ![disk.marker.job] = "version"]
       ELSE UNCHANGED store
    /\ UNCHANGED <<version, running, restart, pc, work, disk, world>>

RemoveMarker_OnlyDecoded ==
    /\ proc = "remove"
    /\ proc' = "sweep"
    /\ disk' = IF Armed THEN [EmptyStaging EXCEPT !.marker = None] ELSE disk
    /\ UNCHANGED <<version, running, restart, pc, work, store, world>>

\* A marker goes with the staging directory, decoded or not.
RemoveMarker ==
    /\ proc = "remove"
    /\ proc' = "sweep"
    /\ disk' = IF disk.marker # None THEN [EmptyStaging EXCEPT !.marker = None]
               ELSE disk
    /\ UNCHANGED <<version, running, restart, pc, work, store, world>>

\* One self-update job the old process left behind fails.
Sweep ==
    /\ proc = "sweep"
    /\ \E j \in Jobs :
          /\ Unfinished(j)
          /\ status' = [status EXCEPT ![j] = "failed"]
          /\ error' = [error EXCEPT ![j] = "interrupted"]
    /\ UNCHANGED <<daemon, pc, work, disk, world>>

Swept_RunningOnly == \A j \in Jobs : status[j] # "running"

Swept == \A j \in Jobs : ~Unfinished(j)

\* Only then does the API start answering.
Serve ==
    /\ proc = "sweep"
    /\ Swept
    /\ proc' = "up"
    /\ UNCHANGED <<version, running, restart, pc, work, store, disk, world>>

-----------------------------------------------------------------------------

Reconcile == ResolveMarker \/ RemoveMarker \/ Sweep \/ Serve

Report(r) == Succeed(r) \/ FailJob(r) \/ Clean(r) \/ Release(r)

Update(r) == Start(r) \/ Refuse(r) \/ Accept(r) \/ Begin(r) \/ FetchRelease(r)
                \/ Install(r) \/ Report(r)

RestartHandler == RestartCheck \/ RestartRead \/ RestartIssue

Next ==
    \/ \E r \in Requests : Update(r)
    \/ RestartHandler
    \/ SystemdRestart \/ Crash \/ Boot \/ Reconcile
    \/ Publish

Spec == Init /\ [][Next]_vars

\* A goroutine that can run does, and local file operations and commands end;
\* Refresh has a 30 s timeout.  The download has none (http.Client{} under
\* context.Background()), so FetchRelease is not fair.  systemd carries out
\* a queued restart and starts the service again (Restart=on-failure).
Fairness ==
    /\ \A r \in Requests :
          WF_vars(Refuse(r) \/ Accept(r) \/ Begin(r) \/ Install(r) \/ Report(r))
    /\ WF_vars(SystemdRestart) /\ WF_vars(Boot) /\ WF_vars(Reconcile)

FairSpec == Spec /\ Fairness

-----------------------------------------------------------------------------
(* Properties.                                                              *)

TypeOK ==
    /\ proc \in {"down", "resolve", "remove", "sweep", "up"}
    /\ version \in Versions /\ latest \in Versions
    /\ running \in BOOLEAN /\ queued \in BOOLEAN
    /\ restart \in {"idle", "checked", "armed"}
    /\ pc \in [Requests -> Stages]
    /\ work \in [Requests -> [tag : Versions, job : Jobs \cup {None},
                              named : BOOLEAN, err : Errors]]
    /\ status \in [Jobs -> {"none", "queued", "running", "succeeded", "failed"}]
    /\ error \in [Jobs -> Errors]
    /\ disk \in Disks
    /\ crashes \in 0..MaxCrashes

\* The CAS of Start (updater.go:135) and the release at the end of run keep
\* installs apart: the flag is set exactly while one request or its goroutine
\* is at work, never two, whatever crashes and restarts come between.
OneInstaller ==
    /\ \A r, s \in Requests : Active(r) /\ Active(s) => r = s
    /\ running <=> \E r \in Requests : Active(r)

\* While the API answers, every job it reports as queued or running has a
\* goroutine of this process that will finish it: ReconcileOnStartup left no
\* orphan of an earlier process for the UI to poll for ever.
NoOrphanJob ==
    proc = "up" => \A j \in Jobs : Unfinished(j) =>
        \E r \in Requests : Active(r) /\ work[r].job = j

Installing == {"stage", "aside", "swap", "backup", "conf", "confWrite", "vhost",
    "vhostWrite", "name", "nameWrite", "test", "undoConf", "undoVhost", "reload",
    "copyBinary", "moveBinary", "newBinary", "unit", "unitWrite"}

\* From extraction to the last copy an install finds its own release in the
\* staging directory, which FetchRelease, run and ReconcileOnStartup of
\* whatever ran before or beside it all remove.
StagingIsMine ==
    \A r \in Requests : pc[r] \in Installing => disk.staging = work[r].tag

\* A job turns succeeded only when playbooks, nginx files, binary and unit on
\* disk are all of its release and the marker names it: no failed step of
\* install, and no other request, can be skipped over.
SuccessIsComplete ==
    [][\A j \in Jobs : status[j] # "succeeded" /\ status'[j] = "succeeded" =>
          /\ Armed
          /\ disk.marker.job = j
          /\ {disk.playbooks, disk.conf, disk.vhost.release, disk.binary,
              disk.unit} = {disk.marker.release}]_vars

\* As long as no update failed, the host at rest holds one release throughout,
\* under the operator's server_name, and a restart brings up that release.
UniformUnlessFailed ==
    proc = "up" /\ ~running /\ (\A j \in Jobs : status[j] \in {"none", "succeeded"})
        => /\ {disk.playbooks, disk.conf, disk.vhost.release, disk.unit} = {disk.binary}
           /\ disk.vhost.named
           /\ disk.marker # None => Armed /\ disk.marker.release = disk.binary

\* A failure before installNginx, and a refused `nginx -t` (updater.go:421),
\* leave nginx with whole files of one release under the operator's name;
\* only an I/O error or a death inside the install, or a logged restore
\* failure, may not.
NginxIntact ==
    proc = "up" /\ ~running
    /\ (\A j \in Jobs : status[j] = "failed" =>
          error[j] \in {"fetch", "playbooks", "nginx-test", "binary", "unit", "version"})
        => disk.conf = disk.vhost.release /\ disk.conf # Torn /\ disk.vhost.named

\* ReconcileOnStartup takes a success back only when some later update did
\* not succeed: a successful update that nothing followed stays a success.
DemotedOnlyAfterFailure ==
    [][\A j \in Jobs : status[j] = "succeeded" /\ status'[j] = "failed" =>
          \E k \in Jobs \ {j} : status[k] \notin {"none", "succeeded"}]_vars

\* Whenever no binary is at BinaryPath, between the renames of installBinary
\* or after a death there, the previous one is at BinaryPath.bak.
BinarySurvives == disk.binary = None => disk.backupBinary # None

Lifecycle == INSTANCE JobLifecycle

\* The job store as the pollers see it implements JobLifecycle.
ImplementsLifecycle == Lifecycle!Spec

Downloading == \E r \in Requests : At(r, "fetch")

\* A job does not stay queued or running, across failures, deaths and restarts,
\* unless the download hangs or no binary is left to start from.
JobsSettle ==
    \A j \in Jobs :
        Unfinished(j) ~> (~Unfinished(j) \/ Unbootable \/ []Downloading)

\* The updater becomes free again, on every path out of Start and run.
UpdaterFreed == running ~> (~running \/ []Downloading)

\* A queued restart ends in a process that has consumed the marker.
RestartCompletes ==
    queued ~> (proc = "sweep" /\ disk.marker = None) \/ Unbootable

\* updater.go:522: the job is demoted "if the restart somehow brought the old
\* version back", that is, when the process is older than the update.
DemotedOnlyIfOldVersion ==
    [][\A j \in Jobs : status[j] = "succeeded" /\ status'[j] = "failed" =>
          version < disk.marker.release]_vars

\* updater.go:206: Restart "can only ever complete a staged update"; a restart
\* now "would cut that install short" (updater.go:210).
RestartCutsNoInstall ==
    [][queued /\ ~queued' /\ crashes' = crashes =>
          \A r \in Requests : pc[r] \notin Installing]_vars

\* updater.go:383: "The operator's server_name is carried over".
ServerNameKept == proc = "up" /\ ~running => disk.vhost.named
=============================================================================
