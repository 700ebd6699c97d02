# A TLA+ verification of brrewery

brrewery is a daemon (`cmd/brrewery`, `internal/`) that installs, upgrades and
removes server apps with Ansible playbooks, updates itself from GitHub
releases, shows statistics of its host, and serves a web UI (`web/`). This
directory holds TLA+ models of the parts where order, failure and restarts
matter, the TLC configurations that check them, and TLAPS proofs.

Paths below are relative to the repository, which `PROJECT.json` calls `src/`.
`PROJECT.json` lists the components, the runs, the mutations each property was
seen to catch, the source lines each definition stands for, the hazards of the
code and the theorems.

## 1. The system

| Component | State it keeps | Operations | Talks to |
|---|---|---|---|
| Self-update updater (`internal/selfupdate/updater.go`, `tar.go`, `download.go`) | `running` flag, HTTP client; on disk: staging directory, pending marker, the live binary, playbooks, nginx files, unit | `Start`, `run`/`install`, `Restart`, `ReconcileOnStartup` | GitHub, job store, nginx, systemd |
| Release checker (`checker.go`) | cached release status under a lock | `Refresh`, `Get`, six-hourly ticker | GitHub, updater, HTTP API |
| Job store (`internal/apps/jobs/store.go`) | map of jobs and logs under a lock; one JSON file per job | `Create`, `MarkRunning`, `AppendLog`, `SetStatus`, `Get`, `List`, `Logs`, load | updater, apps service, pollers |
| Apps service (`internal/apps/service.go`, `systemd.go`) | none of its own: the host is the state | start install, upgrade, remove; `runJob`; service toggle | runner, detection, job store, systemd |
| Ansible runner (`internal/apps/ansible/runner.go`) | a child process, two pipes, two readers, a file with a password | `Run` | apps service, sysctl handler |
| Detection and catalog (`internal/apps/detect`, `catalog`) | embedded manifests | `InstalledForUser`, `DependenciesSatisfied`, `ServiceStatus` | file system, systemd |
| Version and option resolvers (`internal/apps/{qbittorrent,rtorrent,deluge,libtorrent}`) | caches of release lists | resolve a channel or line to a version, validate options | GitHub, apps service |
| I/O history (`internal/system/iohistory.go`, `sampler.go`) | rings of samples, one per disk | `Record`, `Query` with downsampling | `/proc`, HTTP API |
| Sysctl tuning (`internal/system/sysctl*.go`, handler, playbook) | a drop-in file and the kernel's values | read, validate, apply through a playbook | runner |
| Authentication (`internal/auth`) | user file, sessions in memory | login, logout, `CreateAdmin`, verify | HTTP API, CLI |
| Serve loop and shutdown (`cmd/brrewery/main.go`) | the process | start in order, signal handling, drain | everything |
| Session of the web UI (`web/src/lib/query-client.ts`, `hooks/use-auth.ts`, route guards) | what a tab believes of its cookie | sign in and out, probe, drop the session after a 401 | HTTP API |
| Update dialog and banner (`update-modal.tsx`, `update-banner.tsx`) | a phase, polled answers, deadlines | start, poll, request a restart, watch for it | HTTP API, session |
| App forms and job dialog (`app-shell.tsx`, `manage-apps-modal`, `install-*-modal`, `app-job-modal`) | the pending ask and what its forms said; the polled job | choose, confirm, start, follow | HTTP API |
| Sidebar (`app-sidebar.tsx`, `ui/sidebar.tsx`) | polled list, the switches under way; open, collapsed, sheet | toggle a service, fold | HTTP API |
| Panels and charts (`sysctl-modal`, `vnstat-panel`, `dashboard`, throughput charts) | unsent edits, stored settings, cached answers | edit and apply, choose a range, poll | HTTP API, browser storage |
| Host probes, embedded frontend, widgets, install script and playbooks | none that interacts | | |

How they interact: a handler calls `Updater.Start` or `Service.startJob`; both
create a job in the one job store and spawn a goroutine; the UI polls the store.
The goroutine of an app job runs a playbook from the tree that a self-update
replaces. A self-update ends in a marker on disk and a job reported succeeded;
the UI then asks for a restart, systemd ends the process with everything in its
control group, and the new process settles what the old one left before its API
answers. Jobs, marker, releases and app artifacts survive a restart; flags,
sessions, goroutines and playbooks do not. The UI knows a finished restart by
the session it has lost; every other part of it takes a 401 for the end of the
session and a failed request for an outage.

What is hard here, and what makes each part correct:

* **Updater.** Two requests race for one staging directory; several groups of files are
  replaced in place, each step can fail, and the process can die between any
  two. Correct: one install at a time; success only when everything on disk is of
  one release; a binary that can be started always exists somewhere; the
  operator's nginx name survives; no job is left for pollers to wait on.
* **Job store.** Every change rewrites every file in place with errors ignored.
  Correct: what pollers saw is on disk once the lock is free; a restart never
  goes back in time; a death costs little.
* **Apps service.** Nothing serialises jobs on one app, and looking at the host
  takes one command per artifact. Correct: every job is reported; the report
  that counts is true.
* **Runner.** Two pipes that fill, two readers, and a child that must not be
  waited for before they are done. Correct: `Run` returns when the child would
  end, with every line handed on.
* **Release checker.** Fetches overlap and finish in any order. Correct: a newer
  answer is not replaced by an older one.
* **I/O history.** Rings that wrap, disks that come and go, clocks that step.
  Correct: every sample of the window is in one bucket of its own disk, and no
  other is.
* **Sysctl.** Applies overlap without a lock, a load takes its time, and each apply
  runs under the context of its request. Correct: what the host runs with is what
  it will boot with, unless a load failed, was cut off, or was overtaken by another
  file.
* **Session and update dialog.** A restart looks like a lost connection and a
  lost session. Correct: "done" means that the process was restarted; nobody is
  signed out without cause; nothing waits for ever.
* **App forms and job dialog.** Checks and file reads outlive the forms that
  began them. Correct: a job starts only as it was confirmed; the dialog tells
  of its own job and can be closed at its end.
* **Sidebar and panels.** Polled answers are older than what the user just did.
  Correct: no row goes back to a position from before a change; charts ask for
  what the server has; in the end the page shows the host.
* **Shutdown, authentication.** Three outcomes race in one select; the user file
  is written in place without a lock.

The full list, each at its line, is under `hazards` in `PROJECT.json`.

## 2. What is modelled

| Module | What it is |
|---|---|
| `JobLifecycle` | abstract specification: the status of a job as pollers may see it change |
| `SelfUpdate` | the updater, systemd, restarts and the files on disk |
| `JobStore` | the job store: the map in memory, the files behind it, deaths in mid-save |
| `AppJobs` | app jobs from request to report, overlapping on a host |
| `PlaybookRunner` | one call of the Ansible runner, with its child, pipes and readers |
| `UpdateServer` | the daemon as a tab sees it during a self-update: process, job, sessions |
| `WebSession` | extends `UpdateServer`: what the tab makes of its session, which page it is on |
| `UpdateDialog` | extends `WebSession`: banner and update dialog |
| `ManageApps` | the forms that lead to an app job, and the dialog that follows it |
| `ServiceSwitch` | the sidebar's rows and service switches over a polled list |
| `InstallOptions` | the form of versions, branches and patch files |
| `SysctlPanel` | panel, handler, playbook and kernel |
| `VnstatPanel` | the ranges of the traffic table and what vnstat is asked for |
| `IOHistory` | the rings of samples and a query over them |
| `IOChart` | the range and resolution a chart asks for, and what the handler grants |
| `Dashboard` | metrics polled each second, gauges, panels and charts |
| `SidebarFrame` | the frame of the sidebar: column, rail or sheet, by the window's width |
| `WebParts` | the nine parts above that share no state, and the runner, one at a time |
| `MCSelfUpdate`, `MCJobStore`, `MCAppJobs`, `MCWebParts` | constants and symmetry for TLC |
| `SelfUpdateProofs`, `JobStoreProofs`, `AppJobsProofs`, `UpdateDialogProofs`, `FormsProofs`, `IOHistoryProofs`, `PlaybookProofs`, `PageProofs` | theorems and proofs |

`SelfUpdate` and `AppJobs` implement `JobLifecycle` (their variable `status` is
its variable; `AppJobs` maps each request to the one job it may create).
`JobStore` refines the part both abstract from: in `SelfUpdate` and `AppJobs` a
change of a status is durable at once, and `JobStore` shows what that
costs and when it is not so. `UpdateServer` is cut down from `SelfUpdate` to
what a tab can tell apart, as the server's side of `ManageApps` is from
`AppJobs`, and that of `SysctlPanel` and `AppJobs` from `PlaybookRunner`.

A definition whose name ends in an underscore and a word (`Start_Unclaimed`) is
the faulty variant of the definition that follows it: the code with a plausible
bug. It is part of no specification; every property is known to fail when one
of them takes the place of the right definition.

### SelfUpdate

A request and the goroutine it spawns are one process with a program counter
`pc[r]`, whose values follow `Start` (`check`, `queued`), `fetchRelease`
(`fetch`), the steps of `install` in the order of the code (`stage` to
`marker`) and the end of `run` (`succeed` or `fail`, `clean`, `release`).
`running` is the atomic flag. `disk` is a record with one field per file or
group of files the updater touches: a release number, `None` if absent, `Torn`
if a copy or write did not finish. A file that is written in place
(`copyFile`, `os.WriteFile`) is truncated in one step and complete in the next,
a rename is one step, and each may fail, which takes `install` to its error
return with the disk as it is. The five nginx files other than the vhost move
together and are one field; the vhost is its own, with a flag for the
operator's `server_name`, because its name is re-applied after the copy. A
download, its checksum and its extraction are one step that leaves a complete
staging directory or not.

`Restart` is three steps, as in the code: read the flag, read the marker, ask
systemd; between any two an update may start. `SystemdRestart` and `Crash` end
the process, `Boot` starts the binary at `BinaryPath` and needs one there, and
`ResolveMarker`, `RemoveMarker`, `Sweep` and `Serve` are `ReconcileOnStartup`
and the start of the API in `main.go`. The initial state is what `install.sh`
leaves.

### JobStore

`mem` is the map, `file` the files, `todo` and `writing` the rest of a
`persistLocked` that holds the lock, in any order of jobs, as Go's map
iteration has any. A record is its status and the number of its log lines. An
operation changes `mem` and starts a save; `Truncate` and `Write` are the two
halves of `os.WriteFile`; `FailToWrite` and one branch of `Persist` are the
errors that are swallowed. `Crash` leaves the files, `Load` reads those that
parse. Who may call what follows the goroutines: only a job of this process
(`owned`) begins and succeeds; startup may fail any other; and a line may be
logged to any job there is, finished or of an earlier process, as `Restart` and
`ReconcileOnStartup` do. `told` is a
history variable: what pollers last saw of a job after a save without an error.
`missed` records that the latest save met one.

### AppJobs

A request takes the way of `startJob` (`asking`, `accepted`, `created`), its
goroutine that of `runJob` (`spawned` to `done`). `host[a]` is the set of
artifacts (binaries, paths, units) of app `a`, and an app is installed when all
are there. `InstalledForUser` is a loop that runs a command per artifact:
`Find` and the guards `FoundAll` and `FoundAbsent` look at one at a time, while
playbooks go on changing them. Of a playbook there are its tasks,
in any order, more than those under `ansible/playbooks/apps` do: `Task` puts an
artifact there, clears one it is about to replace (as `sonarr/install.yml` does),
or removes one; `Exit` is exit code 0 after the last task, `Abort` any error of
`Run`. `Restart` ends goroutines and playbooks (the unit keeps the default
`KillMode`), whoever asked for it; host and job store stay. `latest[a]` is a
history variable: the job that began its second look at `a` last, forgotten
when a playbook fails or is cut off, since that leaves the app in any state.
Dependencies are read at once: nothing that is stated depends on their order.

### PlaybookRunner

`run` is where `Run` stands; `CallRun` and `StartChild` are its early returns and
the file with the password, which `Return` removes. The child is external: it
decides to write to one of its outputs (`TurnToWrite`), waits for room
(`WriteChunk`), may have a worker that keeps the pipes open, and ends; `Cancel`
is the context of the call. `ReadChunk` and `ReadEOF` are `readLines` on one
pipe. A chunk is the unit in which pipe and scanner buffer are measured: both
are 64 KiB in fact. A line is named by its length in chunks, which is enough to
tell a lost, a cut and a reordered one apart. `ReadChunk` shows what happens to
a line that does not fit: its reader returns, the pipe is no longer drained, and
a child that goes on writing to it never ends; `RunTellsAll` has that as its
one exception.

### UpdateServer, WebSession, UpdateDialog

`UpdateServer` is a process that serves or not, the release it runs, the one on
disk and the newest on GitHub, its jobs with the release each installs, the
marker, and one session per browser; a request may always be lost. An install has
the stages a restart or a tab can tell apart: `fetch` (the download, which nothing
bounds), `place` (the binary, its two renames as one step), `arm` (the marker,
after the unit file; a failure or a death may leave it torn), `succeed`, and
`clean`, after which the updater is free. `Stop` may come in any of them. `Boot`
runs what is on disk and is `ReconcileOnStartup`: the job of the marker fails if
its release is not the one that runs, as does what was unfinished. `Publish`
brings a newer release, so that a second update can overtake one that waits for
its restart. `WebSession` adds the session query: `session` is what the tab
believes, `probe` the answer on its way, `route` the page. `Expire` is
`clearSession` after a 401, `Navigate` the guards of the routes; other tabs of the
browser sign in and out with the same cookie. `UpdateDialog` adds the cached
status with the mark that it is out of date, the dialog `dlg` (phase, the job it
follows and what it saw of it, and whether its deadline has passed), and the
requests under way, which survive a dialog that is unmounted: `submit`, `restart`,
`probes`, and `own` for what they may still do. `Badge`, `Notes` and `Offers` are
what is on the screen: its label, its lines and its buttons. The timer polls a job
until it has ended or a poll has failed (`TimerPolls`); the focus of the window
fetches it in any case, after an error, too, which `PollJob`, `LoseJob` and
`AskForJob` allow. `Unmounting` is joined to every step of the session, for a tab
that leaves the shell loses the dialog with it. `since`, `otherwise`, `everLost`
and `sawSuccess` are history variables for the properties.

### ManageApps, InstallOptions

`phase` is the dialog the shell shows and `pending` the ask it is about;
`extraVars` says whose forms' values are to go with the job, by the ask each form
was opened for. The check of a password has its answer as a step of its own
(`verifying`), which a closed form does not cancel (`late`). The server's jobs
carry the values they were started with, so that what was confirmed and what was
sent can be compared. The job dialog polls (`PollJob`, `FocusJob`), gives up on
some errors and repeats after others; `JobModal` is what it shows.
`InstallOptions` keeps the fields of its form, the step it is on, and the files
being read (`reading`), whose content arrives in any order; `submitted` is what
it hands on, and the history variables `wanted` and `overtaken` say what was
chosen last and whether a read came late.

### ServiceSwitch

`on` is the host; `list` the cached answer of `GET /apps`, `fetch` the one on its
way (with the positions it will report, taken when the handler looked);
`toggles` is every change in the order it was confirmed, with its stage, as
react-query keeps mutations; only the latest is visible to the page. `Rows` is
what the sidebar shows of them, `calm` the services no change is about.

### SysctlPanel

`kernel` and `dropIn` are the live values and the file; `runs` is the sequence of
requests, each with how far it is and the values it has yet to write or to set.
`WriteFile` replaces the file as a whole, as `ansible.builtin.copy` does. The load
is `sysctl -p`: `OpenFile` reads the file, whoever wrote it, `SetKey` sets one
parameter at a time, in any order, `EndLoad` needs all of them set, `FailLoad`
leaves some out, and `CutRun` is the end of the request's context at any point.
Between any two of these another apply may write or load; a load whose file is
replaced meanwhile is `behind`. The history variable `stained` has the parameters
whose value a failed, cut or overtaken load answers for. The panel has edits, the
last report and the flag behind "Settings applied."; its password prompt checks
first and applies then, closed or not (`lateCheck`).

### IOHistory, IOChart, VnstatPanel, Dashboard, SidebarFrame

`IOHistory` keeps the rings as the code does, an array of times and one per disk,
with the next slot and the count; a rate is named by the time of its sample, so
the mean over a bucket is the set of samples in it. `Query` is the code's grid,
smoothing and carry; `Promised` says the same without rings, from the list of
what was recorded. `IOChart` has the stored setting (anything may be stored),
the width of the plot, and the answers react-query keeps by key; the handler's
bounds are those of `io_history.go`. `VnstatPanel` has the list of periods that
vnstat keeps and the option chosen. `Dashboard` has the polled query with its
repetitions and the refetch of each tick that drops the request under way, and
the rows of a chart under an axis. `SidebarFrame` compares two rules for a
narrow window: the script counts 768 pixels, the style sheet 48 rem.

### WebParts

These parts share no state, and no property spans two of them, so side by side
they would only multiply. `part` picks one for a behaviour and the others stay
in one initial state; the state graph is the union of theirs. Fairness is that
of the part; where a fairness condition of a part is not enabled in its initial state
it need not be made conditional on `part`.

## 3. The runs

| Run | Question | Outcome |
|---|---|---|
| `selfupdate` | what updates, failures, restarts and a death may leave on disk, in the store and in the updater | holds, 952 156 states |
| `selfupdate_live` | do jobs end, is the updater freed, does a restart complete | holds, 74 503 states |
| `selfupdate_stale_marker` | is a job demoted only "if the restart somehow brought the old version back" | violated, finding 1 |
| `selfupdate_restart_race` | does `Restart` never cut an install short | violated, finding 2 |
| `selfupdate_server_name` | is the operator's `server_name` always carried over | violated, finding 3 |
| `jobstore` | what the files hold when pollers can read, and what a new process makes of them | holds, 949 451 states |
| `jobstore_survival` | do jobs, finished ones too, "survive process restarts" | violated, finding 4 |
| `appjobs` | who reports, which report is true of the host, does every job end | holds, 254 568 states |
| `update_dialog` | what the dialog, its banner and the session may claim while the daemon installs and restarts, releases come out and other tabs sign in and out | holds, 7 390 914 states |
| `update_dialog_live` | does any wait go on for ever, or any page stay on a session that is gone | holds, 242 089 states |
| `web_parts` | is what forms, switches, panels, charts and the runner say and send right, and do they catch up with the server | holds, 467 360 states |
| `vnstat_top_days` | are the "Top 10 days overall" that | violated, finding 5 |

**Bounds.** `selfupdate`: two requests (a third adds no new pair of rivals), three
jobs, so that a successful update, a failed one and the next can be told apart,
two releases beyond the installed one, so that an update can overtake a staged
one, and one death at any point; planned restarts are not bounded.
`selfupdate_live` has one job and one release less and no symmetry, which is
unsound for liveness. `jobstore`: three jobs, so that a save is before, at and
behind the file that is torn; two deaths, one failing call, one log line.
`appjobs`: two requests, each with any app and action, two apps of which one needs
the other, two artifacts, one restart. Three requests on one app were checked as
well (1 284 249 states, no error); the theorems cover any number. `update_dialog`:
two jobs, so that one can fail and the next succeed, or overtake it; two releases
beyond the first, so that the second job can be of another than the first; one
restart, planned or not, and one sign-in after the first, which give each of the
races between them. `update_dialog_live` has one job and one release less.
`web_parts`: two apps of which one needs the other and one has options, two jobs,
one check that is late, one restart; two changes of services on one plain app and
the combined row; three versions, one without branches, and two reads of files,
one too large; two overlapping applies of one parameter with two values, which is
enough for each to load, or be cut off from, what the other wrote (several
parameters add states and no new pair of rivals; the theorems have any); the table
of real ranges and fifteen periods, so that a day can leave the fourteen asked
for; a window of four samples on a clock of ten seconds, so that each slot is
reused, and at most three points of a query, so that the cap is met; plots with no
width and wider than the server has points for; requests that fail up to three
times, as the page allows; windows on both sides of the breakpoint; pipes and
buffers of two chunks and four chunks of output, so that either pipe can fill and
a line can outgrow the buffer. The counters named "bound" in the modules are
bounded in the guards of the actions that count them. Deadlock is not checked
where the system may rightly stop: no request left, no binary left to start, a
user who does nothing.

**Fairness.** Goroutines that can run do run: weak fairness per request. Local
file operations, `nginx`, `systemctl` and the commands of detection end. The
request for the release list has a timeout of 30 s. Two things get no fairness
and appear in the properties as the exception: the download
(`http.Client{}` without a timeout under `context.Background()`), in `SelfUpdate`
as in `UpdateServer`, where an install is fair once its download is there, and a
playbook (`Run` has neither timeout nor cancellation). systemd carries out a queued
restart and starts the service again (`Restart=on-failure` in
`contrib/systemd/brrewery.service`). Deaths are never fair. In the browser, timers
fire, so polls are sent and deadlines pass; a poll is answered while the daemon
could, and fails while it could not; answers that arrive are handled; the
list and the metrics, which may fail or be dropped any number of times, get
strong fairness on their arrival: an outage does not last for ever, and not
every answer is slower than the tick that drops it. Nothing the user does is fair. In
`PlaybookRunner` the child is fair up to its writes: the question is whether the
runner can hang a playbook that would end.

**Findings.** (1) `ReconcileOnStartup` judges the job named by an old marker by
whatever binary is live: if a second update replaced the binary and then died or
failed before its own marker, the first, successful job is failed. (2)
`Restart` does not hold the flag it has read, so an update may start before
systemd acts. (3) Between the copy of the shipped vhost and
`applyServerName` the operator's name exists only in memory and in a backup that
is later deleted; a failure or a death there makes the placeholder permanent.
(4) A finished job is rewritten, truncated first, on every log line of every
other job, so a death can lose it. (5) The panel's "Top 10 days overall" are
the top of the fourteen days the server asks vnstat for. Each quotes its line in
`PROJECT.json`.

**What the properties had to allow.** Behaviour of the code that the models show
and that narrowed a property; where a property has an exception, this is why.

* App jobs: one that a restart cut off is served as queued or running for ever, for
  only jobs of the self-update are settled at startup; `JobsEnd` and
  `JobDialogEnds` have it as an exception.
* Updates: a copy that fails halfway leaves the nginx files half copied, which
  `NginxIntact` exempts, and `UniformUnlessFailed` says nothing after a failure.
* Sysctl: of two applies that overlap, the first may go on to set values of the
  file it has opened after the second has replaced that file and loaded its own.
  Both succeed, and the host runs with what it will not boot with. A failed load
  and one cut off with its request leave the same. `KernelIsDropIn` says that
  there is no other way, and that the next load that goes through makes up for it.
* Update dialog: while a download hangs, the dialog says "Installing" for as long,
  hence `Downloading` in `WaitingEnds`. A success that is on the screen stays
  there when a restart, which runs a newer release, fails the job behind it
  (finding 1), hence the exception in `ShownResultIsTrue`.
* Update dialog: a session that ends for another reason (sign-out in another tab)
  also reads as a finished restart, hence `otherwise` in `DoneMeansRestarted`; a
  new sign-in in another tab before the watch polls turns a finished restart into
  "timeout". A 401 that arrives after a new sign-in signs out a valid session.
  The dialog can be closed in "restarting" after a success, and Escape closes
  the form while it submits (`update-modal.tsx:214`). A focus refetch after the success
  can put "unavailable" under a success badge. A dismissed banner returns whenever
  the sidebar is remade, though `update-banner.tsx` says on the next page load.
* App forms: the late answer of a check in a form that was cancelled starts the
  job of whatever flow is open by then (`install-secrets-modal.tsx:104`), hence
  `stray`. A job that a restart cut off keeps its dialog without a Close button; one
  that is gone is closable only between two repetitions while nothing of it was seen.
  Options submitted while the patch is being read go without it.
* Sidebar: a switch is locked only until another app is toggled, though
  `app-sidebar.tsx:48-50` says it "can't be double-fired" (`NotDoubleFired` states
  the comment; `DoubleNeedsAnother`, which is proved, what holds); a switch that
  comes back shows its old position first; a failed list hides all rows. With a
  browser font over 16 px there are windows in which a trigger toggles a hidden
  sidebar.
* Panels: an edit made while an apply runs is dropped when it succeeds; cancelling
  the prompt while it verifies applies all the same; a value outside the catalog,
  untouched, makes every apply fail. Disks at `/mnt/a` and `/mnt-a` share a stored
  setting. Each tick drops the request under way, so a daemon that
  answers slower than a second starves the gauges, and its failures are not
  shown once there are gauges.
* Runner: a line of 64 KiB or more ends its reader for good; see `PlaybookRunner`.

## 4. What is proved

All theorems hold for every value of the constants: any requests, jobs, apps,
artifacts and bounds. They assume only the named assumptions of the modules:
bounds are naturals, the constants for "absent" and "torn" are no values, sets
whose cardinality is taken are finite, defaults are among their choices, no disk
is mounted at the name the network's rates go by, the two lines of a chart have
one length, the traffic ranges are a finite list. Every invariant and every
action property that a passing run checks is proved; so are a few that no run
checks.

**SelfUpdateProofs.** The mutual exclusion of installs is not inductive by itself.
`Safe` adds the type invariant and `Ownership`: which stages own a job in which
status, and that an unfinished job has such an owner or the process is still
starting. Since all steps of `install` do the same to everything but the disk, one
relation, `Frame`, stands for them, and each is shown to be a `Frame` once.
`Working` adds, stage by stage, which files are already of the new release
(`Progress`); the order of the copies is what makes it inductive, and success
follows from the last stage. `Marked` adds whom the marker names: its job is the
owner of the last stage or no owner at all, and at startup an unfinished one has
its binary live, so no restart fails it for its version. On that rest the three
results about the host at rest. `Sound`: as long as all failures spared the nginx
files, they are whole before and after every install, and inside it the backups
are; `Even`: as long as nothing failed, the host is uniform outside of an install.
Both need that a process that dies with no job unfinished dies before or after its
install (`OwedUnlessAside`). Theorems: `TypeCorrect`, `InstallsAreExclusive`,
`JobsHaveOwners`, `StagingIsExclusive`, `ReportedSuccessIsComplete`,
`ABinarySurvives`, `LifecycleImplemented`, `NginxIsIntact`, `HostIsUniform`,
`DemotionHasCause`.

**JobStoreProofs.** `Saved`: outside the rest of an error-free save every file
equals its job. `History`: file and map are at least as far as what pollers were
told, or the file is torn. `History` is why a restart cannot go back, and it is
kept because every operation moves a job forward in the order `AtLeast`
(`ChangesGoForward`). Theorems: `TypeCorrect`, `GoodSavesRepair`,
`RestartsKeepNews`, and `LossesAreFew`, an induction on the number of torn files.

**AppJobsProofs.** `Recorded` ties each stage to a status and gives
`JobsAreReported` and `LifecycleImplemented`. `Latest` is the argument behind
the second look at the host: of the job that began its look last, either some
other job has since begun a playbook on the app and has yet to look itself, or
what the job saw, concluded and reported still holds. When no job is left the
first case is gone; that is `LastLookTold`. It is the look begun last that
counts, not the report made last: a job may look, be overtaken by another's
playbook and look, and report after it.

**UpdateDialogProofs.** `Typed`; `Mounted`: a dialog, its probes and its requests
exist only where the shell does; `Watching`: who waits for a restart had a session
when it asked, and that session is lost with the process or for a recorded
cause (`DoneIsRestarted`); `Losing`: every 401 on its way is owed to a session
that ended (`SignOutIsCaused`). What the dialog says of an install rests on
`Installs`, stage by stage what is on disk and which job has the updater: releases
on disk only rise, and a job that ended is changed only by a restart with a newer
one. With it `Results`: an end on the screen is that of the job, its release or a
newer one is on disk, and a tab that has seen the success of the job whose marker
waits knows its status to be out of date (`ResultIsTrue`, `SecondInstallIsStale`).

**FormsProofs.** `FitsPhase` says, phase by phase, which forms the pending ask
still needs and what the earlier ones left; `OwnJob` ties the dialog to the job
the shell started. Theorems about `ManageApps`: `ManageTypeCorrect`,
`ConfirmedBeforeStarted`, `DialogOwnsItsJob`; about `InstallOptions`:
`OptionsTypeCorrect`, `OptionsFit`.

**IOHistoryProofs.** The rings are described by the age of a sample: `Held(k)`
is the time of the k-th oldest sample kept and `Slot(k)` its place, before or
behind the head. `Ordered` says that they come in order, at least a second
apart, `Complete` that none of the window is missing; `NetworkRing` and
`DiskRings` that each slot has the rate of its time, or a gap where the disk was
not read; `NoRings` that a disk without a ring was not read within the window,
which is why dropping the ring loses nothing and a disk that comes back may
start from gaps. From these, bucket by bucket, the samples that the code's
indices pick are those that `Promised` picks from all that was ever recorded,
the smoothing reaches back over the same readings, and what is carried into an
empty bucket agrees. Theorems: `HistoryTypeCorrect`, `QueriesAreAnswered`.

**PlaybookProofs.** *The runner.* The invariant follows a stream from its end to
its beginning: read on from what a reader has in its buffer through the chunks
in the pipe, and what comes out, after what was told, is what was written. "Read
on" is given as a function of the chunk (the buffer before each), as a witness
in place of an induction. `RunnerHandsOn` follows, early and late: in order at
any time, complete at the return. That `Run` returns (`RunTellsAll`) takes
fairness, but its two halves do not: `RunnerGoesOn`, nobody waits for somebody
who waits for them while both readers read, and `RunnerWindsDown`, each step
takes from what is left to do. *The sysctl panel.* The invariant accounts for every
parameter whose live value is not the file's: it is stained, or some run has yet to
set it, from the file as it is now. A write puts the writer in charge of all of
them and takes every open load out; setting one settles it; a load that fails or
is cut off stains what it leaves. When no run has anything to load only the stained
are left, which is `KernelFollowsDropIn`; no order among the applies is needed.
That the last of several lines of a patch file counts is the existence of a
largest element (`WFMin`, which takes a set and not an operator). Theorems:
`RunnerTypeCorrect`, `RunnerHandsOn`, `RunnerGoesOn`, `RunnerWindsDown`,
`SysctlTypeCorrect`, `KernelFollowsDropIn`, `AppliedIsReported`.

**PageProofs.** *Charts and gauges*: `ChartsAreServed` (a chart asks within the
handler's bounds for any stored value and width), `DashTypeCorrect`,
`GaugesAreKept` (a request that the ticks made has not failed often enough to
count as failed), `LinesStayInAxis` (of any lines, none leaves its plot, and one
without points draws nothing). *The frame*: `RowsStayInReach`, `TriggersAnswer`,
both for a font of 16 px, with the case of others in the list above. *Switches*:
a list on its way reports, for every service left alone since the last change
settled, the host's position; `SwitchTypeCorrect`, `NoOldListShown`,
`LockHoldsUntilAnother`. *The table of traffic*: `VnstatTypeCorrect`, and
`LatestAreShown`, the complement of finding 5: ranges of the latest periods
lose nothing by the single fetch, since the limit it asks for exists (a bounded
set of naturals has a largest) and covers each of theirs. *The composition*:
`PartsAreThemselves`: a behaviour of `WebParts` is one of each of its parts;
hence `ChartsAreAlwaysRight` and `PartsAreSafe`, which state for the module
that is run what was proved of the parts.

**Only model-checked.** All liveness (`JobsSettle`, `UpdaterFreed`,
`RestartCompletes`, `JobsEnd`, `WaitingEnds`, `DeadPageLeft`, `JobDialogEnds`,
`SidebarCatchesUp`, `GaugesCatchUp`, `RunTellsAll`), since TLAPS does not reason about
fairness and ENABLED. Of `RunTellsAll` that is the step from "some step can be
taken, and steps run out" to "they are taken".

## 5. Left to do

In this order:

1. That `UpdateServer`, which the dialog is checked against, covers what
   `SelfUpdate` does: one abstract view (process up, API serving, release
   installed, marker, job) that both are related to. The stages of `UpdateServer`
   are those of `SelfUpdate`'s install, with the two renames of the binary as one.
2. Two overlapping fetches of the release checker (`checker.go:95`), composed with
   `UpdateServer`.
3. A clock that steps back under `IOHistory` (`iohistory.go:369`), once it is said
   which samples such a query should have.
4. `AppJobs` and `SelfUpdate` on the shared playbook tree.
5. The select of `shutdownHTTPServer`, and the user file under `create-admin`.
6. The choice of versions as operators, against a reference over bounded lists.

## 6. What is not modelled

Passwords, hashing and validation of request bodies (library code or pure
functions without state); parsing of `/proc`, vnstat and manifests; the version
strings GitHub lists; static files and paths; the general widgets of the UI and
its layout, but for the sidebar's frame; `install.sh` and the roles, except for the
state the first leaves and the effect of the second on artifacts. HTTP handlers
keep no state and are part of the operation they call. The three outcomes of the
shutdown's select end in the same exit. The sysctl handler's unlocked slice of
output lines is a data race below the level of these models; what the panel
does with the values does not depend on it. Time is a step that may happen, except in
`IOHistory`, which counts seconds, forward only. `ServiceSwitch` lets a switch be
used whatever the frame of the sidebar shows, which is more than a user can do.
