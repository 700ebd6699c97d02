---------------------------- MODULE UpdateDialog ----------------------------
(***************************************************************************)
(* The update dialog of the web UI (components/update-modal.tsx) in a tab  *)
(* whose session comes and goes (WebSession), against a daemon that is     *)
(* restarted under it (UpdateServer): the password form, the install job   *)
(* that is polled, the request to restart, and the watch for the restarted *)
(* process, which knows it by the session it has lost.  The dialog is part *)
(* of the shell: when the tab signs out, the dialog is unmounted, but a    *)
(* request it has sent goes on.                                            *)
(***************************************************************************)
EXTENDS WebSession

VARIABLES
    status,     \* the cached answer of GET /update, NoStatus before the first
    stale,      \* it has been invalidated and not been fetched since
    dismissed,  \* the banner has been dismissed
    dlg,        \* the dialog on the screen
    probes,     \* answers to its session probes on their way: TRUE for no session
    submit,     \* handleSubmit: idle, or the call it waits for
    restart,    \* handleRestart: idle, or sent
    own,        \* those of the two calls that the dialog on the screen made
    since,      \* history: value of boots when the restart was last asked for
    otherwise,  \* history: the session ended otherwise than by a later restart
    sawSuccess  \* history: this tab saw the install succeed whose restart waits

statusVars == <<status, stale, dismissed>>
dialogVars == <<statusVars, dlg, probes, submit, restart, own>>
history    == <<since, otherwise, sawSuccess>>
vars == <<serverVars, sessionVars, dialogVars, history>>

NoStatus == [available |-> FALSE, pending |-> FALSE, there |-> FALSE]

\* The state a dialog is mounted with, and what stands for no dialog.
NewDialog == [shown |-> TRUE, phase |-> "confirm", job |-> None, view |-> "none",
              lost |-> FALSE, seen |-> FALSE, late |-> FALSE]
NoDialog == [NewDialog EXCEPT !.shown = FALSE]

Phases == {"confirm", "running", "restarting", "done", "timeout"}

TypeOK ==
    /\ ServerTypeOK
    /\ SessionTypeOK
    /\ status \in [available : BOOLEAN, pending : BOOLEAN, there : BOOLEAN]
    /\ stale \in BOOLEAN /\ dismissed \in BOOLEAN
    /\ dlg \in [shown : BOOLEAN, phase : Phases, job : Jobs \cup {None},
                view : Statuses,
                lost : BOOLEAN, seen : BOOLEAN, late : BOOLEAN]
    /\ probes \subseteq BOOLEAN
    /\ submit \in {"idle", "verify", "start"}
    /\ restart \in {"idle", "sent"}
    /\ own \subseteq {"submit", "restart"}
    /\ since \in 0..MaxBoots
    /\ otherwise \in BOOLEAN /\ sawSuccess \in BOOLEAN

Init ==
    /\ ServerInit
    /\ SessionInit
    /\ status = NoStatus
    /\ stale = FALSE
    /\ dismissed = FALSE
    /\ dlg = NoDialog
    /\ probes = {}
    /\ submit = "idle"
    /\ restart = "idle"
    /\ own = {}
    /\ since = 0
    /\ otherwise = FALSE
    /\ sawSuccess = FALSE

-----------------------------------------------------------------------------
(* What the dialog shows and offers.                                        *)

JobFailed    == dlg.view = "failed"
JobSucceeded == dlg.view = "succeeded"

\* X and Escape work; the buttons have conditions of their own.
CanClose ==
    dlg.phase \in {"confirm", "timeout"} \/ JobFailed \/ JobSucceeded \/ dlg.lost

\* While confirming: the finish screen if an update waits for its restart,
\* the password form otherwise.
ConfirmOffers ==
    IF status.pending
    THEN IF restart = "sent" /\ "restart" \in own THEN {} ELSE {"close", "restart"}
    ELSE IF submit # "idle" /\ "submit" \in own THEN {} ELSE {"close", "install"}

ProgressOffers ==
    CASE dlg.phase = "done" -> {"reload"}
      [] dlg.phase = "restarting" -> {}
      [] dlg.phase \in {"running", "timeout"} /\ JobSucceeded ->
             IF restart = "sent" /\ "restart" \in own THEN {} ELSE {"close", "restart"}
      [] OTHER -> IF CanClose THEN {"close"} ELSE {}

Offers == IF ~dlg.shown THEN {}
          ELSE IF dlg.phase = "confirm" THEN ConfirmOffers ELSE ProgressOffers

\* The badge of the progress view.
Badge ==
    CASE JobFailed \/ dlg.lost -> "Failed"
      [] dlg.phase = "running" -> IF JobSucceeded THEN "Installed" ELSE "Installing"
      [] dlg.phase = "restarting" -> "Restarting"
      [] dlg.phase = "done" -> "Updated"
      [] dlg.phase = "timeout" -> "Not responding"
      [] OTHER -> "none"

\* The lines under the title of the progress view.
Notes ==
    LET when == [installed |-> JobSucceeded /\ dlg.phase = "running",
                 failed    |-> JobFailed,
                 lost      |-> dlg.lost,
                 timeout   |-> dlg.phase = "timeout"]
    IN  {n \in DOMAIN when : when[n]}

\* The mark of the last step in the list: the log's last line, or the tail
\* that stands for the restart.
LastStep ==
    CASE dlg.phase = "restarting" -> "active"
      [] dlg.phase = "done" -> "done"
      [] dlg.phase = "timeout" -> "failed"
      [] ~dlg.seen -> "none"
      [] JobFailed -> "failed"
      [] dlg.phase = "running" /\ ~JobSucceeded -> "active"
      [] OTHER -> "done"

\* The list of steps: there is nothing in it before the first output.
StepList == IF LastStep = "none" THEN "waiting" ELSE LastStep

-----------------------------------------------------------------------------
(* The status behind the banner, and the banner.                            *)

FetchStatus ==
    /\ Shell /\ "ok" \in Reply
    /\ status' = [available |-> serving < known, pending |-> marker # None, there |-> TRUE]
    /\ stale' = FALSE
    /\ dismissed' = (dismissed /\ status'.available)
    /\ UNCHANGED <<serverVars, sessionVars, dlg, probes, submit, restart, own,
                   history>>

Banner == Shell /\ status.available /\ ~dismissed

Dismiss ==
    /\ Banner /\ ~dlg.shown
    /\ dismissed' = TRUE
    /\ UNCHANGED <<serverVars, sessionVars, status, stale, dlg, probes, submit,
                   restart, own, history>>

\* The sidebar, and the banner in it, is made anew when the window becomes
\* narrow or wide, and in a narrow one whenever its sheet opens.
RemakeSidebar ==
    /\ Shell /\ dismissed
    /\ dismissed' = FALSE
    /\ UNCHANGED <<serverVars, sessionVars, status, stale, dlg, probes, submit,
                   restart, own, history>>

Open ==
    /\ Banner /\ ~dlg.shown
    /\ dlg' = NewDialog
    /\ UNCHANGED <<serverVars, sessionVars, statusVars, probes, submit, restart,
                   own, history>>

\* The shell forgets the dialog; its calls go on for nobody.
Close ==
    /\ dlg.shown /\ ("close" \in Offers \/ CanClose)
    /\ dlg' = NoDialog
    /\ probes' = {}
    /\ own' = {}
    /\ UNCHANGED <<serverVars, sessionVars, statusVars, submit, restart,
                   history>>

-----------------------------------------------------------------------------
(* handleSubmit: verify the password, then start the job.  One call is in   *)
(* flight at a time (a bound: a dialog closed during its call could be      *)
(* opened again and make another).                                          *)

Submit ==
    /\ "install" \in Offers /\ submit = "idle"
    /\ submit' = "verify"
    /\ own' = own \cup {"submit"}
    /\ UNCHANGED <<serverVars, sessionVars, statusVars, dlg, probes, restart,
                   history>>

Verified ==
    /\ submit = "verify" /\ "ok" \in Reply
    /\ submit' = "start"
    /\ UNCHANGED <<serverVars, sessionVars, statusVars, dlg, probes, restart, own,
                   history>>

\* The wrong password, a session that is gone (which reads the same), no
\* answer; or the start is refused or lost.  None of them signs the tab out.
SubmitFails ==
    /\ submit # "idle"
    /\ submit' = "idle"
    /\ own' = own \ {"submit"}
    /\ UNCHANGED <<serverVars, sessionVars, statusVars, dlg, probes, restart,
                   history>>

Follow_KeepsWatch(j) ==
    /\ dlg' = [dlg EXCEPT !.phase = "running", !.job = j, !.view = "none"]
    /\ UNCHANGED probes

\* A change of the phase cancels a watch.
Follow(j) ==
    /\ dlg' = [dlg EXCEPT !.phase = "running", !.job = j, !.view = "none"]
    /\ probes' = {}

\* The job is created.  Its id is put into the dialog that asked, unless the
\* dialog is gone or the answer is lost.
Started(j) ==
    /\ submit = "start"
    /\ StartUpdate(j)
    /\ submit' = "idle"
    /\ own' = own \ {"submit"}
    /\ \/ "submit" \in own /\ Follow(j)
       \/ UNCHANGED <<dlg, probes>>
    /\ UNCHANGED <<sessionVars, statusVars, restart, history>>

-----------------------------------------------------------------------------
(* The job and its log, polled while the dialog is in its phase "running":  *)
(* by a timer until the job has ended or a poll has failed, and whenever    *)
(* the window gets the focus.                                               *)

PollsJob   == dlg.phase = "running" /\ dlg.job # None
TimerPolls == PollsJob /\ ~JobFailed /\ ~JobSucceeded /\ ~dlg.lost

See_AnyEnd(s) ==
    /\ dlg' = [dlg EXCEPT !.view = IF s = "failed" THEN "succeeded" ELSE s,
                          !.lost = FALSE]
    /\ stale' = (stale \/ (s = "succeeded" /\ ~JobSucceeded))
    /\ sawSuccess' = (sawSuccess \/ (s = "succeeded" /\ marker = dlg.job))

See_KeepsStatus(s) ==
    /\ dlg' = [dlg EXCEPT !.view = s, !.lost = FALSE]
    /\ sawSuccess' = (sawSuccess \/ (s = "succeeded" /\ marker = dlg.job))
    /\ UNCHANGED stale

\* A job that turns out to have succeeded invalidates the status.
See(s) ==
    /\ dlg' = [dlg EXCEPT !.view = s, !.lost = FALSE]
    /\ stale' = (stale \/ (s = "succeeded" /\ ~JobSucceeded))
    /\ sawSuccess' = (sawSuccess \/ (s = "succeeded" /\ marker = dlg.job))

PollJob ==
    /\ PollsJob /\ "ok" \in Reply
    /\ See(job[dlg.job])
    /\ UNCHANGED <<serverVars, sessionVars, status, dismissed, probes, submit,
                   restart, own, since, otherwise>>

\* Any error ends the polling; a 401 also reaches the handler of the cache.
LoseJob ==
    /\ PollsJob
    /\ dlg' = [dlg EXCEPT !.lost = TRUE]
    /\ \/ UNCHANGED expired
       \/ "unauthorized" \in Reply /\ expired' = TRUE
    /\ UNCHANGED <<serverVars, session, probe, route, login, everLost, statusVars,
                   probes, submit, restart, own, history>>

\* The query that never had an answer waits for its first again when it is
\* fetched anew.
AskForJob ==
    /\ PollsJob /\ dlg.lost /\ dlg.view = "none"
    /\ dlg' = [dlg EXCEPT !.lost = FALSE]
    /\ UNCHANGED <<serverVars, sessionVars, statusVars, probes, submit, restart,
                   own, history>>

PollLogs ==
    /\ PollsJob /\ ~dlg.seen
    /\ "ok" \in Reply
    /\ dlg' = [dlg EXCEPT !.seen = TRUE]
    /\ UNCHANGED <<serverVars, sessionVars, statusVars, probes, submit, restart,
                   own, history>>

-----------------------------------------------------------------------------
(* handleRestart.                                                           *)

ClickRestart ==
    /\ "restart" \in Offers /\ restart = "idle"
    /\ restart' = "sent"
    /\ own' = own \cup {"restart"}
    /\ since' = boots
    /\ otherwise' = ~signedIn
    /\ UNCHANGED <<serverVars, sessionVars, statusVars, dlg, probes, submit,
                   sawSuccess>>

\* The dialog that asked, if it is still there, begins to watch.
Watch ==
    /\ restart' = "idle"
    /\ own' = own \ {"restart"}
    /\ dlg' = IF "restart" \in own
              THEN [dlg EXCEPT !.phase = "restarting", !.late = FALSE] ELSE dlg
    /\ UNCHANGED <<sessionVars, statusVars, probes, submit, history>>

RestartAccepted ==
    /\ restart = "sent"
    /\ AskRestart
    /\ Watch

\* No answer, or one of nginx: taken to mean that the restart is under way.
RestartUnreachable ==
    /\ restart = "sent"
    /\ UNCHANGED serverVars
    /\ Watch

\* A conflict, a failure of systemctl, a 401.
RestartRefused ==
    /\ restart = "sent" /\ up
    /\ restart' = "idle"
    /\ own' = own \ {"restart"}
    /\ UNCHANGED <<serverVars, sessionVars, statusVars, dlg, probes, submit,
                   history>>

-----------------------------------------------------------------------------
(* The watch for the restarted process; its probes may overlap.             *)

SendProbe ==
    /\ dlg.phase = "restarting"
    /\ \E reply \in Reply : probes' = probes \cup {Session(reply) = "out"}
    /\ UNCHANGED <<serverVars, sessionVars, statusVars, dlg, submit, restart, own,
                   history>>

PassDeadline ==
    /\ dlg.phase = "restarting" /\ ~dlg.late
    /\ dlg' = [dlg EXCEPT !.late = TRUE]
    /\ UNCHANGED <<serverVars, sessionVars, statusVars, probes, submit, restart,
                   own, history>>

Settle_NoDeadline(answer) ==
    /\ answer \in probes
    /\ IF answer
       THEN dlg' = [dlg EXCEPT !.phase = "done"] /\ probes' = {}
       ELSE UNCHANGED dlg /\ probes' = probes \ {answer}
    /\ UNCHANGED <<serverVars, sessionVars, statusVars, submit, restart, own,
                   history>>

\* No session: done.  Anything else, once the deadline has passed: timeout.
\* Either ends the watch, and what is still on its way is ignored.
Settle(answer) ==
    /\ answer \in probes
    /\ IF answer \/ dlg.late
       THEN /\ dlg' = [dlg EXCEPT !.phase = IF answer THEN "done" ELSE "timeout"]
            /\ probes' = {}
       ELSE UNCHANGED dlg /\ probes' = probes \ {answer}
    /\ UNCHANGED <<serverVars, sessionVars, statusVars, submit, restart, own,
                   history>>

SignInAgain ==
    /\ "reload" \in Offers
    /\ Reload
    /\ status' = NoStatus
    /\ stale' = FALSE
    /\ dismissed' = FALSE
    /\ dlg' = NoDialog
    /\ probes' = {}
    /\ submit' = "idle"
    /\ restart' = "idle"
    /\ own' = {}
    /\ UNCHANGED history

-----------------------------------------------------------------------------
(* A step of the session may unmount the shell, and the dialog with it.     *)

Unmounting ==
    /\ IF Shell'
       THEN UNCHANGED <<dismissed, dlg, probes, own>>
       ELSE dismissed' = FALSE /\ dlg' = NoDialog /\ probes' = {} /\ own' = {}
    /\ otherwise' = (otherwise \/ (signedIn /\ ~signedIn'))
    /\ UNCHANGED <<status, stale, submit, restart, since, sawSuccess>>

SessionStep == TabStep /\ Unmounting

InstallStep ==
    /\ \/ \E j \in Jobs : Fetched(j) \/ Place(j) \/ Arm(j) \/ Succeed(j) \/ Fail(j)
       \/ Finish
    /\ UNCHANGED <<sessionVars, dialogVars, history>>

ReleaseStep ==
    /\ Publish \/ Check
    /\ UNCHANGED <<sessionVars, dialogVars, history>>

ServerStops ==
    /\ Stop
    /\ everLost' = (everLost \/ signedIn)
    /\ UNCHANGED <<tabVars, dialogVars, history>>

ServerBoots ==
    /\ Boot
    /\ sawSuccess' = FALSE
    /\ UNCHANGED <<sessionVars, dialogVars, since, otherwise>>

DialogStep ==
    \/ FetchStatus \/ Dismiss \/ RemakeSidebar \/ Open \/ Close
    \/ Submit \/ Verified \/ SubmitFails
    \/ \E j \in Jobs : Started(j)
    \/ PollJob \/ LoseJob \/ AskForJob \/ PollLogs
    \/ ClickRestart \/ RestartAccepted \/ RestartUnreachable \/ RestartRefused
    \/ SendProbe \/ PassDeadline
    \/ \E answer \in BOOLEAN : Settle(answer)
    \/ SignInAgain

Next ==
    \/ SessionStep \/ InstallStep \/ ReleaseStep \/ ServerStops \/ ServerBoots
    \/ DialogStep

Spec == Init /\ [][Next]_vars

\* The daemon comes back and settles its jobs, and an install goes on once its
\* download is there, which nothing bounds; the tab goes on polling, its
\* answers arrive, and time passes.  A poll need not fail while the daemon
\* could answer it.  Nothing is assumed of the operator.
Fairness ==
    /\ WF_vars(ServerBoots)
    /\ WF_vars(stopping /\ ServerStops)
    /\ WF_vars(stage # "fetch" /\ InstallStep)
    /\ WF_vars(TimerPolls /\ PollJob)
    /\ WF_vars(TimerPolls /\ "ok" \notin Reply /\ LoseJob)
    /\ WF_vars(SendProbe)
    /\ WF_vars(PassDeadline)
    /\ WF_vars(\E answer \in BOOLEAN : Settle(answer))
    /\ WF_vars(ReceiveProbe /\ Unmounting)
    /\ WF_vars(Refused /\ Unmounting)
    /\ WF_vars(Expire /\ Unmounting)
    /\ WF_vars(Navigate /\ Unmounting)

FairSpec == Spec /\ Fairness

-----------------------------------------------------------------------------
(* Properties.                                                              *)

\* The dialog says that the update is finished only if the process it asked
\* to restart has gone, or the session had ended for another reason (a
\* sign-out in another tab, a restart before): the watch in update-modal.tsx
\* takes a lost session for the new process.
DoneMeansRestarted == dlg.phase = "done" => boots > since \/ otherwise

\* What the dialog says of an install is so: "Installed" only with its release
\* or a newer one on disk, and only of a job that succeeded, unless a restart
\* has judged it by a newer release since; a cross on the last step of the log
\* and the job's error only for a job that failed, and never both (polls that
\* stop on an error and set in again, a job that a restart failed).
ShownResultIsTrue ==
    /\ Badge = "Installed" \/ "installed" \in Notes =>
          /\ target[dlg.job] <= installed
          /\ job[dlg.job] = "succeeded" \/ (boots > 0 /\ target[dlg.job] < serving)
    /\ "failed" \in Notes \/ (dlg.phase = "running" /\ StepList = "failed") =>
          job[dlg.job] = "failed"

\* After an install this tab saw succeed, the dialog offers a second install
\* only while the status is known to be out of date (the invalidation in
\* update-modal.tsx; the refetch may still be on its way, or have failed).
SecondInstallNeedsStale ==
    "install" \in Offers /\ sawSuccess /\ marker # None => stale

\* A tab that was in drops its session only if a session of this browser has
\* ended: no wrong password and no daemon that is away signs anybody out
\* (CREDENTIAL_PATHS and checkSession in lib/api.ts).
SignOutHasCause == [][session = "in" /\ session' = "out" => everLost']_vars

\* A dialog never waits for good: an install it follows comes to an end on the
\* screen, whatever becomes of the daemon, unless its download never ends; and
\* so does a restart it watches.
Downloading == stage = "fetch" /\ dlg.job # None /\ job[dlg.job] = "running"

WaitingEnds ==
    /\ Badge = "Installing" ~> (Badge # "Installing" \/ []Downloading)
    /\ Badge = "Restarting" ~> Badge # "Restarting"

\* A tab does not stay on a page whose session is gone: the polling finds
\* out, and the handler of the query cache drops the session.
DeadPageLeft == session = "in" /\ ~signedIn ~> session # "in" \/ signedIn
=============================================================================
