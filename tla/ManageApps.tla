----------------------------- MODULE ManageApps -----------------------------
(***************************************************************************)
(* The flow by which a tab of the web UI installs, upgrades and removes    *)
(* apps: components/app-shell.tsx and the four dialogs it leads through,   *)
(* manage-apps-modal (choose), install-secrets-modal (credentials),        *)
(* install-options-modal (what to build) and app-job-modal (follow).       *)
(* Checking the password of the credentials form is a request; the form    *)
(* may be closed meanwhile, and what it then does with the answer it does  *)
(* to whatever the shell shows by then.                                    *)
(* The server's side is what AppJobs says of it, cut down to its answers.  *)
(***************************************************************************)
EXTENDS Naturals, Sequences, FiniteSets

CONSTANTS
    Apps,         \* the catalog
    Needs,        \* Needs[a]: the apps that must be installed before a
    Secrets,      \* Secrets[a]: what a's credentials form asks for to install
    Optioned,     \* the apps with install options
    Asks,         \* bound: what the user may ask for, an action and an app
    None,         \* no ask
    MaxJobs,      \* bound: how many jobs the server takes
    MaxLate,      \* bound: checks under way for forms that are closed
    MaxRestarts   \* bound: how often the server restarts

ASSUME ManageAssumption ==
    /\ Needs \in [Apps -> SUBSET Apps]
    /\ Secrets \in [Apps -> SUBSET {"password", "token"}]
    /\ Optioned \subseteq Apps
    /\ Asks \subseteq [action : {"install", "upgrade", "remove"}, app : Apps]
    /\ None \notin Asks
    /\ MaxJobs \in Nat /\ MaxLate \in Nat /\ MaxRestarts \in Nat

VARIABLES
    phase,       \* the shell: which dialog, if any
    pending,     \* the shell: the app and action under way, or None
    extraVars,   \* the shell: whose forms' values are to go with the job
    verifying,   \* the credentials form: the password is being checked
    late,        \* asks whose form is closed and its check still under way
    start,       \* job dialog: the request that starts the job
    jobId,       \* job dialog: the job it was answered with (0: refused)
    shown,       \* job dialog: the status on display
    jobError,    \* job dialog: the last look at the job failed
    listed,      \* the app list: the apps it shows as installed
    installed,   \* the host: the apps that are installed
    jobs,        \* the server: every job, with its ask and values
    restarts,    \* restarts of the server so far
    stray        \* history: a late check reached the flow now under way

shellVars  == <<phase, pending, extraVars, verifying, late, stray>>
dialogVars == <<start, jobId, shown, jobError>>
hostVars   == <<installed, jobs, restarts>>
manageVars == <<shellVars, dialogVars, listed, hostVars>>

Values   == [secrets : Asks \cup {None}, options : Asks \cup {None}]
NoValues == [secrets |-> None, options |-> None]

Phases == {"none", "select", "secrets", "options", "job", "sysctl"}

Terminal(status) == status \in {"succeeded", "failed"}

ManageTypeOK ==
    /\ phase \in Phases
    /\ pending \in Asks \cup {None}
    /\ extraVars \in Values
    /\ verifying \in BOOLEAN
    /\ late \subseteq Asks
    /\ start \in {"none", "pending", "failed", "ok"}
    /\ jobId \in 0..Len(jobs)
    /\ shown \in {"none", "running", "succeeded", "failed"}
    /\ jobError \in BOOLEAN
    /\ listed \subseteq Apps
    /\ installed \subseteq Apps
    /\ jobs \in Seq([ask : Asks, values : Values, stray : BOOLEAN,
                     status : {"running", "cut", "succeeded", "failed", "gone"}])
    /\ Len(jobs) <= MaxJobs
    /\ restarts \in 0..MaxRestarts
    /\ stray \in BOOLEAN

ManageInit ==
    /\ phase = "none" /\ pending = None /\ extraVars = NoValues
    /\ verifying = FALSE /\ late = {} /\ stray = FALSE
    /\ start = "none" /\ jobId = 0 /\ shown = "none" /\ jobError = FALSE
    /\ installed \in SUBSET Apps
    /\ listed = installed
    /\ jobs = <<>>
    /\ restarts = 0

-----------------------------------------------------------------------------
(* What is on the screen.  A dialog covers the sidebar behind it.           *)

RequiredSecrets(ask) ==
    {s \in Secrets[ask.app] : ask.action = "install" \/ s = "password"}

NeedsOptions(ask) == ask.action # "remove" /\ ask.app \in Optioned

SecretsForm == phase = "secrets" /\ pending # None
OptionsForm == phase = "options" /\ pending # None
JobDialog   == phase = "job" /\ pending # None

NoDialog ==
    phase \notin {"select", "sysctl"} /\ ~SecretsForm /\ ~OptionsForm /\ ~JobDialog

\* The buttons of ManageAppsModal.
Offered(ask) ==
    IF ask.action = "install"
    THEN ask.app \notin listed /\ Needs[ask.app] \subseteq listed
    ELSE ask.app \in listed

CanClose_WhenTerminal == Terminal(shown) \/ start = "failed"

\* Whether the job dialog may be closed.
CanClose == Terminal(shown) \/ start = "failed" \/ jobError

\* statusLabel: an error hides the status.
StatusLabel ==
    CASE start = "failed" -> "not started"
      [] start # "failed" /\ jobError -> "unavailable"
      [] start = "pending" -> "queued"
      [] start = "ok" /\ ~jobError /\ shown # "none" -> shown
      [] OTHER -> "waiting"

\* statusVariant: a success is not hidden by a later error.
StatusVariant ==
    CASE shown = "succeeded" -> "success"
      [] start = "failed" \/ shown = "failed" -> "destructive"
      [] jobError /\ shown # "succeeded" -> "destructive"
      [] ~jobError /\ shown = "running" -> "default"
      [] OTHER -> "secondary"

\* The dialog: its badge, and whether Close, the cross and Escape work.
JobModal == [label |-> StatusLabel, badge |-> StatusVariant, close |-> CanClose]

-----------------------------------------------------------------------------
(* POST /api/apps/{id}/{action}: the server takes the job or refuses it.    *)

Acceptable(ask) ==
    IF ask.action = "install"
    THEN ask.app \notin installed /\ Needs[ask.app] \subseteq installed
    ELSE ask.app \in installed

\* ValidateInstallSecrets: an install needs all its own credentials.
HasSecrets(ask, values) ==
    ask.action = "install" => 
        \/ RequiredSecrets(ask) = {}
        \/ /\ values.secrets # None
           /\ RequiredSecrets(ask) \subseteq RequiredSecrets(values.secrets)

\* The server acts at once; its answer, or none, reaches the dialog later.
Post(ask, values, hit) ==
    \/ /\ jobId' = 0
       /\ UNCHANGED jobs
    \/ /\ Acceptable(ask) /\ HasSecrets(ask, values) /\ Len(jobs) < MaxJobs
       /\ jobs' = Append(jobs, [ask |-> ask, values |-> values, stray |-> hit,
                                status |-> "running"])
       /\ jobId' \in {0, Len(jobs) + 1}

-----------------------------------------------------------------------------
(* Every change of the shell's state shows the dialogs it calls for.  The   *)
(* job dialog starts a job when it appears, and again when what it is to    *)
(* start changes (the key of its start query).                              *)

Abandoned == IF verifying THEN late \cup {pending} ELSE late

Show_SameJob(p, ask, values, checks, hit) ==
    /\ phase' = p /\ pending' = ask /\ extraVars' = values
    /\ verifying' = FALSE
    /\ Cardinality(checks) <= MaxLate /\ late' = checks
    /\ stray' = hit
    /\ \/ /\ p = "job" /\ ask # None
          /\ ~(JobDialog /\ ask = pending)
          /\ start' = "pending" /\ shown' = "none" /\ jobError' = FALSE
          /\ Post(ask, values, hit)
       \/ /\ p = "job" /\ ask # None /\ JobDialog /\ ask = pending
          /\ UNCHANGED <<dialogVars, jobs>>
       \/ /\ ~(p = "job" /\ ask # None)
          /\ start' = "none" /\ jobId' = 0 /\ shown' = "none" /\ jobError' = FALSE
          /\ UNCHANGED jobs
    /\ UNCHANGED <<listed, installed, restarts>>

Show(p, ask, values, checks, hit) ==
    /\ phase' = p /\ pending' = ask /\ extraVars' = values
    /\ verifying' = FALSE
    /\ Cardinality(checks) <= MaxLate /\ late' = checks
    /\ stray' = hit
    /\ \/ /\ p = "job" /\ ask # None
          /\ ~(JobDialog /\ ask = pending /\ values = extraVars)
          /\ start' = "pending" /\ shown' = "none" /\ jobError' = FALSE
          /\ Post(ask, values, hit)
       \/ /\ p = "job" /\ ask # None
          /\ JobDialog /\ ask = pending /\ values = extraVars
          /\ UNCHANGED <<dialogVars, jobs>>
       \/ /\ ~(p = "job" /\ ask # None)
          /\ start' = "none" /\ jobId' = 0 /\ shown' = "none" /\ jobError' = FALSE
          /\ UNCHANGED jobs
    /\ UNCHANGED <<listed, installed, restarts>>

\* finishManageFlow: the shell forgets what it was at.
FinishManageFlow(checks) == Show("none", None, NoValues, checks, stray)

-----------------------------------------------------------------------------
(* The sidebar and the list of apps.                                        *)

OpenPanel ==
    /\ NoDialog
    /\ \E p \in {"select", "sysctl"} : Show(p, pending, extraVars, late, stray)

ClosePanel ==
    /\ phase \in {"select", "sysctl"}
    /\ Show("none", pending, extraVars, late, stray)

FirstPhase(ask) ==
    CASE RequiredSecrets(ask) # {} -> "secrets"
      [] RequiredSecrets(ask) = {} /\ NeedsOptions(ask) -> "options"
      [] OTHER -> "job"

\* beginAppJobs: the dialog sends one app at a time.
BeginAppJobs(ask) ==
    /\ phase = "select" /\ Offered(ask)
    /\ Show(FirstPhase(ask), ask, NoValues, late, FALSE)

\* The list is polled, and asked for anew after a job that succeeded.
RefreshApps ==
    /\ listed' = installed
    /\ UNCHANGED <<shellVars, dialogVars, hostVars>>

-----------------------------------------------------------------------------
(* The credentials form and the options form.                               *)

\* handleSecretsConfirm, as the form that calls it was given it: ask is the
\* form's own, whatever the shell is at.
SecretsConfirm(ask, checks, hit) ==
    Show(IF NeedsOptions(ask) THEN "options" ELSE "job",
         pending, [secrets |-> ask, options |-> None], checks, hit)

SubmitSecrets ==
    /\ SecretsForm /\ ~verifying
    /\ \/ /\ "password" \in RequiredSecrets(pending)
          /\ verifying' = TRUE
          /\ UNCHANGED <<phase, pending, extraVars, late, stray,
                         dialogVars, listed, hostVars>>
       \/ /\ "password" \notin RequiredSecrets(pending)
          /\ SecretsConfirm(pending, late, stray)

Verified ==
    /\ verifying
    /\ SecretsConfirm(pending, late, stray)

\* The wrong password, or no answer: an error in the form.
NotVerified ==
    /\ verifying
    /\ verifying' = FALSE
    /\ UNCHANGED <<phase, pending, extraVars, late, stray,
                   dialogVars, listed, hostVars>>

\* The form is gone, its handler goes on.
VerifiedLate(ask) ==
    /\ ask \in late
    /\ SecretsConfirm(ask, Abandoned \ {ask}, TRUE)

NotVerifiedLate(ask) ==
    /\ ask \in late
    /\ late' = late \ {ask}
    /\ UNCHANGED <<phase, pending, extraVars, verifying, stray,
                   dialogVars, listed, hostVars>>

OptionsConfirm_DropsSecrets ==
    /\ OptionsForm /\ pending.app \in Optioned
    /\ Show("job", pending, [NoValues EXCEPT !.options = pending], late, stray)

\* handleOptionsConfirm adds the options to the credentials.  (With no
\* version to choose the form cannot be submitted.)
OptionsConfirm ==
    /\ OptionsForm /\ pending.app \in Optioned
    /\ Show("job", pending, [extraVars EXCEPT !.options = pending], late, stray)

\* Cancel, in the first two forms.
CancelForm ==
    /\ SecretsForm \/ OptionsForm
    /\ FinishManageFlow(Abandoned)

-----------------------------------------------------------------------------
(* The job dialog.                                                          *)

StartAnswered ==
    /\ start = "pending"
    /\ start' = IF jobId = 0 THEN "failed" ELSE "ok"
    /\ UNCHANGED <<shellVars, jobId, shown, jobError, listed, hostVars>>

\* A job that was cut off by a restart is still shown as running.
Status(job) == IF job.status = "cut" THEN "running" ELSE job.status

\* A look that fails: the job is gone (after some retries), or no answer.
Look ==
    /\ start = "ok"
    /\ \/ /\ jobs[jobId].status # "gone"
          /\ shown' = Status(jobs[jobId]) /\ jobError' = FALSE
       \/ /\ jobError' = TRUE
          /\ UNCHANGED shown
    /\ UNCHANGED <<shellVars, start, jobId, listed, hostVars>>

\* The job is looked at once a second until its status is final, and then
\* only when the window has the focus again.
PollJob  == ~Terminal(shown) /\ Look
FocusJob == Terminal(shown) /\ Look

\* Without a status to show, a new look takes back the error of the last.
LookAgain ==
    /\ start = "ok" /\ shown = "none" /\ jobError
    /\ jobError' = FALSE
    /\ UNCHANGED <<shellVars, start, jobId, shown, listed, hostVars>>

\* handleClose: with onFinished after a success, else with onClose.  For a
\* single app they do the same, but for refreshing the list.
CloseJob ==
    /\ JobDialog /\ JobModal.close
    /\ FinishManageFlow(late)

-----------------------------------------------------------------------------
(* The page and the server.                                                 *)

\* The page is loaded anew: the tab forgets, the server goes on.
ReloadPage ==
    /\ JobDialog
    /\ phase' = "none" /\ pending' = None /\ extraVars' = NoValues
    /\ verifying' = FALSE /\ late' = {} /\ stray' = FALSE
    /\ start' = "none" /\ jobId' = 0 /\ shown' = "none" /\ jobError' = FALSE
    /\ listed' = installed
    /\ UNCHANGED hostVars

JobEnds(i) ==
    /\ jobs[i].status = "running"
    /\ \/ /\ jobs' = [jobs EXCEPT ![i].status = "succeeded"]
          /\ installed' = IF jobs[i].ask.action = "remove"
                          THEN installed \ {jobs[i].ask.app}
                          ELSE installed \cup {jobs[i].ask.app}
       \/ /\ jobs' = [jobs EXCEPT ![i].status = "failed"]
          /\ UNCHANGED installed
    /\ UNCHANGED <<shellVars, dialogVars, listed, restarts>>

\* A job that was under way is cut off; one whose record is lost is gone.
ServerRestarts ==
    /\ restarts < MaxRestarts
    /\ restarts' = restarts + 1
    /\ \E lost \in {{}} \cup {{i} : i \in DOMAIN jobs} :
          jobs' = [i \in DOMAIN jobs |->
                     [jobs[i] EXCEPT !.status =
                        IF i \in lost THEN "gone"
                        ELSE IF @ = "running" THEN "cut" ELSE @]]
    /\ UNCHANGED <<shellVars, dialogVars, listed, installed>>

FlowStep ==
    \/ OpenPanel \/ ClosePanel \/ (\E ask \in Asks : BeginAppJobs(ask))
    \/ SubmitSecrets \/ OptionsConfirm \/ CancelForm \/ CloseJob \/ ReloadPage

Answers ==
    \/ RefreshApps \/ Verified \/ NotVerified
    \/ (\E ask \in Asks : VerifiedLate(ask) \/ NotVerifiedLate(ask))
    \/ StartAnswered \/ PollJob \/ FocusJob \/ LookAgain

ManageNext ==
    \/ FlowStep \/ Answers
    \/ (\E i \in DOMAIN jobs : JobEnds(i)) \/ ServerRestarts

ManageSpec == ManageInit /\ [][ManageNext]_manageVars

\* Requests are answered or given up, and the query polls; jobs need not end.
ManageFairness ==
    /\ WF_manageVars(StartAnswered)
    /\ WF_manageVars(PollJob)

-----------------------------------------------------------------------------

\* What the forms of an ask add up to.
Confirmed(ask) ==
    [secrets |-> IF RequiredSecrets(ask) = {} THEN None ELSE ask,
     options |-> IF NeedsOptions(ask) THEN ask ELSE None]

\* A job is asked for after all the forms it needs and with what they said,
\* and with nothing left of an earlier flow (app-shell.tsx:98-141), unless
\* the check of a form that was closed came back during its flow.
StartedAsConfirmed ==
    \A i \in DOMAIN jobs :
        jobs[i].values = Confirmed(jobs[i].ask) \/ jobs[i].stray

\* The dialog is about the job that was started last for what its title
\* says, and the end its label and its badge tell of is the end of that job
\* (app-job-modal.tsx:83-133, 153-225).
ShowsItsOwnJob ==
    JobDialog /\ jobId # 0 =>
        /\ jobs[jobId].ask = pending
        /\ jobs[jobId].values = extraVars
        /\ Terminal(JobModal.label) => jobs[jobId].status \in {JobModal.label, "gone"}
        /\ JobModal.badge = "success" => jobs[jobId].status \in {"succeeded", "gone"}

\* Nobody is shut in: unless the job is still under way, or is for ever
\* shown so because a restart cut it off, the job dialog gets its Close
\* button (app-job-modal.tsx:133), for a job that is gone, too.
JobDialogEnds ==
    JobDialog ~> (\/ JobModal.close \/ ~JobDialog
                  \/ start = "ok" /\ jobs[jobId].status \in {"running", "cut"})
=============================================================================
