------------------------- MODULE UpdateDialogProofs -------------------------
(***************************************************************************)
(* Proofs about the update dialog, its session and its daemon, for any     *)
(* number of jobs, restarts and sign-ins: what the dialog says is so, and  *)
(* what it takes for the new process is not the old one.                   *)
(***************************************************************************)
EXTENDS UpdateDialog, TLAPS

-----------------------------------------------------------------------------
(* The steps, seen from the daemon and from the session.                    *)

DaemonStep ==
    \/ \E j \in Jobs : Fetched(j) \/ Place(j) \/ Arm(j) \/ Succeed(j) \/ Fail(j)
    \/ Finish \/ Publish \/ Check \/ Stop \/ Boot
    \/ \E j \in Jobs : StartUpdate(j)
    \/ AskRestart \/ SignIn \/ SignOut

LEMMA DaemonSteps ==
    ASSUME [Next]_vars
    PROVE  DaemonStep \/ UNCHANGED serverVars
<1>1. CASE SessionStep
  BY <1>1 DEF SessionStep, TabStep, Focus, ReceiveProbe, Navigate, LogIn, LogOut,
     LogOutUnheard, Refused, Expire, ElsewhereSignIn, ElsewhereSignOut, DaemonStep,
     serverVars
<1>2. CASE InstallStep \/ ReleaseStep \/ ServerStops \/ ServerBoots
  BY <1>2 DEF InstallStep, ReleaseStep, ServerStops, ServerBoots, DaemonStep
<1>3. CASE \E j \in Jobs : Started(j)
  BY <1>3 DEF Started, DaemonStep
<1>4. CASE RestartAccepted
  BY <1>4 DEF RestartAccepted, DaemonStep
<1>5. CASE DialogStep /\ ~(\E j \in Jobs : Started(j)) /\ ~RestartAccepted
  BY <1>5 DEF DialogStep, FetchStatus, Dismiss, RemakeSidebar, Open, Close, Submit,
     Verified, SubmitFails, PollJob, LoseJob, AskForJob, PollLogs, ClickRestart,
     RestartUnreachable, RestartRefused, SendProbe, PassDeadline, Settle, SignInAgain,
     Reload
<1>6. CASE UNCHANGED vars
  BY <1>6 DEF vars
<1> QED  BY <1>1, <1>2, <1>3, <1>4, <1>5, <1>6 DEF Next

\* The answers there are to a plain request.
LEMMA Answers ==
    /\ "unauthorized" \in Reply <=> up /\ ~signedIn
    /\ "ok" \in Reply <=> up /\ signedIn
    /\ \A reply \in Reply : reply \in {"ok", "unauthorized", "unreachable"}
    /\ \A reply \in Reply :
          /\ Session(reply) \in {"in", "out", "failed"}
          /\ Session(reply) = "in" <=> reply = "ok"
          /\ Session(reply) = "out" <=> reply = "unauthorized"
BY DEF Reply, Session

LEMMA LaterAnswers ==
    \A reply \in Reply' :
        /\ Session(reply) \in {"in", "out", "failed"}
        /\ Session(reply) = "in" => up' /\ signedIn'
        /\ Session(reply) = "out" => up' /\ ~signedIn'
BY DEF Reply, Session

\* What the tab knows changes with the daemon standing still or not; what it
\* learns is the daemon's state at the time.
SessionMoves ==
    \/ UNCHANGED <<session, probe>>
    \/ UNCHANGED session /\ Refetch
    \/ ReceiveProbe
    \/ Expire
    \/ session' = "out" /\ everLost' /\ UNCHANGED probe
    \/ session' = "pending" /\ Ask

LEMMA SessionSteps == ASSUME [Next]_vars PROVE SessionMoves
<1> USE DEF SessionMoves, sessionVars, tabVars
<1>1. CASE SessionStep
  BY <1>1 DEF SessionStep, TabStep, Focus, ReceiveProbe, Navigate, LogIn, LogOut,
     LogOutUnheard, Refused, Expire, ElsewhereSignIn, ElsewhereSignOut, serverVars
<1>2. CASE InstallStep \/ ReleaseStep \/ ServerStops \/ ServerBoots
  BY <1>2 DEF InstallStep, ReleaseStep, ServerStops, ServerBoots
<1>3. CASE LoseJob
  BY <1>3 DEF LoseJob
<1>4. CASE SignInAgain
  BY <1>4 DEF SignInAgain, Reload
<1>5. CASE DialogStep /\ ~LoseJob /\ ~SignInAgain
  BY <1>5 DEF DialogStep, FetchStatus, Dismiss, RemakeSidebar, Open, Close, Submit,
     Verified, SubmitFails, PollJob, AskForJob, PollLogs, ClickRestart, Started,
     RestartAccepted,
     RestartUnreachable, RestartRefused, SendProbe, PassDeadline, Settle, Watch
<1>6. CASE UNCHANGED vars
  BY <1>6 DEF vars
<1> QED  BY <1>1, <1>2, <1>3, <1>4, <1>5, <1>6 DEF Next

-----------------------------------------------------------------------------
(* Types.  A process may end only as long as another may start.             *)

ServerTyped == ServerTypeOK /\ (~up => boots < MaxBoots)

Dialogs == [shown : BOOLEAN, phase : Phases, job : Jobs \cup {None},
            view : Statuses,
            lost : BOOLEAN, seen : BOOLEAN, late : BOOLEAN]

DialogTyped ==
    /\ status \in [available : BOOLEAN, pending : BOOLEAN, there : BOOLEAN]
    /\ stale \in BOOLEAN /\ dismissed \in BOOLEAN
    /\ dlg \in Dialogs
    /\ probes \subseteq BOOLEAN
    /\ submit \in {"idle", "verify", "start"}
    /\ restart \in {"idle", "sent"}
    /\ own \subseteq {"submit", "restart"}
    /\ since \in 0..MaxBoots
    /\ otherwise \in BOOLEAN /\ sawSuccess \in BOOLEAN

Typed == ServerTyped /\ SessionTypeOK /\ DialogTyped

LEMMA TypedIsTypeOK == Typed => TypeOK
BY DEF Typed, ServerTyped, DialogTyped, Dialogs, TypeOK

LEMMA ServerTypedStep == ASSUME ServerTyped, DaemonStep PROVE ServerTyped'
<1> USE ServerAssumption DEF ServerTyped, ServerTypeOK
<1>0. \A x \in {"fetch", "place", "arm", "succeed", "clean", "idle"} : x \in Stages
  BY DEF Stages
<1>1. ASSUME NEW j \in Jobs, Fetched(j) \/ Place(j) PROVE ServerTyped'
  BY <1>0, <1>1 DEF Fetched, Place, Advance
<1>2. ASSUME NEW j \in Jobs, Arm(j) PROVE ServerTyped'
  <2>1. marker' \in Markers
    BY <1>2 DEF Arm, Markers
  <2> QED  BY <1>0, <1>2, <2>1 DEF Arm, Advance
<1>3. ASSUME NEW j \in Jobs, Succeed(j) PROVE ServerTyped'
  <2>1. job' \in [Jobs -> Statuses]
    BY <1>3 DEF Succeed, Statuses
  <2> QED  BY <1>0, <1>3, <2>1 DEF Succeed, Advance
<1>4. ASSUME NEW j \in Jobs, Fail(j) PROVE ServerTyped'
  <2>1. job' \in [Jobs -> Statuses]
    BY <1>4 DEF Fail, Statuses
  <2>2. marker' \in Markers
    BY <1>4 DEF Fail, Markers
  <2> QED  BY <1>0, <1>4, <2>1, <2>2 DEF Fail, Advance
<1>5. ASSUME NEW j \in Jobs, StartUpdate(j) PROVE ServerTyped'
  <2>1. job' \in [Jobs -> Statuses]
    BY <1>5 DEF StartUpdate, Statuses
  <2> QED  BY <1>0, <1>5, <2>1 DEF StartUpdate
<1>6. CASE Publish
  <2>1. latest' \in Releases
    BY <1>6 DEF Publish, Releases
  <2> QED  BY <1>6, <2>1 DEF Publish, installVars
<1>7. CASE Finish \/ Check \/ AskRestart \/ SignOut
  BY <1>0, <1>7 DEF Finish, Check, AskRestart, SignOut, installVars
<1>8. CASE Stop
  <2>1. known' \in Releases
    BY <1>8 DEF Stop, Releases
  <2>2. marker' \in Markers
    BY <1>8 DEF Stop, Markers
  <2>3. UNCHANGED <<latest, serving, installed, target, job>>
    BY <1>8 DEF Stop
  <2> QED  BY <1>0, <1>8, <2>1, <2>2, <2>3 DEF Stop
<1>9. CASE Boot
  <2>1. job' \in [Jobs -> Statuses]
    BY <1>9 DEF Boot, Statuses
  <2>2. marker' \in Markers
    BY <1>9 DEF Boot, Markers
  <2>3. boots' \in 0..MaxBoots /\ up' = TRUE
    BY <1>9 DEF Boot
  <2> QED  BY <1>9, <2>1, <2>2, <2>3 DEF Boot
<1>10. CASE SignIn
  BY <1>10 DEF SignIn, installVars
<1> QED
  BY <1>1, <1>2, <1>3, <1>4, <1>5, <1>6, <1>7, <1>8, <1>9, <1>10 DEF DaemonStep

\* Nothing changes of a daemon none of whose variables does.
LEMMA ServerTypedStays == ASSUME ServerTyped, UNCHANGED serverVars PROVE ServerTyped'
BY DEF ServerTyped, ServerTypeOK, serverVars, installVars

LEMMA SessionTypedStep == ASSUME SessionTypeOK, ServerTyped, [Next]_vars PROVE SessionTypeOK'
<1> USE DEF SessionTypeOK
<1>1. ServerTyped'
  BY DaemonSteps, ServerTypedStep, ServerTypedStays
<1>2. Refetch \/ Ask => probe' \in {"idle", "in", "out", "failed"}
  BY LaterAnswers DEF Refetch, Ask
<1>3. session' \in {"pending", "in", "out"} /\ probe' \in {"idle", "in", "out", "failed"}
  BY <1>2, SessionSteps DEF SessionMoves, ReceiveProbe, Expire
<1>4. expired' \in BOOLEAN /\ everLost' \in BOOLEAN
      /\ route' \in {"/", "/login"} /\ login' \in {"idle", "probing"}
  <2> USE DEF sessionVars, tabVars
  <2>0. up \in BOOLEAN /\ signedIn \in BOOLEAN
    BY DEF ServerTyped, ServerTypeOK
  <2>1. CASE SessionStep
    BY <2>0, <2>1 DEF SessionStep, TabStep, Focus, ReceiveProbe, Navigate, LogIn, LogOut,
       LogOutUnheard, Refused, Expire, ElsewhereSignIn, ElsewhereSignOut
  <2>2. CASE InstallStep \/ ReleaseStep \/ ServerStops \/ ServerBoots
    BY <2>0, <2>2 DEF InstallStep, ReleaseStep, ServerStops, ServerBoots
  <2>3. CASE LoseJob \/ SignInAgain
    BY <2>0, <2>3 DEF LoseJob, SignInAgain, Reload
  <2>4. CASE DialogStep /\ ~LoseJob /\ ~SignInAgain
    BY <2>0, <2>4 DEF DialogStep, FetchStatus, Dismiss, RemakeSidebar, Open, Close, Submit,
       Verified, SubmitFails, PollJob, AskForJob, PollLogs, ClickRestart, Started,
       RestartAccepted,
       RestartUnreachable, RestartRefused, SendProbe, PassDeadline, Settle, Watch
  <2>5. CASE UNCHANGED vars
    BY <2>0, <2>5 DEF vars
  <2> QED  BY <2>1, <2>2, <2>3, <2>4, <2>5 DEF Next
<1> QED  BY <1>3, <1>4

LEMMA DialogTypedStep == ASSUME Typed, [Next]_vars PROVE DialogTyped'
<1> USE DEF DialogTyped, dialogVars, statusVars, history
<1>0. /\ status \in [available : BOOLEAN, pending : BOOLEAN, there : BOOLEAN]
      /\ dlg \in Dialogs /\ NewDialog \in Dialogs /\ NoDialog \in Dialogs
      /\ NoStatus \in [available : BOOLEAN, pending : BOOLEAN, there : BOOLEAN]
      /\ boots \in 0..MaxBoots /\ signedIn \in BOOLEAN
  BY DEF Typed, ServerTyped, ServerTypeOK, DialogTyped, Dialogs, NewDialog, NoDialog,
     NoStatus, Phases, Statuses
<1>1. CASE SessionStep
  BY <1>0, <1>1 DEF SessionStep, Unmounting, Typed
<1>2. CASE InstallStep \/ ReleaseStep \/ ServerStops \/ ServerBoots
  BY <1>2 DEF InstallStep, ReleaseStep, ServerStops, ServerBoots, Typed
<1>3. CASE FetchStatus
  <2>1. (serving < known) \in BOOLEAN /\ (marker # None) \in BOOLEAN
    OBVIOUS
  <2>2. status' \in [available : BOOLEAN, pending : BOOLEAN, there : BOOLEAN]
    BY <1>3, <2>1, Zenon DEF FetchStatus
  <2>3. dismissed' \in BOOLEAN /\ stale' \in BOOLEAN
    BY <1>3 DEF FetchStatus
  <2> QED  BY <1>0, <1>3, <2>2, <2>3 DEF FetchStatus, Typed
<1>4. CASE Dismiss \/ RemakeSidebar \/ Open \/ Close
  BY <1>0, <1>4 DEF Dismiss, RemakeSidebar, Open, Close, Typed
<1>5. CASE Submit \/ Verified \/ SubmitFails
  BY <1>5 DEF Submit, Verified, SubmitFails, Typed
<1>6. ASSUME NEW j \in Jobs, Started(j) PROVE DialogTyped'
  BY <1>0, <1>6 DEF Started, Follow, Typed, Dialogs, Phases, Statuses
<1>7. CASE PollJob
  <2>1. job[dlg.job] \in Statuses
    BY <1>0, <1>7 DEF PollJob, PollsJob, Typed, ServerTyped, ServerTypeOK, Dialogs
  <2>2. dlg' \in Dialogs
    BY <1>0, <1>7, <2>1 DEF PollJob, See, Dialogs
  <2> QED  BY <1>7, <2>2 DEF PollJob, See, Typed
<1>8. CASE LoseJob \/ AskForJob \/ PollLogs \/ PassDeadline
  BY <1>0, <1>8 DEF LoseJob, AskForJob, PollLogs, PassDeadline, Typed, Dialogs
<1>9. CASE ClickRestart
  BY <1>0, <1>9 DEF ClickRestart, Typed
<1>10. CASE RestartAccepted \/ RestartUnreachable \/ RestartRefused
  BY <1>0, <1>10 DEF RestartAccepted, RestartUnreachable, RestartRefused, Watch, Typed,
     Dialogs, Phases
<1>11. CASE SendProbe
  BY <1>11 DEF SendProbe, Typed
<1>12. ASSUME NEW answer \in BOOLEAN, Settle(answer) PROVE DialogTyped'
  BY <1>0, <1>12 DEF Settle, Typed, Dialogs, Phases
<1>13. CASE SignInAgain
  BY <1>0, <1>13 DEF SignInAgain, Typed
<1>14. CASE UNCHANGED vars
  BY <1>14 DEF vars, Typed
<1> QED
  BY <1>1, <1>2, <1>3, <1>4, <1>5, <1>6, <1>7, <1>8, <1>9, <1>10, <1>11, <1>12, <1>13,
     <1>14 DEF Next, DialogStep

LEMMA TypedInitially == Init => Typed
<1> SUFFICES ASSUME Init PROVE Typed
  OBVIOUS
<1>1. ServerTyped
  <2>1. /\ 0 \in 0..MaxBoots /\ 0 \in 0..MaxSignIns
        /\ 0 \in Releases /\ None \in Markers /\ "idle" \in Stages
    BY ServerAssumption DEF Releases, Markers, Stages
  <2>2. job \in [Jobs -> Statuses]
    BY DEF Init, ServerInit, Statuses
  <2>3. target \in [Jobs -> Releases]
    BY <2>1 DEF Init, ServerInit
  <2> QED  BY <2>1, <2>2, <2>3 DEF Init, ServerInit, ServerTyped, ServerTypeOK
<1>2. SessionTypeOK
  BY Answers DEF Init, SessionInit, SessionTypeOK
<1>3. 0 \in 0..MaxBoots
  BY ServerAssumption
<1>4. DialogTyped
  BY <1>3 DEF Init, DialogTyped, Dialogs, NoDialog, NewDialog, NoStatus, Phases,
     Statuses
<1> QED  BY <1>1, <1>2, <1>4 DEF Typed

LEMMA TypedStep == ASSUME Typed, [Next]_vars PROVE Typed'
<1>1. ServerTyped'
  BY DaemonSteps, ServerTypedStep, ServerTypedStays DEF Typed
<1> QED  BY <1>1, SessionTypedStep, DialogTypedStep DEF Typed

\* The state of tab, dialog and daemon is well typed.
THEOREM UpdateTypeCorrect == Spec => []TypeOK
<1>1. Spec => []Typed
  BY TypedInitially, TypedStep, PTL DEF Spec
<1> QED  BY <1>1, TypedIsTypeOK, PTL

-----------------------------------------------------------------------------
(* A dialog is part of the shell; its calls are known by it, its probes die *)
(* with its watch, and it was opened with a status at hand.                 *)

Mounted ==
    /\ dlg.shown => Shell /\ status.there
    /\ ~dlg.shown => dlg = NoDialog
    /\ own # {} => dlg.shown
    /\ probes # {} => dlg.phase = "restarting"
    /\ status.available => status.there

LEMMA OffersFacts ==
    /\ Offers # {} => dlg.shown
    /\ "restart" \in Offers => dlg.phase \in {"confirm", "running", "timeout"}
    /\ "install" \in Offers => dlg.phase = "confirm" /\ ~status.pending
    /\ "reload" \in Offers => dlg.phase = "done"
BY DEF Offers, ConfirmOffers, ProgressOffers

LEMMA NoDialogFacts ==
    /\ NoDialog.shown = FALSE /\ NoDialog.phase = "confirm" /\ NoDialog.view = "none"
    /\ NewDialog.shown = TRUE /\ NewDialog.phase = "confirm" /\ NewDialog.view = "none"
    /\ NoStatus.there = FALSE /\ NoStatus.available = FALSE
BY DEF NoDialog, NewDialog, NoStatus

LEMMA MountedStep == ASSUME Typed, Mounted, [Next]_vars PROVE Mounted'
<1> USE DEF Mounted, dialogVars, statusVars, sessionVars, tabVars
<1>0. /\ dlg \in Dialogs
      /\ status \in [available : BOOLEAN, pending : BOOLEAN, there : BOOLEAN]
      /\ UNCHANGED <<session, route>> => Shell' = Shell
  BY DEF Typed, DialogTyped, Shell
<1>1. CASE SessionStep
  BY <1>0, <1>1, NoDialogFacts DEF SessionStep, Unmounting
<1>2. CASE InstallStep \/ ReleaseStep \/ ServerStops \/ ServerBoots
  BY <1>0, <1>2 DEF InstallStep, ReleaseStep, ServerStops, ServerBoots
<1>3. CASE FetchStatus
  <2>1. status'.there
    BY <1>3 DEF FetchStatus
  <2> QED  BY <1>0, <1>3, <2>1 DEF FetchStatus
<1>4. CASE Dismiss \/ RemakeSidebar \/ Close
  BY <1>0, <1>4, NoDialogFacts DEF Dismiss, RemakeSidebar, Close
<1>5. CASE Open
  BY <1>0, <1>5, NoDialogFacts DEF Open, Banner
<1>6. CASE Submit \/ Verified \/ SubmitFails
  BY <1>0, <1>6, OffersFacts DEF Submit, Verified, SubmitFails
<1>7. ASSUME NEW j \in Jobs, Started(j) PROVE Mounted'
  <2>1. CASE UNCHANGED <<dlg, probes>>
    BY <1>0, <1>7, <2>1 DEF Started
  <2>2. CASE "submit" \in own /\ Follow(j)
    <3>1. dlg.shown /\ dlg'.shown /\ probes' = {}
      BY <1>0, <2>2 DEF Follow, Dialogs
    <3> QED  BY <1>0, <1>7, <3>1 DEF Started
  <2> QED  BY <1>7, <2>1, <2>2 DEF Started
<1>8. CASE PollJob \/ LoseJob \/ AskForJob \/ PollLogs
  <2>1. dlg.shown
    BY <1>8, NoDialogFacts DEF PollJob, LoseJob, AskForJob, PollLogs, PollsJob
  <2>2. dlg'.shown /\ dlg'.phase = dlg.phase
    BY <1>0, <1>8, <2>1 DEF PollJob, LoseJob, AskForJob, PollLogs, See, Dialogs
  <2>3. UNCHANGED <<session, route, status, probes, own>>
    BY <1>8 DEF PollJob, LoseJob, AskForJob, PollLogs
  <2> QED  BY <1>0, <2>1, <2>2, <2>3
<1>9. CASE ClickRestart
  BY <1>0, <1>9, OffersFacts DEF ClickRestart
<1>10. CASE RestartAccepted \/ RestartUnreachable
  <2>1. CASE "restart" \in own
    <3>1. dlg.shown /\ dlg'.shown /\ dlg'.phase = "restarting"
      BY <1>0, <1>10, <2>1 DEF RestartAccepted, RestartUnreachable, Watch, Dialogs
    <3>2. /\ UNCHANGED <<session, route, status, probes>>
          /\ own' \subseteq own
      BY <1>10 DEF RestartAccepted, RestartUnreachable, Watch
    <3> QED  BY <1>0, <3>1, <3>2
  <2>2. CASE "restart" \notin own
    BY <1>0, <1>10, <2>2 DEF RestartAccepted, RestartUnreachable, Watch
  <2> QED  BY <2>1, <2>2
<1>11. CASE RestartRefused \/ SendProbe
  BY <1>0, <1>11 DEF RestartRefused, SendProbe
<1>12. CASE PassDeadline
  <2>1. dlg.shown
    BY <1>12, NoDialogFacts DEF PassDeadline
  <2>2. dlg'.shown /\ dlg'.phase = dlg.phase
    BY <1>0, <1>12, <2>1 DEF PassDeadline, Dialogs
  <2> QED  BY <1>0, <1>12, <2>1, <2>2 DEF PassDeadline
<1>13. ASSUME NEW answer \in BOOLEAN, Settle(answer) PROVE Mounted'
  <2>1. dlg.shown /\ dlg.phase = "restarting"
    BY <1>13, NoDialogFacts DEF Settle
  <2>2. dlg'.shown
    BY <1>0, <1>13, <2>1 DEF Settle, Dialogs
  <2>3. probes' # {} => dlg'.phase = "restarting"
    BY <1>0, <1>13, <2>1 DEF Settle
  <2> QED  BY <1>0, <1>13, <2>1, <2>2, <2>3 DEF Settle
<1>14. CASE SignInAgain
  BY <1>14, NoDialogFacts DEF SignInAgain
<1>15. CASE UNCHANGED vars
  BY <1>0, <1>15 DEF vars
<1> QED
  BY <1>1, <1>2, <1>3, <1>4, <1>5, <1>6, <1>7, <1>8, <1>9, <1>10, <1>11, <1>12, <1>13,
     <1>14, <1>15 DEF Next, DialogStep

-----------------------------------------------------------------------------
(* The watch for the restarted process.                                     *)

\* Whoever waits for the restart it asked for had a session then: it is lost
\* with the process, or for a cause that is on record.
Watching ==
    /\ boots >= since
    /\ restart = "sent" \/ dlg.phase = "restarting" =>
          (up /\ boots = since => signedIn \/ otherwise)
    /\ TRUE \in probes => boots > since \/ otherwise
    /\ DoneMeansRestarted

\* How the daemon and the history move under a watch.
Onward ==
    /\ since' = since
    /\ boots' \in {boots, boots + 1}
    /\ otherwise => otherwise'
    /\ boots' = boots /\ up' => up
    /\ boots' = boots /\ up' /\ signedIn => signedIn' \/ otherwise'

LEMMA DaemonOnward ==
    ASSUME Typed, DaemonStep
    PROVE  /\ boots' \in {boots, boots + 1}
           /\ boots' = boots /\ up' => up
<1>1. CASE Stop
  BY <1>1 DEF Stop
<1>2. CASE Boot
  BY <1>2 DEF Boot
<1>3. CASE UNCHANGED <<boots, up>>
  BY <1>3
<1> QED
  BY <1>1, <1>2, <1>3 DEF DaemonStep, Advance, Fetched, Place, Arm, Succeed, Fail,
     Finish, Publish, Check, StartUpdate, AskRestart, SignIn, SignOut

\* Without the operator a session is lost only with the process.
Unattended ==
    \/ \E j \in Jobs : Fetched(j) \/ Place(j) \/ Arm(j) \/ Succeed(j) \/ Fail(j)
    \/ Finish \/ Publish \/ Check \/ Stop \/ Boot
    \/ \E j \in Jobs : StartUpdate(j)
    \/ AskRestart
    \/ UNCHANGED serverVars

LEMMA UnattendedStep == ASSUME Unattended, signedIn, up' PROVE signedIn'
<1>1. ~Stop
  BY DEF Stop
<1>2. CASE UNCHANGED signedIn
  BY <1>2, Zenon
<1> QED
  BY <1>1, <1>2 DEF Unattended, Advance, Fetched, Place, Arm, Succeed, Fail, Finish,
     Publish, Check, Boot, StartUpdate, AskRestart, serverVars

LEMMA UnattendedSteps == ASSUME [Next]_vars, ~SessionStep PROVE Unattended
<1>1. CASE InstallStep \/ ReleaseStep \/ ServerStops \/ ServerBoots
  BY <1>1 DEF InstallStep, ReleaseStep, ServerStops, ServerBoots, Unattended
<1>2. CASE \E j \in Jobs : Started(j)
  BY <1>2 DEF Started, Unattended
<1>3. CASE RestartAccepted
  BY <1>3 DEF RestartAccepted, Unattended
<1>4. CASE DialogStep /\ ~RestartAccepted /\ ~\E j \in Jobs : Started(j)
  BY <1>4 DEF DialogStep, FetchStatus, Dismiss, RemakeSidebar, Open, Close, Submit,
     Verified, SubmitFails, PollJob, LoseJob, AskForJob, PollLogs, ClickRestart,
     RestartUnreachable, RestartRefused, SendProbe, PassDeadline, Settle,
     SignInAgain, Reload, Unattended
<1>5. CASE UNCHANGED vars
  BY <1>5 DEF vars, Unattended
<1> QED  BY <1>1, <1>2, <1>3, <1>4, <1>5 DEF Next

LEMMA OnwardStep == ASSUME Typed, [Next]_vars, ~ClickRestart PROVE Onward
<1> USE DEF dialogVars, statusVars, history
<1>1. since' = since
  BY DEF Next, vars, SessionStep, Unmounting, InstallStep, ReleaseStep, ServerStops,
     ServerBoots, DialogStep, FetchStatus, Dismiss, RemakeSidebar, Open, Close, Submit,
     Verified, SubmitFails, Started, PollJob, LoseJob, AskForJob, PollLogs,
     RestartAccepted,
     RestartUnreachable, RestartRefused, Watch, SendProbe, PassDeadline, Settle,
     SignInAgain
<1>2. CASE SessionStep
  <2>1. otherwise' = (otherwise \/ (signedIn /\ ~signedIn'))
    BY <1>2 DEF SessionStep, Unmounting
  <2>2. (otherwise => otherwise') /\ (signedIn => signedIn' \/ otherwise')
    BY <2>1, Zenon
  <2> QED  BY <1>1, <2>2, DaemonSteps, DaemonOnward DEF Onward, serverVars
<1>3. CASE ~SessionStep
  <2>1. otherwise' = otherwise
    BY <1>3 DEF Next, vars, InstallStep, ReleaseStep, ServerStops,
       ServerBoots, DialogStep, FetchStatus, Dismiss, RemakeSidebar, Open, Close, Submit,
       Verified, SubmitFails, Started, PollJob, LoseJob, AskForJob, PollLogs,
       RestartAccepted,
       RestartUnreachable, RestartRefused, Watch, SendProbe, PassDeadline, Settle,
       SignInAgain
  <2>2. otherwise => otherwise'
    BY <2>1, Zenon
  <2>3. up' /\ signedIn => signedIn'
    BY <1>3, UnattendedSteps, UnattendedStep
  <2> QED  BY <1>1, <2>2, <2>3, DaemonSteps, DaemonOnward DEF Onward, serverVars
<1> QED  BY <1>2, <1>3

LEMMA WatchingStep == ASSUME Typed, Mounted, Watching, [Next]_vars PROVE Watching'
<1> USE DEF dialogVars, statusVars, history
<1>0. boots \in Nat /\ since \in Nat /\ dlg \in Dialogs
  BY ServerAssumption DEF Typed, ServerTyped, ServerTypeOK, DialogTyped
<1>1. CASE ClickRestart
  <2>1. /\ since' = boots /\ boots' = boots /\ otherwise' = ~signedIn
        /\ signedIn' = signedIn /\ dlg' = dlg /\ probes' = probes
    BY <1>1 DEF ClickRestart, serverVars
  <2>2. signedIn' \/ otherwise'
    BY <2>1, Zenon
  <2>3. dlg.phase \notin {"restarting", "done"} /\ probes = {}
    BY <1>1, OffersFacts DEF ClickRestart, Mounted
  <2> QED  BY <1>0, <2>1, <2>2, <2>3 DEF Watching, DoneMeansRestarted
<1>2. ASSUME Onward, restart' = "sent" => restart = "sent",
             dlg'.phase = "restarting" => restart = "sent" \/ dlg.phase = "restarting",
             TRUE \in probes' => boots > since \/ otherwise,
             dlg'.phase = "done" => dlg.phase = "done" \/ TRUE \in probes
      PROVE  Watching'
  <2>1. boots' >= since'
    BY <1>0, <1>2 DEF Onward, Watching
  <2>2. boots > since \/ otherwise => boots' > since' \/ otherwise'
    BY <1>0, <1>2 DEF Onward
  <2>3. (restart = "sent" \/ dlg.phase = "restarting" =>
           (up /\ boots = since => signedIn \/ otherwise))'
    <3> SUFFICES ASSUME restart' = "sent" \/ dlg'.phase = "restarting", up', boots' = since'
                 PROVE  signedIn' \/ otherwise'
      OBVIOUS
    <3>1. boots = since /\ boots' = boots
      BY <1>0, <1>2 DEF Onward, Watching
    <3>2. signedIn \/ otherwise
      BY <1>2, <3>1 DEF Onward, Watching
    <3> QED  BY <1>2, <3>1, <3>2 DEF Onward
  <2> QED  BY <1>2, <2>1, <2>2, <2>3 DEF Watching, DoneMeansRestarted
<1>3. CASE ~ClickRestart
  <2>1. Onward
    BY <1>3, OnwardStep
  <2>2. restart' = "sent" => restart = "sent"
    BY <1>3 DEF Next, vars, SessionStep, Unmounting, InstallStep, ReleaseStep, ServerStops,
       ServerBoots, DialogStep, FetchStatus, Dismiss, RemakeSidebar, Open, Close, Submit,
       Verified, SubmitFails, Started, PollJob, LoseJob, AskForJob, PollLogs,
       RestartAccepted,
       RestartUnreachable, RestartRefused, Watch, SendProbe, PassDeadline, Settle,
       SignInAgain
  <2>3. CASE SendProbe
    <3>1. TRUE \in probes' => boots > since \/ otherwise
      <4> SUFFICES ASSUME TRUE \in probes', TRUE \notin probes
                   PROVE  boots > since \/ otherwise
        BY DEF Watching
      <4>1. \E reply \in Reply : Session(reply) = "out"
        BY <2>3 DEF SendProbe
      <4>2. up /\ ~signedIn
        BY <4>1, Answers
      <4> QED  BY <1>0, <2>3, <4>2 DEF SendProbe, Watching
    <3> QED  BY <1>2, <2>1, <2>2, <2>3, <3>1 DEF SendProbe
  <2>4. CASE \E answer \in BOOLEAN : Settle(answer)
    <3>1. PICK answer \in BOOLEAN : Settle(answer)
      BY <2>4
    <3>2. probes' \subseteq probes /\ dlg.phase = "restarting"
      BY <3>1 DEF Settle, Mounted
    <3>3. dlg'.phase = "done" => TRUE \in probes
      BY <1>0, <3>1, <3>2 DEF Settle, Dialogs
    <3> QED  BY <1>2, <2>1, <2>2, <3>2, <3>3 DEF Watching
  <2>5. CASE RestartAccepted \/ RestartUnreachable
    <3>1. probes' = probes /\ restart = "sent" /\ (dlg' = dlg \/ dlg'.phase = "restarting")
      BY <1>0, <2>5 DEF RestartAccepted, RestartUnreachable, Watch, Dialogs
    <3> QED  BY <1>2, <2>1, <2>2, <3>1 DEF Watching
  <2>6. CASE UNCHANGED <<dlg, probes>>
    BY <1>2, <2>1, <2>2, <2>6 DEF Watching
  <2>7. CASE dlg'.phase \notin {"restarting", "done"} /\ probes' = {}
    BY <1>2, <2>1, <2>2, <2>7
  <2>8. CASE dlg'.phase = dlg.phase /\ probes' = probes
    BY <1>2, <2>1, <2>2, <2>8 DEF Watching
  <2>9. ASSUME NEW j \in Jobs, Started(j)
        PROVE  \/ UNCHANGED <<dlg, probes>>
               \/ dlg'.phase \notin {"restarting", "done"} /\ probes' = {}
    BY <1>0, <2>9 DEF Started, Follow, Dialogs
  <2>10. CASE Open
    <3>1. dlg.phase = "confirm" /\ dlg'.phase = "confirm" /\ probes' = probes
      BY <2>10, NoDialogFacts DEF Open, Mounted
    <3> QED  BY <2>8, <3>1
  <2>11. CASE Close \/ SignInAgain
    BY <2>7, <2>11, NoDialogFacts DEF Close, SignInAgain
  <2>12. CASE PollJob \/ LoseJob \/ AskForJob \/ PollLogs \/ PassDeadline
    <3>1. dlg'.phase = dlg.phase /\ probes' = probes
      BY <1>0, <2>12 DEF PollJob, See, LoseJob, AskForJob, PollLogs, PassDeadline, Dialogs
    <3> QED  BY <2>8, <3>1
  <2>13. CASE SessionStep
    BY <2>6, <2>7, <2>13, NoDialogFacts DEF SessionStep, Unmounting
  <2>14. CASE InstallStep \/ ReleaseStep \/ ServerStops \/ ServerBoots \/ UNCHANGED vars
    BY <2>6, <2>14 DEF InstallStep, ReleaseStep, ServerStops, ServerBoots, vars
  <2>15. CASE FetchStatus \/ Dismiss \/ RemakeSidebar \/ Submit \/ Verified \/ SubmitFails
              \/ RestartRefused
    BY <2>6, <2>15 DEF FetchStatus, Dismiss, RemakeSidebar, Submit, Verified,
       SubmitFails, RestartRefused
  <2> QED
    BY <1>3, <2>3, <2>4, <2>5, <2>6, <2>7, <2>9, <2>10, <2>11, <2>12, <2>13, <2>14, <2>15
       DEF Next, DialogStep
<1> QED  BY <1>1, <1>3

\* A dialog that says "Updated" has seen the end of the process it asked to
\* restart, unless the session had ended for another reason (the watch of
\* update-modal.tsx).
THEOREM DoneIsRestarted == Spec => []DoneMeansRestarted
<1>1. Init => Mounted /\ Watching
  <2> SUFFICES ASSUME Init PROVE Mounted /\ Watching
    OBVIOUS
  <2>1. dlg = NoDialog /\ own = {} /\ probes = {} /\ status = NoStatus /\ restart = "idle"
        /\ boots = 0 /\ since = 0
    BY DEF Init, ServerInit
  <2> QED  BY <2>1, NoDialogFacts DEF Mounted, Watching, DoneMeansRestarted
<1>2. Spec => [](Typed /\ Mounted /\ Watching)
  BY <1>1, TypedInitially, TypedStep, MountedStep, WatchingStep, PTL DEF Spec
<1>3. Watching => DoneMeansRestarted
  BY DEF Watching
<1> QED  BY <1>2, <1>3, PTL

-----------------------------------------------------------------------------
(* A tab signs out for a cause.                                             *)

\* While no session was ever lost, a tab that is in has one, and so has one
\* that is about to learn that it is in; a refusal is the sign of a loss.
Losing ==
    /\ session = "in" /\ ~everLost => signedIn /\ probe # "out"
    /\ probe = "in" /\ ~everLost => signedIn
    /\ expired => everLost

\* A loss is recorded, and the record stays.
LEMMA LossIsKept ==
    ASSUME Typed, [Next]_vars
    PROVE  /\ everLost => everLost'
           /\ signedIn => signedIn' \/ everLost'
<1>1. Typed'
  BY TypedStep
<1> USE DEF sessionVars, tabVars, serverVars
<1>2. CASE ServerStops
  <2>1. everLost' = (everLost \/ signedIn)
    BY <1>2 DEF ServerStops
  <2> QED  BY <2>1, Zenon
<1>3. CASE LogOut \/ LogOutUnheard \/ ElsewhereSignOut
  BY <1>3 DEF LogOut, LogOutUnheard, ElsewhereSignOut
<1>4. CASE everLost' = everLost /\ (signedIn' = signedIn \/ signedIn' = TRUE)
  <2>1. everLost => everLost'
    BY <1>4, Zenon
  <2>2. CASE signedIn' = signedIn
    BY <2>1, <2>2, Zenon
  <2>3. CASE signedIn' = TRUE
    BY <2>1, <2>3
  <2> QED  BY <1>4, <2>2, <2>3
<1>5. CASE SessionStep /\ ~LogOut /\ ~LogOutUnheard /\ ~ElsewhereSignOut
  BY <1>4, <1>5 DEF SessionStep, TabStep, Focus, ReceiveProbe, Navigate, LogIn, Refused,
     Expire, ElsewhereSignIn, SignIn
<1>6. CASE InstallStep \/ ReleaseStep \/ ServerBoots
  BY <1>4, <1>6 DEF InstallStep, ReleaseStep, ServerBoots, Advance, Fetched, Place, Arm,
     Succeed, Fail, Finish, Publish, Check, Boot
<1>7. ASSUME NEW j \in Jobs, Started(j)
      PROVE  everLost' = everLost /\ signedIn' = signedIn
  BY <1>7 DEF Started, StartUpdate
<1>8. CASE RestartAccepted
  BY <1>4, <1>8 DEF RestartAccepted, Watch, AskRestart
<1>9. CASE DialogStep /\ ~RestartAccepted /\ ~\E j \in Jobs : Started(j)
  BY <1>4, <1>9 DEF DialogStep, FetchStatus, Dismiss, RemakeSidebar, Open, Close, Submit,
     Verified, SubmitFails, PollJob, LoseJob, AskForJob, PollLogs, ClickRestart,
     RestartUnreachable, Watch, RestartRefused, SendProbe, PassDeadline, Settle,
     SignInAgain, Reload
<1>10. CASE UNCHANGED vars
  BY <1>4, <1>10 DEF vars
<1> QED
  BY <1>2, <1>3, <1>4, <1>5, <1>6, <1>7, <1>8, <1>9, <1>10 DEF Next, DialogStep

\* A 401 reaches the handler of the cache only from the shell.
LEMMA RefusedInShell ==
    ASSUME Mounted, [Next]_vars
    PROVE  expired' => expired \/ (session = "in" /\ up /\ ~signedIn)
<1> USE DEF sessionVars, tabVars
<1>1. CASE expired' = expired
  BY <1>1, Zenon
<1>2. CASE Refused
  BY <1>2, Answers DEF Refused, Shell
<1>3. CASE LoseJob
  <2>1. dlg.shown
    BY <1>3, NoDialogFacts DEF LoseJob, PollsJob, Mounted
  <2>2. session = "in"
    BY <2>1 DEF Mounted, Shell
  <2> QED  BY <1>1, <1>3, <2>2, Answers DEF LoseJob
<1>4. CASE Expire \/ SignInAgain
  BY <1>4 DEF Expire, SignInAgain, Reload
<1>5. CASE SessionStep /\ ~Refused /\ ~Expire
  BY <1>1, <1>5 DEF SessionStep, TabStep, Focus, ReceiveProbe, Navigate, LogIn, LogOut,
     LogOutUnheard, ElsewhereSignIn, ElsewhereSignOut
<1>6. CASE InstallStep \/ ReleaseStep \/ ServerStops \/ ServerBoots
  BY <1>1, <1>6 DEF InstallStep, ReleaseStep, ServerStops, ServerBoots
<1>7. CASE DialogStep /\ ~LoseJob /\ ~SignInAgain
  BY <1>1, <1>7 DEF DialogStep, FetchStatus, Dismiss, RemakeSidebar, Open, Close, Submit,
     Verified, SubmitFails, PollJob, AskForJob, PollLogs, ClickRestart, Started,
     RestartAccepted,
     RestartUnreachable, RestartRefused, SendProbe, PassDeadline, Settle, Watch
<1>8. CASE UNCHANGED vars
  BY <1>1, <1>8 DEF vars
<1> QED  BY <1>2, <1>3, <1>4, <1>5, <1>6, <1>7, <1>8 DEF Next

LEMMA LosingStep ==
    ASSUME Typed, Mounted, Losing, [Next]_vars
    PROVE  Losing' /\ (session = "in" /\ session' = "out" => everLost')
<1>1. /\ everLost => everLost'
      /\ signedIn => signedIn' \/ everLost'
  BY LossIsKept
<1>2. expired' => everLost'
  BY <1>1, RefusedInShell DEF Losing
<1>3. Ask => /\ probe' = "in" => signedIn'
             /\ probe' = "out" => ~signedIn'
  BY LaterAnswers DEF Ask
<1>4. CASE UNCHANGED session /\ (UNCHANGED probe \/ Refetch)
  BY <1>1, <1>2, <1>3, <1>4 DEF Losing, Refetch
<1>5. CASE ReceiveProbe
  BY <1>1, <1>2, <1>5 DEF Losing, ReceiveProbe
<1>6. CASE Expire
  BY <1>1, <1>2, <1>6 DEF Losing, Expire
<1>7. CASE session' = "out" /\ everLost' /\ UNCHANGED probe
  BY <1>1, <1>2, <1>7 DEF Losing
<1>8. CASE session' = "pending" /\ Ask
  BY <1>1, <1>2, <1>3, <1>8 DEF Losing
<1> QED  BY <1>4, <1>5, <1>6, <1>7, <1>8, SessionSteps DEF SessionMoves

LEMMA AlwaysMounted == Spec => [](Typed /\ Mounted)
<1>1. Init => Mounted
  <2> SUFFICES ASSUME Init PROVE Mounted
    OBVIOUS
  <2>1. dlg = NoDialog /\ own = {} /\ probes = {} /\ status = NoStatus
    BY DEF Init
  <2> QED  BY <2>1, NoDialogFacts DEF Mounted
<1> QED  BY <1>1, TypedInitially, TypedStep, MountedStep, PTL DEF Spec

\* No tab that is in drops its session while every session of this browser
\* lasts (checkSession and CREDENTIAL_PATHS in lib/api.ts).
THEOREM SignOutIsCaused == Spec => SignOutHasCause
<1>1. Init => Losing
  <2> SUFFICES ASSUME Init PROVE Losing
    OBVIOUS
  <2>1. session = "pending" /\ (probe = "in" => signedIn) /\ ~expired
    BY Answers DEF Init, SessionInit
  <2> QED  BY <2>1 DEF Losing
<1>2. Typed /\ Mounted /\ Losing /\ [Next]_vars =>
        Losing' /\ [session = "in" /\ session' = "out" => everLost']_vars
  BY LosingStep
<1> QED  BY <1>1, <1>2, AlwaysMounted, PTL DEF Spec, SignOutHasCause

-----------------------------------------------------------------------------
(* The releases of an install.                                              *)

\* One install at a time is under way, and it never installs an older release
\* than the one on disk: a restart never falls back, and what has succeeded
\* is on disk, or something newer is.
Installs ==
    /\ serving <= installed /\ installed <= latest
    /\ ~up => stage = "idle"
    /\ \A j \in Jobs :
          /\ job[j] = "succeeded" => target[j] <= installed
          /\ job[j] = "running" =>
                /\ target[j] <= latest
                /\ up => stage \notin {"idle", "clean"}
                /\ stage \in {"fetch", "place"} => installed <= target[j]
                /\ stage \in {"arm", "succeed"} => installed = target[j]
                /\ \A i \in Jobs : job[i] = "running" => i = j

LEMMA ReleasesAreOrdered ==
    ASSUME Typed
    PROVE  /\ serving \in Nat /\ installed \in Nat /\ latest \in Nat /\ known \in Nat
           /\ target \in [Jobs -> Nat] /\ job \in [Jobs -> Statuses]
           /\ up \in BOOLEAN /\ boots \in Nat
<1>1. Releases \subseteq Nat
  BY ServerAssumption DEF Releases
<1>2. serving \in Releases /\ installed \in Releases /\ latest \in Releases
      /\ known \in Releases /\ target \in [Jobs -> Releases]
      /\ job \in [Jobs -> Statuses] /\ up \in BOOLEAN
  BY DEF Typed, ServerTyped, ServerTypeOK
<1>3. boots \in Nat
  BY ServerAssumption DEF Typed, ServerTyped, ServerTypeOK
<1>4. target \in [Jobs -> Nat]
  BY <1>1, <1>2
<1> QED  BY <1>1, <1>2, <1>3, <1>4

LEMMA InstallsStep == ASSUME Typed, Installs, DaemonStep PROVE Installs'
<1>0. /\ serving \in Nat /\ installed \in Nat /\ latest \in Nat
      /\ target \in [Jobs -> Nat] /\ job \in [Jobs -> Statuses]
  BY ReleasesAreOrdered
<1> USE DEF Installs
<1>1. ASSUME NEW k \in Jobs, Fetched(k) PROVE Installs'
  BY <1>0, <1>1 DEF Fetched, Advance
<1>2. ASSUME NEW k \in Jobs, Place(k) PROVE Installs'
  BY <1>0, <1>2 DEF Place, Advance
<1>3. ASSUME NEW k \in Jobs, Arm(k) PROVE Installs'
  BY <1>0, <1>3 DEF Arm, Advance
<1>4. ASSUME NEW k \in Jobs, Succeed(k) PROVE Installs'
  BY <1>0, <1>4 DEF Succeed, Advance
<1>5. ASSUME NEW k \in Jobs, Fail(k) PROVE Installs'
  BY <1>0, <1>5 DEF Fail, Advance
<1>6. ASSUME NEW k \in Jobs, StartUpdate(k) PROVE Installs'
  BY <1>0, <1>6 DEF StartUpdate
<1>7. CASE Finish
  BY <1>0, <1>7 DEF Finish
<1>8. CASE Publish
  BY <1>0, <1>8 DEF Publish, installVars
<1>9. CASE Check \/ AskRestart \/ SignIn \/ SignOut
  BY <1>0, <1>9 DEF Check, AskRestart, SignIn, SignOut, installVars
<1>10. CASE Stop
  BY <1>0, <1>10 DEF Stop
<1>11. CASE Boot
  BY <1>0, <1>11 DEF Boot
<1> QED
  BY <1>1, <1>2, <1>3, <1>4, <1>5, <1>6, <1>7, <1>8, <1>9, <1>10, <1>11 DEF DaemonStep

LEMMA InstallsStays == ASSUME Installs, UNCHANGED serverVars PROVE Installs'
BY DEF Installs, serverVars, installVars

\* A job that has ended stays ended and keeps its release; one that failed
\* stays failed, and one that succeeded may be failed only by a restart that
\* runs a newer release.
Ended(j) == job[j] \in {"succeeded", "failed"}

LEMMA EndsStay ==
    ASSUME Typed, Installs, DaemonStep \/ UNCHANGED serverVars, NEW j \in Jobs, Ended(j)
    PROVE  /\ Ended(j)' /\ target'[j] = target[j]
           /\ job[j] = "failed" => job'[j] = "failed"
           /\ job[j] = "succeeded" =>
                  \/ job'[j] = "succeeded"
                  \/ boots' > 0 /\ target[j] < serving'
<1>0. /\ serving \in Nat /\ installed \in Nat /\ target \in [Jobs -> Nat]
      /\ job \in [Jobs -> Statuses] /\ boots \in Nat
  BY ReleasesAreOrdered
<1> USE DEF Ended
<1>1. CASE UNCHANGED <<job, target>>
  BY <1>1
<1>2. ASSUME NEW k \in Jobs, Succeed(k) \/ Fail(k)
      PROVE  job'[j] = job[j] /\ target' = target
  BY <1>0, <1>2 DEF Succeed, Fail, Advance
<1>3. ASSUME NEW k \in Jobs, StartUpdate(k)
      PROVE  job'[j] = job[j] /\ target'[j] = target[j]
  <2>1. job[k] = "none"
    BY <1>3 DEF StartUpdate, Jobs
  <2> QED  BY <1>0, <1>3, <2>1 DEF StartUpdate
<1>4. CASE Boot
  BY <1>0, <1>4 DEF Boot, Installs
<1>5. CASE \E k \in Jobs : Fetched(k) \/ Place(k) \/ Arm(k)
  BY <1>1, <1>5 DEF Fetched, Place, Arm, Advance
<1>6. CASE UNCHANGED serverVars \/ Finish \/ Publish \/ Check \/ Stop \/ AskRestart
           \/ SignIn \/ SignOut
  BY <1>1, <1>6 DEF Finish, Publish, Check, Stop, AskRestart, SignIn, SignOut,
     serverVars, installVars
<1> QED  BY <1>1, <1>2, <1>3, <1>4, <1>5, <1>6 DEF DaemonStep

\* Releases only rise, and so do the processes.
LEMMA ReleasesRise ==
    ASSUME Typed, Installs, DaemonStep \/ UNCHANGED serverVars
    PROVE  serving <= serving' /\ installed <= installed' /\ boots <= boots'
<1>0. /\ serving \in Nat /\ installed \in Nat /\ boots \in Nat
  BY ReleasesAreOrdered
<1>1. CASE UNCHANGED <<serving, installed, boots>>
  BY <1>0, <1>1
<1>2. ASSUME NEW k \in Jobs, Place(k)
      PROVE  serving' = serving /\ installed <= installed' /\ boots' = boots
  BY <1>2 DEF Place, Advance, Installs
<1>3. CASE Boot
  BY <1>0, <1>3 DEF Boot, Installs
<1>4. CASE \E k \in Jobs : Fetched(k) \/ Arm(k) \/ Succeed(k) \/ Fail(k) \/ StartUpdate(k)
  BY <1>1, <1>4 DEF Fetched, Arm, Succeed, Fail, Advance, StartUpdate
<1>5. CASE UNCHANGED serverVars \/ Finish \/ Publish \/ Check \/ Stop \/ AskRestart
           \/ SignIn \/ SignOut
  BY <1>1, <1>5 DEF Finish, Publish, Check, Stop, AskRestart, SignIn, SignOut,
     serverVars, installVars
<1>6. CASE \E k \in Jobs : Place(k)
  BY <1>0, <1>2, <1>6
<1> QED  BY <1>1, <1>3, <1>4, <1>5, <1>6 DEF DaemonStep

-----------------------------------------------------------------------------
(* What the dialog says of an install.                                      *)

\* An end on the screen is the end of the job, which a restart with a newer
\* release may have judged anew.  A tab that has seen the success of the job
\* whose restart waits knows that its status is out of date.
Results ==
    /\ dlg.view \in {"succeeded", "failed"} => dlg.job \in Jobs /\ Ended(dlg.job)
    /\ dlg.view = "failed" => job[dlg.job] = "failed"
    /\ dlg.view = "succeeded" =>
          /\ target[dlg.job] <= installed
          /\ job[dlg.job] = "succeeded" \/ (boots > 0 /\ target[dlg.job] < serving)
          /\ marker = dlg.job => sawSuccess
    /\ sawSuccess => marker # None
    /\ status.there /\ sawSuccess /\ marker # None /\ ~status.pending => stale

\* A marker is that of a running job, or it is taken away by the next process.
LEMMA MarkerMoves ==
    ASSUME Typed, DaemonStep \/ UNCHANGED serverVars
    PROVE  \/ marker' = marker /\ ~Boot
           \/ Boot /\ marker' = None
           \/ ~Boot /\ marker' # None /\ (marker' \in Jobs => job[marker'] = "running")
<1>1. ASSUME NEW k \in Jobs, Arm(k)
      PROVE  up /\ marker' = k /\ k # None /\ job[k] = "running"
  BY <1>1 DEF Arm, Advance, Jobs, None
<1>2. ASSUME NEW k \in Jobs, Fail(k)
      PROVE  marker' = marker \/ (up /\ marker' = Torn)
  BY <1>2 DEF Fail, Advance
<1>3. Torn # None /\ Torn \notin Jobs
  BY ServerAssumption DEF Torn, None, Jobs
<1>9. Stop => marker' = marker \/ (up /\ marker' = Torn)
  BY DEF Stop
<1>4. Boot => ~up /\ marker' = None
  BY DEF Boot
<1>5. CASE \E k \in Jobs : Arm(k)
  BY <1>1, <1>4, <1>5
<1>6. CASE \E k \in Jobs : Fail(k)
  BY <1>2, <1>3, <1>4, <1>6
<1>7. CASE \E k \in Jobs : Fetched(k) \/ Place(k) \/ Succeed(k) \/ StartUpdate(k)
  <2>1. marker' = marker
    BY <1>7 DEF Fetched, Place, Succeed, Advance, StartUpdate
  <2> QED  BY <1>4, <2>1
<1>8. CASE UNCHANGED serverVars \/ Finish \/ Publish \/ Check \/ AskRestart
           \/ SignIn \/ SignOut
  <2>1. marker' = marker
    BY <1>8 DEF Finish, Publish, Check, AskRestart, SignIn, SignOut,
       serverVars, installVars
  <2> QED  BY <1>4, <2>1
<1>10. CASE Stop
  BY <1>3, <1>4, <1>9, <1>10
<1> QED  BY <1>4, <1>5, <1>6, <1>7, <1>8, <1>10 DEF DaemonStep

\* The dialog shows what it showed of a job, or nothing, or what a poll says.
ViewMoves ==
    \/ UNCHANGED <<dlg.view, dlg.job>>
    \/ dlg'.view = "none"
    \/ /\ PollJob
       /\ dlg.job \in Jobs /\ dlg'.job = dlg.job /\ dlg'.view = job[dlg.job]

LEMMA ViewSteps == ASSUME Typed, [Next]_vars PROVE ViewMoves
<1> USE DEF ViewMoves, dialogVars, statusVars
<1>0. dlg \in Dialogs
  BY DEF Typed, DialogTyped
<1>1. CASE dlg' = dlg \/ dlg' = NoDialog \/ dlg' = NewDialog
  BY <1>1, NoDialogFacts
<1>2. CASE PollJob
  BY <1>0, <1>2 DEF PollJob, PollsJob, See, Dialogs
<1>3. ASSUME NEW j \in Jobs, Started(j)
      PROVE  dlg' = dlg \/ dlg'.view = "none"
  BY <1>0, <1>3 DEF Started, Follow, Dialogs
<1>4. CASE LoseJob \/ AskForJob \/ PollLogs \/ PassDeadline
  BY <1>0, <1>4 DEF LoseJob, AskForJob, PollLogs, PassDeadline, Dialogs
<1>5. CASE RestartAccepted \/ RestartUnreachable
  BY <1>0, <1>5 DEF RestartAccepted, RestartUnreachable, Watch, Dialogs
<1>6. ASSUME NEW answer \in BOOLEAN, Settle(answer)
      PROVE  dlg'.view = dlg.view /\ dlg'.job = dlg.job
  BY <1>0, <1>6 DEF Settle, Dialogs
<1>7. CASE Open \/ Close \/ SignInAgain
  BY <1>1, <1>7 DEF Open, Close, SignInAgain
<1>8. CASE SessionStep
  BY <1>1, <1>8 DEF SessionStep, Unmounting
<1>9. CASE InstallStep \/ ReleaseStep \/ ServerStops \/ ServerBoots \/ UNCHANGED vars
  BY <1>1, <1>9 DEF InstallStep, ReleaseStep, ServerStops, ServerBoots, vars
<1>10. CASE FetchStatus \/ Dismiss \/ RemakeSidebar \/ Submit \/ Verified \/ SubmitFails
            \/ ClickRestart \/ RestartRefused \/ SendProbe
  BY <1>1, <1>10 DEF FetchStatus, Dismiss, RemakeSidebar, Submit, Verified, SubmitFails,
     ClickRestart, RestartRefused, SendProbe
<1> QED
  BY <1>2, <1>1, <1>3, <1>4, <1>5, <1>6, <1>7, <1>8, <1>9, <1>10 DEF Next, DialogStep

\* What the tab saw, and what it knows of the status.
StatusMoves ==
    \/ UNCHANGED <<status, stale, sawSuccess>>
    \/ ServerBoots
    \/ PollJob
    \/ FetchStatus
    \/ SignInAgain

LEMMA OnlyServerBoots == ASSUME [Next]_vars, Boot PROVE ServerBoots
<1>0. ~up /\ up' = TRUE
  BY DEF Boot
<1> SUFFICES ASSUME ~ServerBoots PROVE up' = up \/ ~up'
  BY <1>0
<1>1. CASE SessionStep
  BY <1>1 DEF SessionStep, TabStep, Focus, ReceiveProbe, Navigate, LogIn, LogOut,
     LogOutUnheard, Refused, Expire, ElsewhereSignIn, ElsewhereSignOut, SignIn, SignOut,
     serverVars
<1>2. CASE InstallStep \/ ReleaseStep \/ ServerStops
  BY <1>2 DEF InstallStep, ReleaseStep, ServerStops, Advance, Fetched, Place, Arm,
     Succeed, Fail, Finish, Publish, Check, Stop
<1>3. CASE (\E j \in Jobs : Started(j)) \/ RestartAccepted
  BY <1>3 DEF Started, StartUpdate, RestartAccepted, AskRestart
<1>4. CASE DialogStep /\ ~RestartAccepted /\ ~\E j \in Jobs : Started(j)
  BY <1>4 DEF DialogStep, FetchStatus, Dismiss, RemakeSidebar, Open, Close, Submit,
     Verified, SubmitFails, PollJob, LoseJob, AskForJob, PollLogs, ClickRestart,
     RestartUnreachable, RestartRefused, SendProbe, PassDeadline, Settle, SignInAgain,
     Reload, serverVars
<1>5. CASE UNCHANGED vars
  BY <1>5 DEF vars, serverVars
<1> QED  BY <1>1, <1>2, <1>3, <1>4, <1>5 DEF Next

LEMMA StatusSteps == ASSUME [Next]_vars PROVE StatusMoves
<1> USE DEF StatusMoves, dialogVars, statusVars, history
<1>1. CASE ServerBoots \/ PollJob \/ FetchStatus \/ SignInAgain
  BY <1>1
<1>2. CASE SessionStep \/ InstallStep \/ ReleaseStep \/ ServerStops \/ UNCHANGED vars
  <2>1. UNCHANGED <<status, stale, sawSuccess>>
    BY <1>2 DEF SessionStep, Unmounting, InstallStep, ReleaseStep, ServerStops, vars
  <2> QED  BY <2>1, OnlyServerBoots
<1>3. CASE DialogStep /\ ~PollJob /\ ~FetchStatus /\ ~SignInAgain
  <2>1. UNCHANGED <<status, stale, sawSuccess>>
    BY <1>3 DEF DialogStep, Dismiss, RemakeSidebar, Open, Close, Submit, Verified,
       SubmitFails, LoseJob, AskForJob, PollLogs, ClickRestart, Started,
       RestartAccepted, RestartUnreachable, RestartRefused, SendProbe, PassDeadline,
       Settle, Watch
  <2> QED  BY <2>1, OnlyServerBoots
<1> QED  BY <1>1, <1>2, <1>3 DEF Next

\* What one poll adds.
LEMMA PollFacts ==
    ASSUME Typed, PollJob
    PROVE  /\ dlg.job \in Jobs /\ UNCHANGED serverVars /\ ~Boot
           /\ UNCHANGED <<status, job, marker>>
           /\ dlg'.view = job[dlg.job] /\ dlg'.job = dlg.job
           /\ sawSuccess => sawSuccess'
           /\ sawSuccess' => sawSuccess \/ marker = dlg.job
           /\ job[dlg.job] = "succeeded" /\ marker = dlg.job => sawSuccess'
           /\ stale => stale'
           /\ sawSuccess' => \/ sawSuccess
                             \/ dlg.view = "succeeded" /\ marker = dlg.job
                             \/ stale'
<1>1. dlg \in Dialogs
  BY DEF Typed, DialogTyped
<1>2. /\ dlg.job \in Jobs /\ UNCHANGED serverVars /\ UNCHANGED <<status, job, marker>>
      /\ dlg'.view = job[dlg.job] /\ dlg'.job = dlg.job
  BY <1>1 DEF PollJob, PollsJob, See, Dialogs, serverVars, installVars
<1>3. ~Boot
  BY <1>2 DEF Boot, serverVars
<1>4. sawSuccess' = (sawSuccess \/ (job[dlg.job] = "succeeded" /\ marker = dlg.job))
      /\ stale' = (stale \/ (job[dlg.job] = "succeeded" /\ ~(dlg.view = "succeeded")))
  BY DEF PollJob, See, JobSucceeded
<1> QED  BY <1>2, <1>3, <1>4, Zenon

LEMMA ResultsStep == ASSUME Typed, Mounted, Installs, Results, [Next]_vars PROVE Results'
<1>0. DaemonStep \/ UNCHANGED serverVars
  BY DaemonSteps
<1>1. /\ serving <= serving' /\ installed <= installed' /\ boots <= boots'
      /\ serving \in Nat /\ installed \in Nat /\ boots \in Nat
      /\ serving' \in Nat /\ installed' \in Nat /\ boots' \in Nat
  <2>1. (serving \in Nat /\ installed \in Nat /\ boots \in Nat)'
    <3>1. Releases \subseteq Nat /\ 0..MaxBoots \subseteq Nat
      BY ServerAssumption DEF Releases
    <3>2. serving' \in Releases /\ installed' \in Releases /\ boots' \in 0..MaxBoots
      BY TypedStep DEF Typed, ServerTyped, ServerTypeOK
    <3> QED  BY <3>1, <3>2
  <2> QED  BY <1>0, <2>1, ReleasesRise, ReleasesAreOrdered
<1>2. ASSUME NEW j \in Jobs, Ended(j)
      PROVE  /\ Ended(j)' /\ target'[j] = target[j] /\ target[j] \in Nat
             /\ job[j] = "failed" => job'[j] = "failed"
             /\ job[j] = "succeeded" => \/ job'[j] = "succeeded"
                                        \/ boots' > 0 /\ target[j] < serving'
  BY <1>0, <1>2, EndsStay, ReleasesAreOrdered
<1>3. ASSUME NEW j \in Jobs, Ended(j), marker' = j
      PROVE  marker = j /\ ~Boot
  BY <1>0, <1>3, MarkerMoves DEF Ended, Jobs, None
<1>4. (sawSuccess => marker # None)'
  <2>1. marker # None => marker' # None \/ Boot
    BY <1>0, MarkerMoves
  <2>2. CASE ServerBoots
    BY <2>2 DEF ServerBoots
  <2>3. CASE PollJob
    BY <2>1, <2>3, PollFacts DEF Results, Jobs, None
  <2>4. CASE UNCHANGED <<status, stale, sawSuccess>> \/ FetchStatus \/ SignInAgain
    <3>1. sawSuccess' = sawSuccess
      BY <2>4 DEF FetchStatus, SignInAgain, history
    <3>2. sawSuccess' => sawSuccess
      BY <3>1, Zenon
    <3> QED  BY <2>1, <2>2, <3>2, OnlyServerBoots DEF Results
  <2> QED  BY <2>2, <2>3, <2>4, StatusSteps DEF StatusMoves
<1>5. (dlg.view \in {"succeeded", "failed"} => dlg.job \in Jobs /\ Ended(dlg.job))'
      /\ (dlg.view = "failed" => job[dlg.job] = "failed")'
  <2>1. CASE UNCHANGED <<dlg.view, dlg.job>>
    BY <1>2, <2>1 DEF Results, Ended
  <2>2. CASE PollJob
    BY <2>2, PollFacts DEF Ended
  <2> QED  BY <2>1, <2>2, ViewSteps DEF ViewMoves
<1>6. (dlg.view = "succeeded" =>
          /\ target[dlg.job] <= installed
          /\ job[dlg.job] = "succeeded" \/ (boots > 0 /\ target[dlg.job] < serving))'
  <2>1. CASE UNCHANGED <<dlg.view, dlg.job>> /\ dlg.view = "succeeded"
    <3>1. dlg.job \in Jobs /\ Ended(dlg.job)
      BY <2>1 DEF Results
    <3>2. target'[dlg.job] = target[dlg.job] /\ target[dlg.job] \in Nat
      BY <1>2, <3>1
    <3>3. \/ job'[dlg.job] = "succeeded"
          \/ boots' > 0 /\ target[dlg.job] < serving'
      BY <1>1, <1>2, <2>1, <3>1, <3>2 DEF Results
    <3>4. target[dlg.job] <= installed'
      BY <1>1, <2>1, <3>2 DEF Results
    <3> QED  BY <2>1, <3>2, <3>3, <3>4
  <2>2. CASE PollJob
    <3>1. UNCHANGED <<installed, target, job>> /\ dlg.job \in Jobs
          /\ dlg'.job = dlg.job /\ dlg'.view = job[dlg.job]
      BY <2>2, PollFacts DEF serverVars, installVars
    <3> QED  BY <3>1 DEF Installs
  <2> QED  BY <2>1, <2>2, ViewSteps DEF ViewMoves
<1>7. (dlg.view = "succeeded" /\ marker = dlg.job => sawSuccess)'
  <2> SUFFICES ASSUME dlg'.view = "succeeded", marker' = dlg'.job PROVE sawSuccess'
    OBVIOUS
  <2>1. CASE UNCHANGED <<dlg.view, dlg.job>> /\ ~PollJob
    <3>1. dlg.job \in Jobs /\ Ended(dlg.job) /\ dlg.view = "succeeded"
      BY <2>1 DEF Results
    <3>2. marker = dlg.job /\ ~Boot
      BY <1>3, <2>1, <3>1
    <3>3. sawSuccess
      BY <3>1, <3>2 DEF Results
    <3>4. sawSuccess' = sawSuccess
      BY <2>1, <3>2, StatusSteps
         DEF StatusMoves, ServerBoots, FetchStatus, SignInAgain, history
    <3> QED  BY <3>3, <3>4, Zenon
  <2>2. CASE PollJob
    BY <2>2, PollFacts
  <2> QED  BY <2>1, <2>2, ViewSteps DEF ViewMoves
<1>8. (status.there /\ sawSuccess /\ marker # None /\ ~status.pending => stale)'
  <2> SUFFICES ASSUME status'.there, sawSuccess', marker' # None, ~status'.pending
               PROVE  stale'
    OBVIOUS
  <2>1. CASE UNCHANGED <<status, stale, sawSuccess>>
    <3>1. sawSuccess /\ (stale => stale')
      BY <2>1, Zenon
    <3>2. marker # None
      BY <3>1 DEF Results
    <3> QED  BY <2>1, <3>1, <3>2 DEF Results
  <2>2. CASE ServerBoots
    BY <2>2 DEF ServerBoots
  <2>3. CASE PollJob
    BY <2>3, PollFacts DEF Results
  <2>4. CASE FetchStatus
    <3>1. status'.pending = (marker # None) /\ marker' = marker
      BY <2>4 DEF FetchStatus, serverVars, installVars
    <3> QED  BY <3>1, Zenon
  <2>5. CASE SignInAgain
    BY <2>5, NoDialogFacts DEF SignInAgain
  <2> QED  BY <2>1, <2>2, <2>3, <2>4, <2>5, StatusSteps DEF StatusMoves
<1> QED  BY <1>4, <1>5, <1>6, <1>7, <1>8 DEF Results

LEMMA AlwaysResults == Spec => [](Typed /\ Mounted /\ Installs /\ Results)
<1>1. Init => Installs /\ Results
  <2> SUFFICES ASSUME Init PROVE Installs /\ Results
    OBVIOUS
  <2>1. /\ dlg = NoDialog /\ job = [j \in Jobs |-> "none"] /\ ~sawSuccess
        /\ stage = "idle" /\ serving = 0 /\ installed = 0
    BY DEF Init, ServerInit
  <2>2. latest \in Nat
    BY TypedInitially, ReleasesAreOrdered
  <2> QED  BY <2>1, <2>2, NoDialogFacts DEF Results, Installs
<1>2. Typed /\ Installs /\ [Next]_vars => Installs'
  BY DaemonSteps, InstallsStep, InstallsStays
<1> QED  BY <1>1, <1>2, AlwaysMounted, ResultsStep, PTL DEF Spec

\* "Installed" stands on the screen only for a job that ended so and whose
\* release, or a newer one, is on disk, unless a restart has judged it by a
\* newer release since; the cross of a failure only for a job that failed
\* (update-modal.tsx, the badge and the list of steps).
THEOREM ResultIsTrue == Spec => []ShownResultIsTrue
<1>1. Badge = "Installed" \/ "installed" \in Notes => dlg.view = "succeeded"
  BY DEF Badge, Notes, JobSucceeded, JobFailed
<1>2. "failed" \in Notes \/ (dlg.phase = "running" /\ StepList = "failed") =>
          dlg.view = "failed"
  BY DEF Notes, StepList, LastStep, JobFailed, JobSucceeded
<1>3. Results => ShownResultIsTrue
  BY <1>1, <1>2 DEF Results, ShownResultIsTrue
<1> QED  BY <1>3, AlwaysResults, PTL

\* After a success it saw, a tab offers another install only from a status
\* it knows to be out of date (the invalidation in update-modal.tsx).
THEOREM SecondInstallIsStale == Spec => []SecondInstallNeedsStale
<1>1. Mounted /\ Results => SecondInstallNeedsStale
  BY OffersFacts DEF Mounted, Results, SecondInstallNeedsStale
<1> QED  BY <1>1, AlwaysResults, PTL
=============================================================================
