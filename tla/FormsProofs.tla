----------------------------- MODULE FormsProofs ----------------------------
(***************************************************************************)
(* Proofs about the forms and dialogs that lead to a job: what to build    *)
(* (InstallOptions), and the flow of forms up to the dialog that follows   *)
(* the job (ManageApps), for any apps, credentials, options and number of  *)
(* jobs.                                                                   *)
(***************************************************************************)
EXTENDS InstallOptions, ManageApps, SequenceTheorems, TLAPS

-----------------------------------------------------------------------------
(* The form of build options.                                               *)

\* The patch is the one of the latest choice once all is read in order.
OptionsInv ==
    /\ OptionsTypeOK
    /\ reading = <<>> /\ ~overtaken => patch = wanted
    /\ SubmittedFits

LEMMA BranchFits ==
    ASSUME OptionsTypeOK
    PROVE  /\ SelectedBranch \in BranchSet \cup {NoBranch}
           /\ SelectedBranch # NoBranch => SelectedBranch \in OffersBranch[version]
<1>1. CASE branch \in OffersBranch[version]
  BY <1>1 DEF SelectedBranch, OptionsTypeOK
<1>2. CASE /\ branch \notin OffersBranch[version]
           /\ \E i \in BranchChoices : FirstChoice(i)
  <2>1. PICK i \in BranchChoices : SelectedBranch = Branches[i]
    BY <1>2 DEF SelectedBranch
  <2> QED  BY <2>1 DEF BranchChoices, BranchSet
<1>3. CASE /\ branch \notin OffersBranch[version]
           /\ ~\E i \in BranchChoices : FirstChoice(i)
  BY <1>3 DEF SelectedBranch
<1> QED  BY <1>1, <1>2, <1>3

\* A file that was read is no longer among those being read.
LEMMA RestIsShorter ==
    ASSUME NEW i \in DOMAIN reading, reading \in Seq(Files)
    PROVE  Rest(i) \in Seq(Files) /\ Len(Rest(i)) = Len(reading) - 1
<1> DEFINE before == SubSeq(reading, 1, i - 1)
           after  == SubSeq(reading, i + 1, Len(reading))
<1>1. i \in 1..Len(reading) /\ Len(reading) \in Nat
  OBVIOUS
<1>2. before \in Seq(Files) /\ Len(before) = i - 1
  <2>1. \A j \in 1..(i - 1) : reading[j] \in Files
    BY <1>1
  <2>2. i - 1 \in Int /\ i - 1 >= 0
    BY <1>1
  <2> QED  BY <2>1, <2>2, SubSeqProperties
<1>3. after \in Seq(Files) /\ Len(after) = Len(reading) - i
  <2>1. \A j \in (i + 1)..Len(reading) : reading[j] \in Files
    BY <1>1
  <2>2. i + 1 \in Int /\ Len(reading) \in Int /\ i <= Len(reading)
    BY <1>1
  <2> QED  BY <2>1, <2>2, SubSeqProperties
<1>4. Rest(i) = before \o after
  BY DEF Rest
<1> HIDE DEF before, after
<1>5. Rest(i) \in Seq(Files) /\ Len(Rest(i)) = Len(before) + Len(after)
  BY <1>2, <1>3, <1>4, ConcatProperties
<1> QED  BY <1>1, <1>2, <1>3, <1>5

LEMMA OptionsInitially == OptionsInit => OptionsInv
<1> SUFFICES ASSUME OptionsInit PROVE OptionsInv
  OBVIOUS
<1>1. version \in VersionSet
  BY OptionsAssumption DEF OptionsInit
<1>2. branch \in BranchSet \cup {NoBranch}
  BY OptionsAssumption DEF OptionsInit
<1>3. reading = <<>> /\ reading \in Seq(Files) /\ Len(reading) <= MaxReads
  BY OptionsAssumption DEF OptionsInit
<1>4. OptionsTypeOK
  BY <1>1, <1>2, <1>3 DEF OptionsInit, OptionsTypeOK
<1> QED  BY <1>4 DEF OptionsInit, OptionsInv, SubmittedFits

\* What the steps change, one by one.
LEMMA ReadingFacts ==
    ASSUME OptionsTypeOK, NEW f \in Files
    PROVE  /\ \A i \in DOMAIN reading : reading[i] \in Files
           /\ Len(reading) \in Nat
           /\ Append(reading, f) \in Seq(Files)
           /\ Len(Append(reading, f)) = Len(reading) + 1
           /\ Append(reading, f) # <<>>
<1>1. reading \in Seq(Files)
  BY DEF OptionsTypeOK
<1> QED  BY <1>1

LEMMA OptionsStep == ASSUME OptionsInv, [OptionsNext]_optionVars PROVE OptionsInv'
<1> USE DEF OptionsInv, OptionsTypeOK, SubmittedFits
<1>1. ASSUME NEW v \in VersionSet, ChooseVersion(v) PROVE OptionsInv'
  BY <1>1 DEF ChooseVersion
<1>2. ASSUME NEW b \in BranchSet, ChooseBranch(b) PROVE OptionsInv'
  BY <1>2 DEF ChooseBranch
<1>3. ASSUME NEW f \in Files \cup {NoFile}, ChooseFile(f) PROVE OptionsInv'
  <2>1. CASE f \in TooLarge \cup {NoFile} /\ patch' = NoFile /\ wanted' = NoFile
             /\ UNCHANGED reading
    BY <1>3, <2>1 DEF ChooseFile
  <2>2. CASE f \in Files \ TooLarge /\ Len(reading) < MaxReads
             /\ reading' = Append(reading, f) /\ wanted' = f /\ UNCHANGED patch
    <3>1. reading' \in Seq(Files) /\ Len(reading') <= MaxReads /\ reading' # <<>>
      BY <2>2, ReadingFacts, OptionsAssumption
    <3>2. UNCHANGED <<optionStep, version, branch, overtaken, submitted>>
          /\ optionStep = "libtorrent"
      BY <1>3 DEF ChooseFile
    <3> QED  BY <2>2, <3>1, <3>2
  <2> QED  BY <1>3, <2>1, <2>2 DEF ChooseFile
<1>4. ASSUME NEW i \in DOMAIN reading, FileRead(i) PROVE OptionsInv'
  <2>1. Rest(i) \in Seq(Files) /\ Len(Rest(i)) = Len(reading) - 1
    BY RestIsShorter
  <2>2. reading[i] \in Files /\ Len(reading) \in Nat
    <3>1. reading \in Seq(Files)
      OBVIOUS
    <3> QED  BY <3>1
  <2>3. reading' \in Seq(Files) /\ Len(reading') <= MaxReads
    BY <1>4, <2>1, <2>2, OptionsAssumption DEF FileRead
  <2>4. /\ optionStep # "submitted"
        /\ UNCHANGED <<optionStep, version, branch, wanted, submitted>>
    BY <1>4 DEF FileRead
  <2>5. CASE patch' = patch /\ overtaken' = TRUE
    BY <2>3, <2>4, <2>5
  <2>6. CASE /\ patch' = reading[i]
             /\ overtaken' = (overtaken \/ i # Len(reading) \/ wanted # reading[i])
    <3>1. overtaken' \in BOOLEAN /\ (~overtaken' => wanted = reading[i])
      BY <2>6
    <3>2. patch' \in Files
      BY <2>2, <2>6
    <3>3. ~overtaken' => patch' = wanted'
      BY <2>4, <2>6, <3>1
    <3> QED  BY <2>3, <2>4, <3>1, <3>2, <3>3
  <2> QED  BY <1>4, <2>5, <2>6 DEF FileRead
<1>5. CASE ClearPatch
  BY <1>5 DEF ClearPatch, ClearOffered
<1>6. CASE Back \/ Continue
  BY <1>6 DEF Back, Continue
<1>7. CASE SubmitOptions
  <2> DEFINE chosen == IF BranchVisible THEN SelectedBranch ELSE NoBranch
  <2>1. chosen \in BranchSet \cup {NoBranch}
        /\ (chosen # NoBranch => chosen \in OffersBranch[version])
    BY BranchFits
  <2>2. /\ submitted' = [version |-> version, branch |-> chosen, patch |-> patch]
        /\ optionStep' = "submitted"
        /\ UNCHANGED <<version, branch, patch, reading, wanted, overtaken>>
    BY <1>7 DEF SubmitOptions
  <2> HIDE DEF chosen
  <2>3. /\ submitted' \in Submissions
        /\ submitted'.version = version /\ submitted'.branch = chosen
        /\ submitted'.patch = patch
    BY <2>1, <2>2 DEF Submissions
  <2> QED  BY <2>1, <2>2, <2>3
<1>8. CASE UNCHANGED optionVars
  BY <1>8 DEF optionVars
<1> QED
  BY <1>1, <1>2, <1>3, <1>4, <1>5, <1>6, <1>7, <1>8 DEF OptionsNext

LEMMA OptionsInvariant == OptionsSpec => []OptionsInv
  BY OptionsInitially, OptionsStep, PTL DEF OptionsSpec

\* The form's state is well typed: no choice is lost or made up.
THEOREM OptionsTypeCorrect == OptionsSpec => []OptionsTypeOK
<1>1. OptionsInv => OptionsTypeOK
  BY DEF OptionsInv
<1> QED  BY <1>1, OptionsInvariant, PTL

\* The branch handed on goes with the version, and the patch is that of the
\* latest choice if files were read in the order of the choices
\* (install-options-modal.tsx:66-113).
THEOREM OptionsFit == OptionsSpec => []SubmittedFits
<1>1. OptionsInv => SubmittedFits
  BY DEF OptionsInv
<1> QED  BY <1>1, OptionsInvariant, PTL

-----------------------------------------------------------------------------
(* The flow of forms and dialogs.                                           *)

\* Where the shell may be with an ask, unless a late check has moved it.
FitsPhase(p, ask, values) ==
    /\ p = "secrets" => RequiredSecrets(ask) # {}
    /\ p = "options" =>
         /\ NeedsOptions(ask)
         /\ values = [Confirmed(ask) EXCEPT !.options = None]
    /\ p = "job" => values = Confirmed(ask)

OwnJob ==
    jobId # 0 =>
        /\ jobs[jobId].ask = pending
        /\ jobs[jobId].values = extraVars
        /\ Terminal(shown) => jobs[jobId].status \in {shown, "gone"}

FlowInv ==
    /\ ManageTypeOK
    /\ verifying => SecretsForm
    /\ start = "ok" => jobId # 0
    /\ pending # None /\ ~stray => FitsPhase(phase, pending, extraVars)
    /\ OwnJob
    /\ StartedAsConfirmed

JobRecords == [ask : Asks, values : Values, stray : BOOLEAN,
               status : {"running", "cut", "succeeded", "failed", "gone"}]

LEMMA FlowInitially == ManageInit => FlowInv
<1> SUFFICES ASSUME ManageInit PROVE FlowInv
  OBVIOUS
<1>1. /\ jobs = <<>> /\ jobs \in Seq(JobRecords) /\ Len(jobs) = 0
      /\ DOMAIN jobs = {}
  BY DEF ManageInit
<1>2. NoValues \in Values
  BY DEF NoValues, Values
<1>3. ManageTypeOK
  <2>1. jobs \in Seq(JobRecords) /\ Len(jobs) <= MaxJobs /\ jobId \in 0..Len(jobs)
    BY <1>1, ManageAssumption DEF ManageInit
  <2>2. restarts \in 0..MaxRestarts
    BY ManageAssumption DEF ManageInit
  <2>3. installed \subseteq Apps /\ listed \subseteq Apps /\ late \subseteq Asks
    BY DEF ManageInit
  <2> QED  BY <1>2, <2>1, <2>2, <2>3 DEF ManageInit, ManageTypeOK, JobRecords, Phases
<1>4. /\ ~verifying /\ start # "ok" /\ jobId = 0 /\ pending = None
  BY DEF ManageInit
<1> QED  BY <1>1, <1>3, <1>4 DEF FlowInv, OwnJob, StartedAsConfirmed

\* What is known of the jobs, apart from the state of the forms.
LEMMA JobsFacts ==
    ASSUME ManageTypeOK
    PROVE  /\ jobs \in Seq(JobRecords) /\ Len(jobs) \in Nat
           /\ DOMAIN jobs = 1..Len(jobs)
           /\ \A i \in DOMAIN jobs :
                 /\ jobs[i] \in JobRecords
                 /\ jobs[i].ask \in Asks /\ jobs[i].values \in Values
<1>1. jobs \in Seq(JobRecords)
  BY DEF ManageTypeOK, JobRecords
<1>2. \A i \in DOMAIN jobs : jobs[i] \in JobRecords
  BY <1>1
<1> QED  BY <1>1, <1>2 DEF JobRecords

\* A job that is asked for joins the others.
LEMMA PostAdds ==
    ASSUME ManageTypeOK, NEW ask \in Asks, NEW values \in Values, NEW hit \in BOOLEAN,
           Post(ask, values, hit)
    PROVE  \/ jobId' = 0 /\ jobs' = jobs
           \/ /\ jobs' \in Seq(JobRecords) /\ Len(jobs') = Len(jobs) + 1
              /\ Len(jobs') <= MaxJobs
              /\ \A i \in DOMAIN jobs : jobs'[i] = jobs[i]
              /\ jobs'[Len(jobs')] = [ask |-> ask, values |-> values, stray |-> hit,
                                      status |-> "running"]
              /\ jobId' \in {0, Len(jobs')}
<1> DEFINE job == [ask |-> ask, values |-> values, stray |-> hit, status |-> "running"]
<1>1. job \in JobRecords
  BY DEF JobRecords
<1>2. jobs \in Seq(JobRecords) /\ Len(jobs) \in Nat /\ DOMAIN jobs = 1..Len(jobs)
  BY JobsFacts
<1>3. CASE jobId' = 0 /\ UNCHANGED jobs
  BY <1>3
<1>4. CASE Len(jobs) < MaxJobs /\ jobs' = Append(jobs, job) /\ jobId' \in {0, Len(jobs) + 1}
  <2> HIDE DEF job
  <2>1. /\ Append(jobs, job) \in Seq(JobRecords)
        /\ Len(Append(jobs, job)) = Len(jobs) + 1
        /\ \A i \in 1..Len(jobs) : Append(jobs, job)[i] = jobs[i]
        /\ Append(jobs, job)[Len(jobs) + 1] = job
    BY <1>1, <1>2, AppendProperties
  <2>2. Len(jobs') <= MaxJobs
    BY <1>2, <1>4, <2>1, ManageAssumption
  <2> QED  BY <1>2, <1>4, <2>1, <2>2 DEF job
<1> QED  BY <1>3, <1>4 DEF Post

\* Whatever moves the shell keeps the invariant, if it moves it to where the
\* ask and the values fit.
LEMMA ShowKeeps ==
    ASSUME FlowInv, NEW p \in Phases, NEW ask \in Asks \cup {None}, NEW values \in Values,
           NEW checks \in SUBSET Asks, NEW hit \in BOOLEAN,
           Show(p, ask, values, checks, hit),
           ask # None /\ ~hit => FitsPhase(p, ask, values)
    PROVE  FlowInv'
<1>1. /\ phase' = p /\ pending' = ask /\ extraVars' = values /\ verifying' = FALSE
      /\ late' = checks /\ stray' = hit
      /\ UNCHANGED <<listed, installed, restarts>>
  BY DEF Show
<1>2. ManageTypeOK /\ OwnJob /\ StartedAsConfirmed /\ (start = "ok" => jobId # 0)
  BY DEF FlowInv
<1>3. jobs \in Seq(JobRecords) /\ Len(jobs) \in Nat /\ DOMAIN jobs = 1..Len(jobs)
  BY <1>2, JobsFacts
<1>4. (pending # None /\ ~stray => FitsPhase(phase, pending, extraVars))'
  BY <1>1 DEF FitsPhase, Confirmed, RequiredSecrets, NeedsOptions
<1>5. /\ jobs' \in Seq(JobRecords) /\ Len(jobs') <= MaxJobs
      /\ start' \in {"none", "pending", "failed", "ok"}
      /\ shown' \in {"none", "running", "succeeded", "failed"}
      /\ jobError' \in BOOLEAN
      /\ jobId' \in 0..Len(jobs')
      /\ start' = "ok" => jobId' # 0
      /\ OwnJob' /\ StartedAsConfirmed'
  <2>1. CASE /\ p = "job" /\ ask # None
             /\ start' = "pending" /\ shown' = "none" /\ jobError' = FALSE
             /\ Post(ask, values, hit)
    <3>1. CASE jobId' = 0 /\ jobs' = jobs
      <4>1. OwnJob'
        BY <3>1 DEF OwnJob
      <4>2. StartedAsConfirmed'
        BY <1>2, <3>1 DEF StartedAsConfirmed, Confirmed, RequiredSecrets, NeedsOptions
      <4>3. jobs' \in Seq(JobRecords) /\ Len(jobs') <= MaxJobs /\ jobId' \in 0..Len(jobs')
        BY <1>2, <1>3, <3>1 DEF ManageTypeOK
      <4> QED  BY <2>1, <4>1, <4>2, <4>3
    <3>2. CASE /\ jobs' \in Seq(JobRecords) /\ Len(jobs') = Len(jobs) + 1
               /\ Len(jobs') <= MaxJobs
               /\ \A i \in DOMAIN jobs : jobs'[i] = jobs[i]
               /\ jobs'[Len(jobs')] = [ask |-> ask, values |-> values, stray |-> hit,
                                       status |-> "running"]
               /\ jobId' \in {0, Len(jobs')}
      <4>1. DOMAIN jobs' = 1..(Len(jobs) + 1)
        BY <3>2
      <4>2. OwnJob'
        BY <1>1, <2>1, <3>2 DEF OwnJob, Terminal
      <4>3. ASSUME NEW i \in DOMAIN jobs'
            PROVE  jobs'[i].values = Confirmed(jobs'[i].ask) \/ jobs'[i].stray
        <5>1. CASE i \in DOMAIN jobs
          BY <1>2, <3>2, <5>1 DEF StartedAsConfirmed
        <5>2. CASE i = Len(jobs')
          BY <2>1, <3>2, <5>2 DEF FitsPhase
        <5> QED  BY <1>3, <3>2, <4>1, <5>1, <5>2
      <4>4. StartedAsConfirmed'
        BY <4>3 DEF StartedAsConfirmed, Confirmed, RequiredSecrets, NeedsOptions
      <4>5. jobId' \in 0..Len(jobs')
        BY <1>3, <3>2
      <4> QED  BY <2>1, <3>2, <4>2, <4>4, <4>5
    <3> QED  BY <1>2, <2>1, <3>1, <3>2, PostAdds
  <2>2. CASE /\ ask = pending /\ values = extraVars
             /\ UNCHANGED <<dialogVars, jobs>>
    BY <1>1, <1>2, <1>3, <2>2
       DEF ManageTypeOK, OwnJob, StartedAsConfirmed, dialogVars, Confirmed,
           RequiredSecrets, NeedsOptions
  <2>3. CASE /\ start' = "none" /\ jobId' = 0 /\ shown' = "none" /\ jobError' = FALSE
             /\ UNCHANGED jobs
    <3>1. OwnJob'
      BY <2>3 DEF OwnJob
    <3>2. StartedAsConfirmed'
      BY <1>2, <2>3 DEF StartedAsConfirmed, Confirmed, RequiredSecrets, NeedsOptions
    <3>3. jobs' \in Seq(JobRecords) /\ Len(jobs') <= MaxJobs /\ jobId' \in 0..Len(jobs')
      BY <1>2, <1>3, <2>3 DEF ManageTypeOK
    <3> QED  BY <2>3, <3>1, <3>2, <3>3
  <2> QED  BY <2>1, <2>2, <2>3 DEF Show
<1>6. ManageTypeOK'
  BY <1>1, <1>2, <1>5 DEF ManageTypeOK, JobRecords
<1> QED  BY <1>1, <1>4, <1>5, <1>6 DEF FlowInv

\* The checks of forms that were closed, with the one closed just now.
LEMMA AbandonedChecks == ASSUME FlowInv PROVE Abandoned \in SUBSET Asks
BY DEF FlowInv, ManageTypeOK, SecretsForm, Abandoned

\* The forms and the sidebar.
LEMMA FormsKeep ==
    ASSUME FlowInv,
           \/ OpenPanel \/ ClosePanel \/ (\E ask \in Asks : BeginAppJobs(ask))
           \/ OptionsConfirm \/ CancelForm \/ CloseJob
    PROVE  FlowInv'
<1>1. /\ pending \in Asks \cup {None} /\ extraVars \in Values /\ late \in SUBSET Asks
      /\ stray \in BOOLEAN /\ None \notin Asks /\ Abandoned \in SUBSET Asks
      /\ NoValues \in Values
  BY ManageAssumption, AbandonedChecks DEF FlowInv, ManageTypeOK, NoValues, Values
<1>2. CASE OpenPanel
  <2>1. PICK p \in {"select", "sysctl"} : Show(p, pending, extraVars, late, stray)
    BY <1>2 DEF OpenPanel
  <2> QED  BY <1>1, <2>1, ShowKeeps DEF Phases, FitsPhase
<1>3. CASE ClosePanel
  BY <1>1, <1>3, ShowKeeps DEF ClosePanel, Phases, FitsPhase
<1>4. ASSUME NEW ask \in Asks, BeginAppJobs(ask) PROVE FlowInv'
  <2>1. Show(FirstPhase(ask), ask, NoValues, late, FALSE)
    BY <1>4 DEF BeginAppJobs
  <2>2. FirstPhase(ask) \in Phases
    BY DEF FirstPhase, Phases
  <2>3. FitsPhase(FirstPhase(ask), ask, NoValues)
    <3>1. CASE RequiredSecrets(ask) # {}
      BY <3>1 DEF FirstPhase, FitsPhase
    <3>2. CASE RequiredSecrets(ask) = {} /\ NeedsOptions(ask)
      BY <3>2 DEF FirstPhase, FitsPhase, Confirmed, NoValues
    <3>3. CASE RequiredSecrets(ask) = {} /\ ~NeedsOptions(ask)
      BY <3>3 DEF FirstPhase, FitsPhase, Confirmed, NoValues
    <3> QED  BY <3>1, <3>2, <3>3
  <2> QED  BY <1>1, <2>1, <2>2, <2>3, ShowKeeps
<1>5. CASE OptionsConfirm
  <2> DEFINE values == [extraVars EXCEPT !.options = pending]
  <2>1. pending \in Asks /\ phase = "options" /\ Show("job", pending, values, late, stray)
    BY <1>1, <1>5 DEF OptionsConfirm, OptionsForm
  <2>2. values \in Values
    BY <1>1, <2>1 DEF Values
  <2>3. ~stray => FitsPhase("options", pending, extraVars)
    BY <1>1, <2>1 DEF FlowInv
  <2>4. ~stray => values = Confirmed(pending)
    <3>1. ~stray => /\ NeedsOptions(pending)
                    /\ extraVars = [Confirmed(pending) EXCEPT !.options = None]
      BY <2>3 DEF FitsPhase
    <3> QED  BY <3>1 DEF Confirmed
  <2>5. ~stray => FitsPhase("job", pending, values)
    BY <2>4 DEF FitsPhase
  <2> HIDE DEF values
  <2> QED  BY <1>1, <2>1, <2>2, <2>5, ShowKeeps DEF Phases
<1>6. CASE CancelForm \/ CloseJob
  <2>1. PICK checks \in SUBSET Asks : Show("none", None, NoValues, checks, stray)
    BY <1>1, <1>6 DEF CancelForm, CloseJob, FinishManageFlow
  <2> QED  BY <1>1, <2>1, ShowKeeps DEF Phases
<1> QED  BY <1>2, <1>3, <1>4, <1>5, <1>6

\* The credentials go on with the ask of their own form.
LEMMA SecretsConfirmKeeps ==
    ASSUME FlowInv, NEW ask \in Asks, NEW checks \in SUBSET Asks, NEW hit \in BOOLEAN,
           SecretsConfirm(ask, checks, hit),
           ~hit => ask = pending /\ RequiredSecrets(ask) # {}
    PROVE  FlowInv'
<1> DEFINE values == [secrets |-> ask, options |-> None]
           p      == IF NeedsOptions(ask) THEN "options" ELSE "job"
<1>1. Show(p, pending, values, checks, hit)
  BY DEF SecretsConfirm
<1>2. values \in Values /\ p \in Phases /\ pending \in Asks \cup {None}
  BY DEF FlowInv, ManageTypeOK, Values, Phases
<1>3. ~hit => FitsPhase(p, pending, values)
  <2> SUFFICES ASSUME ~hit PROVE FitsPhase(p, pending, values)
    OBVIOUS
  <2>1. ask = pending /\ RequiredSecrets(pending) # {}
    OBVIOUS
  <2>2. CASE NeedsOptions(pending)
    <3>1. Confirmed(pending) = [secrets |-> pending, options |-> pending]
      BY <2>1, <2>2 DEF Confirmed
    <3>2. p = "options" /\ values = [Confirmed(pending) EXCEPT !.options = None]
      BY <2>1, <2>2, <3>1
    <3> QED  BY <2>2, <3>2 DEF FitsPhase
  <2>3. CASE ~NeedsOptions(pending)
    BY <2>1, <2>3 DEF FitsPhase, Confirmed
  <2> QED  BY <2>2, <2>3
<1> HIDE DEF values, p
<1> QED  BY <1>1, <1>2, <1>3, ShowKeeps

\* A step that leaves the jobs and the flow alone, but for these.
LEMMA QuietStep ==
    ASSUME FlowInv, ManageTypeOK',
           UNCHANGED <<phase, pending, extraVars, stray, start, jobId, shown, jobs>>,
           verifying' => SecretsForm
    PROVE  FlowInv'
<1>1. (verifying => SecretsForm)'
  BY DEF SecretsForm
<1>2. (pending # None /\ ~stray => FitsPhase(phase, pending, extraVars))'
  BY DEF FlowInv, FitsPhase, Confirmed, RequiredSecrets, NeedsOptions
<1>3. OwnJob'
  BY DEF FlowInv, OwnJob, Terminal
<1>4. StartedAsConfirmed'
  BY DEF FlowInv, StartedAsConfirmed, Confirmed, RequiredSecrets, NeedsOptions
<1> QED  BY <1>1, <1>2, <1>3, <1>4 DEF FlowInv

LEMMA ChecksKeep ==
    ASSUME FlowInv,
           \/ SubmitSecrets \/ Verified \/ NotVerified \/ RefreshApps
           \/ (\E ask \in Asks : VerifiedLate(ask) \/ NotVerifiedLate(ask))
    PROVE  FlowInv'
<1> USE DEF shellVars, dialogVars, hostVars
<1>1. /\ ManageTypeOK /\ pending \in Asks \cup {None} /\ late \in SUBSET Asks
      /\ stray \in BOOLEAN /\ Abandoned \in SUBSET Asks /\ (verifying => SecretsForm)
  BY AbandonedChecks DEF FlowInv, ManageTypeOK
<1>2. SecretsForm => pending \in Asks /\ (~stray => RequiredSecrets(pending) # {})
  BY <1>1 DEF FlowInv, SecretsForm, FitsPhase
<1>3. CASE SubmitSecrets
  <2>1. CASE SecretsConfirm(pending, late, stray)
    BY <1>1, <1>2, <1>3, <2>1, SecretsConfirmKeeps DEF SubmitSecrets
  <2>2. CASE /\ verifying' = TRUE
             /\ UNCHANGED <<phase, pending, extraVars, late, stray,
                            dialogVars, listed, hostVars>>
    <3>1. ManageTypeOK'
      BY <1>1, <2>2 DEF ManageTypeOK
    <3> QED  BY <1>3, <2>2, <3>1, QuietStep DEF SubmitSecrets
  <2> QED  BY <1>3, <2>1, <2>2 DEF SubmitSecrets
<1>4. CASE Verified
  BY <1>1, <1>2, <1>4, SecretsConfirmKeeps DEF Verified
<1>5. CASE NotVerified
  <2>1. ManageTypeOK'
    BY <1>1, <1>5 DEF NotVerified, ManageTypeOK
  <2> QED  BY <1>5, <2>1, QuietStep DEF NotVerified
<1>6. CASE RefreshApps
  <2>1. ManageTypeOK'
    BY <1>1, <1>6 DEF RefreshApps, ManageTypeOK
  <2> QED  BY <1>1, <1>6, <2>1, QuietStep DEF RefreshApps
<1>7. ASSUME NEW ask \in Asks, VerifiedLate(ask) PROVE FlowInv'
  <2>1. Abandoned \ {ask} \in SUBSET Asks
    BY <1>1
  <2> QED  BY <1>7, <2>1, SecretsConfirmKeeps DEF VerifiedLate
<1>8. ASSUME NEW ask \in Asks, NotVerifiedLate(ask) PROVE FlowInv'
  <2>1. ManageTypeOK'
    BY <1>1, <1>8 DEF NotVerifiedLate, ManageTypeOK
  <2> QED  BY <1>1, <1>8, <2>1, QuietStep DEF NotVerifiedLate
<1> QED  BY <1>3, <1>4, <1>5, <1>6, <1>7, <1>8

\* The dialog of the job.
LEMMA DialogKeeps ==
    ASSUME FlowInv, StartAnswered \/ PollJob \/ FocusJob \/ LookAgain \/ ReloadPage
    PROVE  FlowInv'
<1> USE DEF shellVars, dialogVars, hostVars
<1>1. /\ ManageTypeOK /\ (verifying => SecretsForm) /\ OwnJob /\ StartedAsConfirmed
      /\ (start = "ok" => jobId # 0)
      /\ (pending # None /\ ~stray => FitsPhase(phase, pending, extraVars))
  BY DEF FlowInv
<1>2. jobs \in Seq(JobRecords) /\ Len(jobs) \in Nat /\ DOMAIN jobs = 1..Len(jobs)
      /\ jobId \in 0..Len(jobs)
  BY <1>1, JobsFacts DEF ManageTypeOK
<1>3. ASSUME UNCHANGED <<shellVars, jobs>>
      PROVE  /\ (verifying => SecretsForm)' /\ StartedAsConfirmed'
             /\ (pending # None /\ ~stray => FitsPhase(phase, pending, extraVars))'
  BY <1>1, <1>3 DEF SecretsForm, FitsPhase, StartedAsConfirmed, Confirmed,
     RequiredSecrets, NeedsOptions
<1>4. CASE StartAnswered
  <2>1. ManageTypeOK'
    BY <1>1, <1>4 DEF StartAnswered, ManageTypeOK
  <2>2. OwnJob' /\ (start = "ok" => jobId # 0)'
    BY <1>1, <1>4 DEF StartAnswered, OwnJob, Terminal
  <2> QED  BY <1>3, <1>4, <2>1, <2>2 DEF FlowInv, StartAnswered
<1>5. CASE PollJob \/ FocusJob
  <2>1. Look
    BY <1>5 DEF PollJob, FocusJob
  <2>2. jobId \in DOMAIN jobs /\ jobs[jobId] \in JobRecords
    BY <1>1, <1>2, <2>1, JobsFacts DEF Look
  <2>3. /\ shown' \in {"none", "running", "succeeded", "failed"} /\ jobError' \in BOOLEAN
        /\ Terminal(shown)' => jobs[jobId].status \in {shown', "gone"}
    <3>1. CASE /\ jobs[jobId].status # "gone"
               /\ shown' = Status(jobs[jobId]) /\ jobError' = FALSE
      BY <2>2, <3>1 DEF JobRecords, Status, Terminal
    <3>2. CASE jobError' = TRUE /\ UNCHANGED shown
      BY <1>1, <2>1, <3>2 DEF ManageTypeOK, OwnJob, Terminal, Look
    <3> QED  BY <2>1, <3>1, <3>2 DEF Look
  <2>4. UNCHANGED <<shellVars, start, jobId, listed, hostVars>>
    BY <2>1 DEF Look
  <2>5. ManageTypeOK'
    BY <1>1, <2>3, <2>4 DEF ManageTypeOK
  <2>6. OwnJob' /\ (start = "ok" => jobId # 0)'
    BY <1>1, <2>3, <2>4 DEF OwnJob
  <2> QED  BY <1>3, <2>4, <2>5, <2>6 DEF FlowInv
<1>6. CASE LookAgain
  <2>1. ManageTypeOK'
    BY <1>1, <1>6 DEF LookAgain, ManageTypeOK
  <2> QED  BY <1>1, <1>6, <2>1, QuietStep DEF LookAgain
<1>7. CASE ReloadPage
  <2>1. ManageTypeOK'
    <3>1. NoValues \in Values
      BY DEF NoValues, Values
    <3>2. jobs' = jobs /\ jobId' \in 0..Len(jobs') /\ late' \subseteq Asks
      BY <1>2, <1>7 DEF ReloadPage
    <3> QED  BY <1>1, <1>7, <3>1, <3>2 DEF ReloadPage, ManageTypeOK, Phases
  <2>2. OwnJob' /\ start' # "ok" /\ ~verifying' /\ pending' = None
    BY <1>7 DEF ReloadPage, OwnJob
  <2>3. StartedAsConfirmed'
    BY <1>1, <1>7 DEF ReloadPage, StartedAsConfirmed, Confirmed, RequiredSecrets,
       NeedsOptions
  <2> QED  BY <2>1, <2>2, <2>3 DEF FlowInv
<1> QED  BY <1>4, <1>5, <1>6, <1>7

\* The server: only the status of a job changes, and never that of an ended
\* one but for its record being lost.
LEMMA ServerKeeps ==
    ASSUME FlowInv, (\E i \in DOMAIN jobs : JobEnds(i)) \/ ServerRestarts
    PROVE  FlowInv'
<1> USE DEF shellVars, dialogVars
<1>1. /\ ManageTypeOK /\ OwnJob /\ StartedAsConfirmed
  BY DEF FlowInv
<1>2. jobs \in Seq(JobRecords) /\ Len(jobs) \in Nat /\ DOMAIN jobs = 1..Len(jobs)
      /\ jobId \in 0..Len(jobs) /\ \A i \in DOMAIN jobs : jobs[i] \in JobRecords
  BY <1>1, JobsFacts DEF ManageTypeOK
<1> DEFINE OnlyEnd ==
      /\ jobs' \in Seq(JobRecords) /\ Len(jobs') = Len(jobs) /\ DOMAIN jobs' = DOMAIN jobs
      /\ \A i \in DOMAIN jobs :
            /\ jobs'[i].ask = jobs[i].ask /\ jobs'[i].values = jobs[i].values
            /\ jobs'[i].stray = jobs[i].stray
            /\ \/ jobs[i].status \notin {"succeeded", "failed", "gone"}
               \/ jobs'[i].status \in {jobs[i].status, "gone"}
      LeaveTab ==
      /\ UNCHANGED <<shellVars, start, jobId, shown, jobError>>
      /\ installed' \subseteq Apps /\ listed' \subseteq Apps /\ restarts' \in 0..MaxRestarts
<1>3. OnlyEnd
  <2>1. ASSUME NEW i \in DOMAIN jobs, JobEnds(i), NEW end \in {"succeeded", "failed"},
               jobs' = [jobs EXCEPT ![i].status = end]
        PROVE  OnlyEnd
    <3>1. \A k \in DOMAIN jobs :
             jobs'[k] = IF k = i THEN [jobs[i] EXCEPT !.status = end] ELSE jobs[k]
      BY <2>1
    <3>2. \A k \in DOMAIN jobs : jobs'[k] \in JobRecords
      BY <1>2, <2>1, <3>1 DEF JobRecords
    <3>3. jobs' \in Seq(JobRecords) /\ Len(jobs') = Len(jobs) /\ DOMAIN jobs' = DOMAIN jobs
      BY <1>2, <2>1, <3>2
    <3> QED  BY <1>2, <2>1, <3>1, <3>3 DEF JobEnds, JobRecords
  <2>2. CASE ServerRestarts
    <3>1. PICK lost : jobs' = [i \in DOMAIN jobs |->
                                [jobs[i] EXCEPT !.status =
                                  IF i \in lost THEN "gone"
                                  ELSE IF @ = "running" THEN "cut" ELSE @]]
      BY <2>2 DEF ServerRestarts
    <3>2. \A k \in DOMAIN jobs : jobs'[k] \in JobRecords
      BY <1>2, <3>1 DEF JobRecords
    <3>3. jobs' \in Seq(JobRecords) /\ Len(jobs') = Len(jobs) /\ DOMAIN jobs' = DOMAIN jobs
      BY <1>2, <3>1, <3>2
    <3> QED  BY <1>2, <3>1, <3>3 DEF JobRecords
  <2> QED  BY <2>1, <2>2 DEF JobEnds
<1>4. LeaveTab
  <2>1. ASSUME NEW i \in DOMAIN jobs, JobEnds(i) PROVE LeaveTab
    <3>1. jobs[i].ask.app \in Apps
      BY <1>2, ManageAssumption DEF JobRecords
    <3> QED  BY <1>1, <2>1, <3>1 DEF JobEnds, ManageTypeOK
  <2>2. CASE ServerRestarts
    BY <1>1, <2>2, ManageAssumption DEF ServerRestarts, ManageTypeOK
  <2> QED  BY <2>1, <2>2
<1>5. ManageTypeOK'
  BY <1>1, <1>2, <1>3, <1>4 DEF ManageTypeOK, JobRecords
<1>6. OwnJob'
  BY <1>1, <1>2, <1>3, <1>4 DEF OwnJob, Terminal
<1>7. StartedAsConfirmed'
  <2>1. \A i \in DOMAIN jobs' :
           jobs'[i].values = Confirmed(jobs'[i].ask) \/ jobs'[i].stray
    BY <1>1, <1>3 DEF StartedAsConfirmed
  <2> QED  BY <2>1 DEF StartedAsConfirmed, Confirmed, RequiredSecrets, NeedsOptions
<1>8. (verifying => SecretsForm)' /\ (start = "ok" => jobId # 0)'
      /\ (pending # None /\ ~stray => FitsPhase(phase, pending, extraVars))'
  BY <1>4 DEF FlowInv, SecretsForm, FitsPhase, Confirmed, RequiredSecrets, NeedsOptions
<1> QED  BY <1>5, <1>6, <1>7, <1>8 DEF FlowInv

LEMMA FlowKeeps == ASSUME FlowInv, [ManageNext]_manageVars PROVE FlowInv'
<1>1. CASE UNCHANGED manageVars
  <2>1. UNCHANGED <<phase, pending, extraVars, verifying, late, stray, start, jobId,
                    shown, jobError, listed, installed, jobs, restarts>>
    BY <1>1 DEF manageVars, shellVars, dialogVars, hostVars
  <2>2. ManageTypeOK'
    BY <2>1 DEF FlowInv, ManageTypeOK
  <2> QED  BY <2>1, <2>2, QuietStep DEF FlowInv
<1>2. CASE ManageNext
  BY <1>2, FormsKeep, ChecksKeep, DialogKeeps, ServerKeeps
     DEF ManageNext, FlowStep, Answers
<1> QED  BY <1>1, <1>2

LEMMA FlowInvariant == ManageSpec => []FlowInv
BY FlowInitially, FlowKeeps, PTL DEF ManageSpec

\* The flow's state is well typed; the job of the dialog is one the server has.
THEOREM ManageTypeCorrect == ManageSpec => []ManageTypeOK
<1>1. FlowInv => ManageTypeOK
  BY DEF FlowInv
<1> QED  BY <1>1, FlowInvariant, PTL

\* No job starts without the forms it needs or with what another form said,
\* unless a check of a closed form came back late (app-shell.tsx:98-141).
THEOREM ConfirmedBeforeStarted == ManageSpec => []StartedAsConfirmed
<1>1. FlowInv => StartedAsConfirmed
  BY DEF FlowInv
<1> QED  BY <1>1, FlowInvariant, PTL

\* The dialog tells of the job it started, and of no end that did not come
\* (app-job-modal.tsx:83-133, 153-225).
THEOREM DialogOwnsItsJob == ManageSpec => []ShowsItsOwnJob
<1>1. ASSUME Terminal(StatusLabel) PROVE StatusLabel = shown /\ Terminal(shown)
  BY <1>1 DEF StatusLabel, Terminal
<1>2. ASSUME StatusVariant = "success" PROVE shown = "succeeded"
  BY <1>2 DEF StatusVariant
<1>3. ASSUME FlowInv PROVE ShowsItsOwnJob
  <2>1. JobModal.label = StatusLabel /\ JobModal.badge = StatusVariant
    BY DEF JobModal
  <2> QED  BY <1>1, <1>2, <1>3, <2>1 DEF FlowInv, OwnJob, ShowsItsOwnJob, Terminal
<1> QED  BY <1>3, FlowInvariant, PTL
=============================================================================
