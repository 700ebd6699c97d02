--------------------------- MODULE InstallOptions ---------------------------
(***************************************************************************)
(* The form that asks what to build (components/install-options-modal.tsx):*)
(* a version; for an app with branches, on a second step, a branch of      *)
(* libtorrent and a patch file.  Which branches there are depends on the   *)
(* version, which may change after a branch was chosen.  A file is read in *)
(* the background: its content may arrive after another choice was made.   *)
(***************************************************************************)
EXTENDS Naturals, Sequences, FiniteSets

CONSTANTS
    Versions,     \* the choices of the version option, in order
    Branches,     \* the choices of the branch option, in order (none: no option)
    Shows,        \* the versions with which the branch option is shown
    OffersBranch, \* OffersBranch[v]: the branches that go with version v
    Files,        \* the files of the user
    TooLarge,     \* those of more than MAX_PATCH_BYTES
    NoFile,       \* no patch
    NoBranch,     \* no branch: the empty string
    MaxReads      \* bound: files that are being read at a time

VersionSet == {Versions[i] : i \in DOMAIN Versions}
BranchSet  == {Branches[i] : i \in DOMAIN Branches}

ASSUME OptionsAssumption ==
    /\ Versions \in Seq(VersionSet) /\ Versions # <<>>
    /\ Branches \in Seq(BranchSet)
    /\ Shows \subseteq VersionSet
    /\ OffersBranch \in [VersionSet -> SUBSET BranchSet]
    /\ TooLarge \subseteq Files
    /\ NoFile \notin Files
    /\ NoBranch \notin BranchSet
    /\ MaxReads \in Nat

VARIABLES
    optionStep,  \* version, libtorrent, or submitted
    version,     \* the version chosen
    branch,      \* the branch chosen last
    patch,       \* the file whose name and content the form holds
    reading,     \* the files being read, in the order they were chosen
    wanted,      \* history: the patch as of the latest choice
    overtaken,   \* history: a read ended after a later choice, or in an error
    submitted    \* what was handed on

optionVars == <<optionStep, version, branch, patch, reading, wanted, overtaken,
                submitted>>

Submissions == [version : VersionSet, branch : BranchSet \cup {NoBranch},
                patch : Files \cup {NoFile}]
NotYet      == [version |-> NoFile, branch |-> NoBranch, patch |-> NoFile]

OptionsTypeOK ==
    /\ optionStep \in {"version", "libtorrent", "submitted"}
    /\ version \in VersionSet
    /\ branch \in BranchSet \cup {NoBranch}
    /\ patch \in Files \cup {NoFile}
    /\ reading \in Seq(Files) /\ Len(reading) <= MaxReads
    /\ wanted \in Files \cup {NoFile}
    /\ overtaken \in BOOLEAN
    /\ submitted \in Submissions \cup {NotYet}

OptionsInit ==
    /\ optionStep = "version"
    /\ version = Versions[1]
    /\ branch = IF Branches = <<>> THEN NoBranch ELSE Branches[1]
    /\ patch = NoFile
    /\ reading = <<>>
    /\ wanted = NoFile /\ overtaken = FALSE
    /\ submitted = NotYet

-----------------------------------------------------------------------------
(* What the form shows.                                                     *)

HasSecondStep == Branches # <<>>
BranchVisible == HasSecondStep /\ version \in Shows

\* The positions of the branches that go with the version, and the first.
BranchChoices  == {i \in DOMAIN Branches : Branches[i] \in OffersBranch[version]}
FirstChoice(i) == \A j \in BranchChoices : i <= j

\* The cross in the field that shows the patch.
ClearOffered == optionStep = "libtorrent" /\ patch # NoFile

SelectedBranch_AsChosen == branch

\* A branch that does not go with the version gives way to the first one.
SelectedBranch ==
    IF branch \in OffersBranch[version] THEN branch
    ELSE IF \E i \in BranchChoices : FirstChoice(i)
         THEN Branches[CHOOSE i \in BranchChoices : FirstChoice(i)]
         ELSE NoBranch

-----------------------------------------------------------------------------

ChooseVersion(v) ==
    /\ optionStep = "version" /\ v # version
    /\ version' = v
    /\ UNCHANGED <<optionStep, branch, patch, reading, wanted, overtaken,
                   submitted>>

ChooseBranch(b) ==
    /\ optionStep = "libtorrent" /\ BranchVisible
    /\ b \in OffersBranch[version] /\ b # SelectedBranch
    /\ branch' = b
    /\ UNCHANGED <<optionStep, version, patch, reading, wanted, overtaken,
                   submitted>>

\* handleFileChange, up to its await.  A file that is too large, or a picker
\* left without a file, takes away the one that was there.
ChooseFile(f) ==
    /\ optionStep = "libtorrent"
    /\ \/ /\ f \in TooLarge \cup {NoFile}
          /\ patch' = NoFile /\ wanted' = NoFile
          /\ UNCHANGED reading
       \/ /\ f \in Files \ TooLarge /\ Len(reading) < MaxReads
          /\ reading' = Append(reading, f) /\ wanted' = f
          /\ UNCHANGED patch
    /\ UNCHANGED <<optionStep, version, branch, overtaken, submitted>>

Rest(i) == SubSeq(reading, 1, i - 1) \o SubSeq(reading, i + 1, Len(reading))

\* The content has arrived, or the read has failed (and the patch stays).
FileRead(i) ==
    /\ optionStep # "submitted"
    /\ reading' = Rest(i)
    /\ \/ /\ patch' = reading[i]
          /\ overtaken' = (overtaken \/ i # Len(reading) \/ wanted # reading[i])
       \/ /\ UNCHANGED patch
          /\ overtaken' = TRUE
    /\ UNCHANGED <<optionStep, version, branch, wanted, submitted>>

ClearPatch ==
    /\ ClearOffered
    /\ patch' = NoFile /\ wanted' = NoFile
    /\ UNCHANGED <<optionStep, version, branch, reading, overtaken, submitted>>

Back ==
    /\ optionStep = "libtorrent"
    /\ optionStep' = "version"
    /\ UNCHANGED <<version, branch, patch, reading, wanted, overtaken,
                   submitted>>

\* handleSubmit on the first step of an app with two.
Continue ==
    /\ optionStep = "version" /\ HasSecondStep
    /\ optionStep' = "libtorrent"
    /\ UNCHANGED <<version, branch, patch, reading, wanted, overtaken,
                   submitted>>

\* handleSubmit: what goes with the job.
SubmitOptions ==
    /\ \/ optionStep = "libtorrent"
       \/ optionStep = "version" /\ ~HasSecondStep
    /\ submitted' = [version |-> version,
                     branch  |-> IF BranchVisible THEN SelectedBranch ELSE NoBranch,
                     patch   |-> patch]
    /\ optionStep' = "submitted"
    /\ UNCHANGED <<version, branch, patch, reading, wanted, overtaken>>

OptionsNext ==
    \/ (\E v \in VersionSet : ChooseVersion(v))
    \/ (\E b \in BranchSet : ChooseBranch(b))
    \/ (\E f \in Files \cup {NoFile} : ChooseFile(f))
    \/ (\E i \in DOMAIN reading : FileRead(i))
    \/ ClearPatch \/ Back \/ Continue \/ SubmitOptions

OptionsSpec == OptionsInit /\ [][OptionsNext]_optionVars

-----------------------------------------------------------------------------

\* What is built can be built, and is what was asked for: the branch handed
\* on goes with the version handed on, in whatever order the two were chosen
\* (install-options-modal.tsx:66-82), and the patch is that of the latest
\* choice if all files were read, without error, in the order of the choices
\* (84-113).
SubmittedFits ==
    optionStep = "submitted" =>
        /\ submitted.branch # NoBranch => submitted.branch \in OffersBranch[submitted.version]
        /\ reading = <<>> /\ ~overtaken => submitted.patch = wanted
=============================================================================
