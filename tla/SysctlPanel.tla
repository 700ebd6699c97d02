----------------------------- MODULE SysctlPanel ----------------------------
(***************************************************************************)
(* Kernel tuning: the panel (components/sysctl-modal.tsx), the handler     *)
(* that applies what it sends (internal/api/handlers/sysctl.go) and the    *)
(* playbook that writes a drop-in file and has the kernel load it          *)
(* (ansible/playbooks/system/sysctl.yml).                                  *)
(* The handler runs the playbook once per request, without a lock, under   *)
(* the context of the request: a client that goes away ends it wherever    *)
(* it is.  The playbook replaces the file as a whole; `sysctl -p` opens it *)
(* and then sets one parameter after the other, and another request may    *)
(* replace the file meanwhile.  The panel checks the password before it    *)
(* applies, and its check may outlive the prompt and the panel.  The host  *)
(* is one that can apply (report.writable).                                *)
(***************************************************************************)
EXTENDS Naturals, Sequences

CONSTANTS
    Keys,         \* the parameters this kernel has
    Settings,     \* their values
    Valid,        \* the values the catalog allows
    Recommended,  \* Recommended[k]: the value the catalog recommends
    NoName,        \* the key of a line that sets nothing
    Patches,      \* bound: the files a user may upload, line by line
    MaxRuns       \* bound: how many requests to apply are sent

ASSUME SysctlAssumption ==
    /\ Valid \subseteq Settings
    /\ Recommended \in [Keys -> Valid]
    /\ NoName \notin Keys
    /\ \A text \in Patches :
          /\ Len(text) \in Nat /\ DOMAIN text = 1..Len(text)
          /\ \A i \in DOMAIN text : text[i].key \in Keys => text[i].value \in Settings
    /\ MaxRuns \in Nat

VARIABLES
    kernel,     \* the host: the live values
    dropIn,     \* the host: what the managed file sets (nothing: no file)
    stained,    \* history: parameters whose last load was not one of the file:
                \* it had been replaced, or was not loaded to its end
    runs,       \* the requests to apply, in order, with how far they are and
                \* the values they have yet to write or to set
    panel,      \* the panel is open
    report,     \* the values it was told last
    edits,      \* the values the user has changed
    applied,    \* it says "Settings applied."
    prompt,     \* the password prompt: closed, open, or checking
    lateCheck,  \* a check goes on for a prompt that was cancelled: none,
                \* in this panel (here), or in one that is closed (gone)
    lateValues, \* what the fields of the closed one showed last
    upload,     \* the file that is being read, or NoUpload
    ours        \* the runs this panel has sent

sysctlHost == <<kernel, dropIn, stained>>
lateVars   == <<lateCheck, lateValues>>
panelVars  == <<panel, report, edits, applied, prompt, lateVars, upload, ours>>
sysctlVars == <<sysctlHost, runs, panelVars>>

Full    == [Keys -> Settings]
Partial == UNION {[D -> Settings] : D \in SUBSET Keys}
Nothing == [k \in {} |-> 0]
NoUpload == <<>>

\* How far a run is.  One that is behind loads a file that has been replaced
\* since it was opened.
Loading    == {"loading", "behind"}
Unfinished == {"sent", "wrote"} \cup Loading
Fates      == Unfinished \cup {"loaded", "heard", "denied", "failed", "cut"}

SysctlTypeOK ==
    /\ kernel \in Full
    /\ dropIn \in Full \cup {Nothing}
    /\ stained \subseteq Keys
    /\ runs \in Seq([values : Partial, stage : Fates])
    /\ Len(runs) <= MaxRuns
    /\ panel \in BOOLEAN /\ applied \in BOOLEAN
    /\ report \in Full
    /\ edits \in Partial
    /\ prompt \in {"closed", "open", "checking"}
    /\ lateCheck \in {"none", "here", "gone"}
    /\ lateValues \in Full \cup {Nothing}
    /\ upload \in Patches \cup {NoUpload}
    /\ ours \subseteq DOMAIN runs

SysctlInit ==
    /\ kernel \in Full
    /\ dropIn = Nothing
    /\ stained = {}
    /\ runs = <<>>
    /\ panel = FALSE
    /\ report = kernel
    /\ edits = Nothing
    /\ applied = FALSE
    /\ prompt = "closed" /\ lateCheck = "none" /\ lateValues = Nothing
    /\ upload = NoUpload
    /\ ours = {}

\* The values of the second function where it has any.
Over(f, g) ==
    [k \in DOMAIN f \cup DOMAIN g |-> IF k \in DOMAIN g THEN g[k] ELSE f[k]]

\* effectiveValue of every available parameter: what the fields show.
Fields == Over(report, edits)

InHand(i) == runs[i].stage \in Unfinished \cup {"loaded"}

\* apply.isPending, of the latest call of this panel.
Applying == \E i \in ours : InHand(i) /\ \A j \in ours : j <= i

\* parseSysctlPatch: of the lines that set a key the last one counts.
ParseSysctlPatch(text) ==
    LET Sets(k) == {i \in DOMAIN text : text[i].key = k}
        Last(k) == CHOOSE i \in Sets(k) : \A j \in Sets(k) : j <= i
    IN  [k \in {text[i].key : i \in DOMAIN text} \ {NoName} |-> text[Last(k)].value]

Recognized(parsed) == [k \in DOMAIN parsed \cap Keys |-> parsed[k]]

\* The fields and the buttons of the panel, while no prompt covers them.
CanEdit  == panel /\ prompt = "closed"
CanApply == panel /\ prompt = "closed" /\ ~Applying

-----------------------------------------------------------------------------
(* The panel.                                                               *)

OpenSysctl ==
    /\ ~panel
    /\ panel' = TRUE
    /\ report' \in {report, kernel}
    /\ edits' = Nothing /\ applied' = FALSE /\ prompt' = "closed"
    /\ upload' = NoUpload /\ ours' = {}
    /\ UNCHANGED <<sysctlHost, runs, lateVars>>

\* A check that outlived its prompt outlives the panel, too: it will apply
\* what the fields showed last.
CloseSysctl ==
    /\ panel /\ prompt = "closed"
    /\ panel' = FALSE
    /\ edits' = Nothing /\ upload' = NoUpload /\ applied' = FALSE /\ ours' = {}
    /\ \/ /\ lateCheck = "here"
          /\ lateCheck' = "gone" /\ lateValues' = Fields
       \/ /\ lateCheck # "here"
          /\ UNCHANGED <<lateVars>>
    /\ UNCHANGED <<sysctlHost, runs, report, prompt>>

\* The query refetches when it mounts and when the window has the focus.
RefetchReport ==
    /\ panel
    /\ report' = kernel
    /\ UNCHANGED <<sysctlHost, runs, panel, edits, applied, prompt, lateVars,
                   upload, ours>>

\* A field is changed (or takes the recommended value), even while applying.
Update(k, v) ==
    /\ CanEdit /\ v # Fields[k]
    /\ edits' = Over(edits, [x \in {k} |-> v])
    /\ applied' = FALSE
    /\ UNCHANGED <<sysctlHost, runs, panel, report, prompt, lateVars, upload,
                   ours>>

RequestApply ==
    /\ CanApply
    /\ prompt' = "open"
    /\ UNCHANGED <<sysctlHost, runs, panel, report, edits, applied, lateVars,
                   upload, ours>>

ApplyRecommended ==
    /\ CanApply
    /\ edits' = Recommended /\ applied' = FALSE
    /\ prompt' = "open"
    /\ UNCHANGED <<sysctlHost, runs, panel, report, lateVars, upload, ours>>

\* Reading the file takes its time.
ChoosePatch(p) ==
    /\ CanApply /\ upload = NoUpload
    /\ upload' = p
    /\ UNCHANGED <<sysctlHost, runs, panel, report, edits, applied, prompt,
                   lateVars, ours>>

\* handlePatchFile after its await: the recognized parameters are merged in,
\* and the prompt is shown; a file without any is an error.
PatchRead ==
    /\ panel /\ upload # NoUpload
    /\ upload' = NoUpload /\ applied' = FALSE
    /\ LET matched == Recognized(ParseSysctlPatch(upload)) IN
       \/ /\ DOMAIN matched # {}
          /\ edits' = Over(edits, matched)
          /\ prompt' = IF prompt = "closed" THEN "open" ELSE prompt
       \/ /\ DOMAIN matched = {}
          /\ UNCHANGED <<edits, prompt>>
    /\ UNCHANGED <<sysctlHost, runs, panel, report, lateVars, ours>>

-----------------------------------------------------------------------------
(* The prompt.                                                              *)

SubmitPassword ==
    /\ panel /\ prompt = "open"
    /\ prompt' = "checking"
    /\ UNCHANGED <<sysctlHost, runs, panel, report, edits, applied, lateVars,
                   upload, ours>>

\* (One check at a time outlives its prompt.)
CancelPrompt ==
    /\ panel
    /\ \/ prompt = "open" /\ UNCHANGED lateCheck
       \/ prompt = "checking" /\ lateCheck = "none" /\ lateCheck' = "here"
    /\ prompt' = "closed"
    /\ UNCHANGED <<sysctlHost, runs, panel, report, edits, applied, lateValues,
                   upload, ours>>

Send(values) ==
    /\ Len(runs) < MaxRuns
    /\ runs' = Append(runs, [values |-> values, stage |-> "sent"])

\* confirmPassword: the values are those the fields show by now.
ApplyHere == Send(Fields) /\ ours' = ours \cup {Len(runs) + 1}

PasswordChecked ==
    /\ panel /\ prompt = "checking"
    /\ \/ prompt' = "closed" /\ ApplyHere
       \/ prompt' = "open" /\ UNCHANGED <<runs, ours>>
    /\ UNCHANGED <<sysctlHost, panel, report, edits, applied, lateVars, upload>>

\* The check of a cancelled prompt goes the same way: it closes the prompt
\* that may be open now (whose own check goes on) and applies.
CheckedLate ==
    /\ \/ /\ lateCheck = "here"
          /\ lateCheck' = IF prompt = "checking" THEN "here" ELSE "none"
          /\ prompt' = "closed"
          /\ ApplyHere
       \/ /\ lateCheck = "gone" /\ lateCheck' = "none"
          /\ Send(lateValues)
          /\ UNCHANGED <<prompt, ours>>
       \/ /\ lateCheck # "none" /\ lateCheck' = "none"
          /\ UNCHANGED <<runs, ours, prompt>>
    /\ lateValues' = IF lateCheck = "gone" THEN Nothing ELSE lateValues
    /\ UNCHANGED <<sysctlHost, panel, report, edits, applied, upload>>

-----------------------------------------------------------------------------
(* The handler and the playbook.                                            *)

\* How run i goes on, and the values it has yet to set.
Move(i, s, values) ==
    runs' = [runs EXCEPT ![i] = [stage |-> s, values |-> values]]

RunTo(i, s) == Move(i, s, Nothing)

\* ValidateSysctl, the password, and whether the playbook can start.  (An
\* answer that is an error changes nothing in the panel but its message.)
RefuseRun(i) ==
    /\ runs[i].stage = "sent"
    /\ RunTo(i, "denied")
    /\ UNCHANGED <<sysctlHost, panelVars>>

\* The file is replaced, if it is to change: who has it open reads the old one.
WriteFile(i) ==
    /\ runs[i].stage = "sent"
    /\ \A k \in Keys : runs[i].values[k] \in Valid
    /\ dropIn' = runs[i].values
    /\ runs' = [j \in DOMAIN runs |->
          IF j = i THEN [stage |-> "wrote", values |-> Nothing]
          ELSE IF runs[j].stage = "loading" /\ dropIn' # dropIn
          THEN [runs[j] EXCEPT !.stage = "behind"]
          ELSE runs[j]]
    /\ UNCHANGED <<kernel, stained, panelVars>>

\* sysctl -p opens the file, whoever wrote it.
OpenFile(i) ==
    /\ runs[i].stage = "wrote"
    /\ Move(i, "loading", dropIn)
    /\ UNCHANGED <<sysctlHost, panelVars>>

\* It sets the parameters one after the other.
SetKey(i, k) ==
    /\ runs[i].stage \in Loading
    /\ k \in DOMAIN runs[i].values
    /\ kernel' = [kernel EXCEPT ![k] = runs[i].values[k]]
    /\ Move(i, runs[i].stage, [x \in DOMAIN runs[i].values \ {k} |-> runs[i].values[x]])
    /\ stained' = IF runs[i].stage = "behind" THEN stained \cup {k} ELSE stained \ {k}
    /\ UNCHANGED <<dropIn, panelVars>>

EndLoad_IgnoresErrors(i) ==
    /\ runs[i].stage \in Loading
    /\ RunTo(i, "loaded")
    /\ UNCHANGED <<sysctlHost, panelVars>>

\* It went through only if it set them all.
EndLoad(i) ==
    /\ runs[i].stage \in Loading /\ runs[i].values = Nothing
    /\ RunTo(i, "loaded")
    /\ UNCHANGED <<sysctlHost, panelVars>>

\* What of the file run i has yet to set.
Unset(i) ==
    CASE runs[i].stage = "wrote" -> Keys
      [] runs[i].stage = "loading" -> DOMAIN runs[i].values
      [] OTHER -> {}

\* Some parameters cannot be set, or the file cannot be loaded at all.
FailLoad(i) ==
    /\ runs[i].stage \in Loading \cup {"wrote"}
    /\ RunTo(i, "failed")
    /\ stained' = stained \cup Unset(i)
    /\ UNCHANGED <<kernel, dropIn, panelVars>>

\* The request's context ends: the playbook is killed where it is.  (If the
\* task it was at goes on for a moment, that is a cut that comes later.)
CutRun(i) ==
    /\ runs[i].stage \in Unfinished
    /\ RunTo(i, "cut")
    /\ stained' = stained \cup Unset(i)
    /\ applied' = FALSE /\ panel' = FALSE /\ prompt' = "closed"
    /\ lateCheck' = "none" /\ lateValues' = Nothing
    /\ edits' = Nothing /\ upload' = NoUpload /\ ours' = {}
    /\ UNCHANGED <<kernel, dropIn, report>>

\* A success brings the live values, and the panel drops its edits.
Answered(i) ==
    /\ runs[i].stage = "loaded"
    /\ RunTo(i, "heard")
    /\ report' = kernel
    /\ IF panel /\ i \in ours
       THEN edits' = Nothing /\ applied' = TRUE
       ELSE UNCHANGED <<edits, applied>>
    /\ UNCHANGED <<sysctlHost, panel, prompt, lateVars, upload, ours>>

PanelStep ==
    \/ OpenSysctl \/ CloseSysctl \/ RefetchReport
    \/ (\E k \in Keys, v \in Settings : Update(k, v))
    \/ RequestApply \/ ApplyRecommended
    \/ (\E p \in Patches : ChoosePatch(p)) \/ PatchRead
    \/ SubmitPassword \/ CancelPrompt \/ PasswordChecked \/ CheckedLate

SysctlNext ==
    \/ PanelStep
    \/ \E i \in DOMAIN runs :
          \/ RefuseRun(i) \/ WriteFile(i) \/ OpenFile(i)
          \/ (\E k \in Keys : SetKey(i, k))
          \/ EndLoad(i) \/ FailLoad(i) \/ CutRun(i) \/ Answered(i)

SysctlSpec == SysctlInit /\ [][SysctlNext]_sysctlVars

-----------------------------------------------------------------------------

\* What the host runs with is what it will boot with, but for two ends the
\* code allows: once no playbook has a file to load, every live value is that
\* of the drop-in file, unless it was last set from a file that another apply
\* had replaced after it was opened, or a load of the file failed or was cut
\* off before it.  An apply that loads its file to the end makes up for both,
\* in whatever order the playbooks of overlapping requests write and load
\* (sysctl.yml:27-36, sysctl.go:95).
KernelIsDropIn ==
    (\A i \in DOMAIN runs : runs[i].stage \notin {"wrote", "loading"}) =>
        dropIn = Nothing \/ \A k \in Keys : kernel[k] = dropIn[k] \/ k \in stained

\* "Settings applied." is there only beside values as the host reported
\* them, nothing unsent among them, and after an apply of this panel that
\* went through (sysctl-modal.tsx:121-132).
AppliedIsTrue ==
    applied => edits = Nothing /\ \E i \in ours : runs[i].stage = "heard"
=============================================================================
