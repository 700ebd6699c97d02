---------------------------- MODULE PlaybookProofs ---------------------------
(***************************************************************************)
(* Proofs about what playbooks are run for and how: the settings of the    *)
(* kernel (SysctlPanel), for any parameters, files and number of applies,  *)
(* and one call of the runner (PlaybookRunner), for any pipes and outputs. *)
(***************************************************************************)
EXTENDS SysctlPanel, PlaybookRunner, WellFoundedInduction, TLAPS

-----------------------------------------------------------------------------
(* The settings.  Added to the type are what the runs hold, that what a     *)
(* check that outlived its panel will send sets every parameter, and why a  *)
(* live value is not that of the file: it is stained, or some run has yet   *)
(* to set it.                                                               *)

RunRecords == [values : Partial, stage : Fates]

\* What has been sent sets every parameter; what is being loaded is what is
\* left of the file.
RunFits(i) ==
    /\ runs[i].stage = "sent" => runs[i].values \in Full
    /\ runs[i].stage \in {"wrote", "loading"} => dropIn \in Full
    /\ runs[i].stage = "loading" =>
          \A k \in DOMAIN runs[i].values : runs[i].values[k] = dropIn[k]

Covered ==
    dropIn = Nothing \/
    \A k \in Keys : \/ kernel[k] = dropIn[k]
                    \/ k \in stained
                    \/ \E i \in DOMAIN runs : k \in Unset(i)

SysctlInv ==
    /\ SysctlTypeOK
    /\ \A i \in DOMAIN runs : RunFits(i)
    /\ lateCheck = "gone" => lateValues \in Full
    /\ Covered
    /\ AppliedIsTrue

-----------------------------------------------------------------------------
(* Numbers: a set of them has a smallest, a bounded one a largest.         *)

LEMMA LessIsWellFounded ==
    \E R : IsWellFoundedOn(R, Nat) /\ \A x, y \in Nat : y < x => <<y, x>> \in R
<1>1. IsWellFoundedOn(OpToRel(<, Nat), Nat)
  BY NatLessThanWellFounded
<1>2. \A x, y \in Nat : y < x => <<y, x>> \in OpToRel(<, Nat)
  BY DEF OpToRel
<1> QED  BY <1>1, <1>2

LEMMA HasSmallest ==
    ASSUME NEW S, S \subseteq Nat, S # {}
    PROVE  \E m \in S : \A j \in S : m <= j
<1>1. PICK R : IsWellFoundedOn(R, Nat) /\ \A x, y \in Nat : y < x => <<y, x>> \in R
  BY LessIsWellFounded
<1>2. PICK x \in S : \A y \in S : ~(<<y, x>> \in R)
  BY <1>1, WFMin
<1>3. \A y \in S : ~(y < x)
  BY <1>1, <1>2
<1>4. \A y \in S : x <= y
  BY <1>2, <1>3
<1> QED  BY <1>2, <1>4

LEMMA HasLast ==
    ASSUME NEW n \in Nat, NEW S, S \subseteq 0..n, S # {}
    PROVE  \E m \in S : \A j \in S : j <= m
<1> DEFINE Back == {n - i : i \in S}
<1>1. Back \subseteq Nat /\ Back # {}
  <2>1. PICK i \in S : TRUE
    OBVIOUS
  <2>2. n - i \in Back
    BY <2>1
  <2>3. \A j \in S : n - j \in Nat
    OBVIOUS
  <2> QED  BY <2>2, <2>3
<1>2. PICK d \in Back : \A e \in Back : d <= e
  BY <1>1, HasSmallest
<1>3. PICK m \in S : d = n - m
  BY <1>2
<1>4. \A j \in S : n - m <= n - j
  BY <1>2, <1>3
<1>5. \A j \in S : j <= m
  BY <1>4
<1> QED  BY <1>3, <1>5

-----------------------------------------------------------------------------
(* Values.                                                                  *)

LEMMA NothingIsPartial == Nothing \in Partial
<1>1. Nothing \in [{} -> Settings]
  BY DEF Nothing
<1> QED  BY <1>1 DEF Partial

LEMMA FullIsPartial == Full \subseteq Partial
  BY DEF Full, Partial

LEMMA RecommendedIsPartial == Recommended \in Partial
<1>1. Recommended \in [Keys -> Settings]
  BY SysctlAssumption
<1> QED  BY <1>1 DEF Partial

\* What is left of some values when one of them is set.
LEMMA LeftIsPartial ==
    ASSUME NEW f \in Partial, NEW k
    PROVE  [x \in DOMAIN f \ {k} |-> f[x]] \in Partial
<1>1. PICK D \in SUBSET Keys : f \in [D -> Settings]
  BY DEF Partial
<1>2. [x \in DOMAIN f \ {k} |-> f[x]] \in [D \ {k} -> Settings]
  BY <1>1
<1>3. D \ {k} \in SUBSET Keys
  BY <1>1
<1> QED  BY <1>2, <1>3 DEF Partial

LEMMA PartialDomain == ASSUME NEW f \in Partial PROVE DOMAIN f \subseteq Keys
  BY DEF Partial

LEMMA OverKeeps ==
    ASSUME NEW f \in Partial, NEW g \in Partial PROVE Over(f, g) \in Partial
<1>1. PICK D \in SUBSET Keys : f \in [D -> Settings]
  BY DEF Partial
<1>2. PICK E \in SUBSET Keys : g \in [E -> Settings]
  BY DEF Partial
<1>3. Over(f, g) \in [D \cup E -> Settings]
  BY <1>1, <1>2 DEF Over
<1> QED  BY <1>3 DEF Partial

LEMMA FieldsAreFull == ASSUME SysctlTypeOK PROVE Fields \in Full
<1>1. report \in [Keys -> Settings]
  BY DEF SysctlTypeOK, Full
<1>2. PICK E \in SUBSET Keys : edits \in [E -> Settings]
  BY DEF SysctlTypeOK, Partial
<1>3. Keys \cup E = Keys
  OBVIOUS
<1>4. Over(report, edits) \in [Keys -> Settings]
  BY <1>1, <1>2, <1>3 DEF Over
<1> QED  BY <1>4 DEF Fields, Full

\* What a file sets of this kernel's parameters are values of theirs: of the
\* lines that set one, the last is among them.
LEMMA RecognizedIsPartial ==
    ASSUME NEW text \in Patches PROVE Recognized(ParseSysctlPatch(text)) \in Partial
<1> DEFINE Sets(k)  == {i \in DOMAIN text : text[i].key = k}
           IsLast(i, k) == i \in Sets(k) /\ \A j \in Sets(k) : j <= i
           Last(k)  == CHOOSE i \in Sets(k) : \A j \in Sets(k) : j <= i
           Named    == {text[i].key : i \in DOMAIN text} \ {NoName}
           parsed   == ParseSysctlPatch(text)
<1>1. Len(text) \in Nat /\ DOMAIN text = 1..Len(text)
  BY SysctlAssumption
<1>2. ASSUME NEW k \in Named PROVE Last(k) \in Sets(k)
  <2>1. Sets(k) \subseteq 1..Len(text) /\ Sets(k) # {}
    BY <1>1
  <2> HIDE DEF Sets
  <2>2. \E i \in Sets(k) : \A j \in Sets(k) : j <= i
    BY <1>1, <2>1, HasLast
  <2> QED  BY <2>2
<1>3. parsed = [k \in Named |-> text[Last(k)].value]
  BY DEF ParseSysctlPatch
<1>4. ASSUME NEW k \in Named \cap Keys PROVE parsed[k] \in Settings
  <2>1. Last(k) \in DOMAIN text /\ text[Last(k)].key = k
    BY <1>2
  <2> HIDE DEF Last
  <2>2. parsed[k] = text[Last(k)].value
    BY <1>3
  <2> QED  BY <2>1, <2>2, SysctlAssumption
<1>5. DOMAIN parsed = Named
  BY <1>3
<1> HIDE DEF Named, parsed
<1>6. [k \in DOMAIN parsed \cap Keys |-> parsed[k]] \in [Named \cap Keys -> Settings]
  BY <1>4, <1>5
<1>7. Recognized(parsed) \in [Named \cap Keys -> Settings]
  BY <1>6 DEF Recognized
<1> QED  BY <1>7 DEF Partial, parsed

-----------------------------------------------------------------------------
(* Runs.                                                                    *)

LEMMA RunOf ==
    ASSUME SysctlTypeOK, NEW i \in DOMAIN runs
    PROVE  runs[i].values \in Partial /\ runs[i].stage \in Fates /\ i \in Nat
<1>1. runs \in Seq(RunRecords)
  BY DEF SysctlTypeOK, RunRecords
<1> HIDE DEF RunRecords
<1>2. runs[i] \in RunRecords /\ i \in Nat
  BY <1>1
<1> QED  BY <1>2 DEF RunRecords

\* A request is one more run, with values for every parameter.
LEMMA SendAppends ==
    ASSUME SysctlInv, NEW values \in Full, Send(values), UNCHANGED sysctlHost
    PROVE  /\ runs' \in Seq(RunRecords) /\ Len(runs') <= MaxRuns
           /\ DOMAIN runs' = DOMAIN runs \cup {Len(runs) + 1}
           /\ \A n \in DOMAIN runs : runs'[n] = runs[n]
           /\ \A n \in DOMAIN runs' : RunFits(n)'
           /\ Covered'
<1> DEFINE new == [values |-> values, stage |-> "sent"]
<1>1. runs \in Seq(RunRecords) /\ Len(runs) < MaxRuns /\ runs' = Append(runs, new)
  BY DEF SysctlInv, SysctlTypeOK, Send, RunRecords
<1>2. new \in RunRecords /\ new.stage = "sent" /\ new.values = values
  BY FullIsPartial DEF RunRecords, Fates, Unfinished
<1> HIDE DEF new
<1>3. /\ runs' \in Seq(RunRecords) /\ Len(runs') <= MaxRuns
      /\ DOMAIN runs' = DOMAIN runs \cup {Len(runs) + 1}
      /\ \A n \in DOMAIN runs : runs'[n] = runs[n]
      /\ runs'[Len(runs) + 1] = new
  BY <1>1, <1>2, SysctlAssumption
<1>4. ASSUME NEW n \in DOMAIN runs' PROVE RunFits(n)'
  BY <1>2, <1>3 DEF SysctlInv, RunFits, sysctlHost
<1>5. Covered'
  <2>1. \A n \in DOMAIN runs : Unset(n)' = Unset(n)
    BY <1>3 DEF Unset
  <2> QED  BY <1>3, <2>1 DEF SysctlInv, Covered, sysctlHost
<1> QED  BY <1>3, <1>4, <1>5

\* A run that goes on leaves the others alone.
LEMMA RunReached ==
    ASSUME SysctlInv, NEW i \in DOMAIN runs, NEW s \in Fates, NEW v \in Partial,
           Move(i, s, v)
    PROVE  /\ runs' \in Seq(RunRecords) /\ Len(runs') <= MaxRuns
           /\ DOMAIN runs' = DOMAIN runs
           /\ \A n \in DOMAIN runs : n # i => runs'[n] = runs[n]
           /\ runs'[i].stage = s /\ runs'[i].values = v
<1> DEFINE new == [stage |-> s, values |-> v]
<1>1. runs \in Seq(RunRecords) /\ Len(runs) <= MaxRuns
  BY DEF SysctlInv, SysctlTypeOK, RunRecords
<1>2. runs' = [runs EXCEPT ![i] = new]
  BY DEF Move
<1>3. new \in RunRecords /\ new.stage = s /\ new.values = v
  BY DEF RunRecords
<1> HIDE DEF new
<1>4. /\ runs' \in Seq(RunRecords) /\ Len(runs') = Len(runs)
      /\ DOMAIN runs' = DOMAIN runs
      /\ \A n \in DOMAIN runs : n # i => runs'[n] = runs[n]
      /\ runs'[i] = new
  BY <1>1, <1>2, <1>3
<1> QED  BY <1>1, <1>3, <1>4

\* What it held of the file is set, stained, or still held.
LEMMA CoveredStays ==
    ASSUME SysctlInv, NEW i \in DOMAIN runs, DOMAIN runs' = DOMAIN runs,
           \A n \in DOMAIN runs : n # i => runs'[n] = runs[n],
           dropIn' = dropIn, stained \ stained' \subseteq {k \in Keys : kernel'[k] = dropIn[k]},
           \A k \in Keys : kernel'[k] \in {kernel[k], dropIn[k]} \/ k \in stained',
           \A k \in Unset(i) : \/ k \in Unset(i)' \/ k \in stained'
                               \/ kernel'[k] = dropIn[k]
    PROVE  Covered'
<1>1. \A n \in DOMAIN runs : n # i => Unset(n)' = Unset(n)
  BY DEF Unset
<1> SUFFICES ASSUME dropIn # Nothing, NEW k \in Keys,
                    kernel'[k] # dropIn[k], k \notin stained'
             PROVE  \E n \in DOMAIN runs : k \in Unset(n)'
  BY DEF Covered
<1>2. kernel[k] # dropIn[k] /\ k \notin stained
  OBVIOUS
<1>3. PICK n \in DOMAIN runs : k \in Unset(n)
  BY <1>2 DEF SysctlInv, Covered
<1> QED  BY <1>1, <1>3

-----------------------------------------------------------------------------
(* Steps.                                                                   *)

LEMMA SysctlInitially == SysctlInit => SysctlInv
<1> SUFFICES ASSUME SysctlInit PROVE SysctlInv
  OBVIOUS
<1>1. runs = <<>> /\ DOMAIN runs = {}
  BY DEF SysctlInit
<1>2. runs \in Seq([values : Partial, stage : Fates]) /\ Len(runs) <= MaxRuns
  BY <1>1, SysctlAssumption
<1>3. SysctlTypeOK
  BY <1>1, <1>2, NothingIsPartial DEF SysctlInit, SysctlTypeOK
<1> QED
  BY <1>1, <1>3 DEF SysctlInv, SysctlInit, Covered, AppliedIsTrue

\* The steps of the panel that send nothing.
UnsentStep ==
    \/ OpenSysctl \/ CloseSysctl \/ RefetchReport
    \/ (\E k \in Keys, v \in Settings : Update(k, v))
    \/ RequestApply \/ ApplyRecommended
    \/ (\E p \in Patches : ChoosePatch(p)) \/ PatchRead
    \/ SubmitPassword \/ CancelPrompt

\* What a step that starts or moves no run has to keep.
LEMMA RunsUntouched ==
    ASSUME SysctlInv, UNCHANGED <<sysctlHost, runs>>,
           panel' \in BOOLEAN, applied' \in BOOLEAN, report' \in Full,
           edits' \in Partial, prompt' \in {"closed", "open", "checking"},
           lateCheck' \in {"none", "here", "gone"},
           lateValues' \in Full \cup {Nothing},
           lateCheck' = "gone" => lateValues' \in Full,
           upload' \in Patches \cup {NoUpload}, ours' \subseteq DOMAIN runs,
           applied' => applied /\ edits' = edits /\ ours' = ours
    PROVE  SysctlInv'
<1>1. SysctlTypeOK'
  BY DEF SysctlInv, SysctlTypeOK, sysctlHost
<1>2. \A i \in DOMAIN runs : RunFits(i)'
  BY DEF SysctlInv, RunFits, sysctlHost
<1>3. Covered'
  BY DEF SysctlInv, Covered, Unset, sysctlHost
<1> QED  BY <1>1, <1>2, <1>3 DEF SysctlInv, AppliedIsTrue

LEMMA UpdateStep ==
    ASSUME SysctlInv, NEW k \in Keys, NEW v \in Settings, Update(k, v)
    PROVE  SysctlInv'
<1>1. [x \in {k} |-> v] \in Partial
  <2>1. [x \in {k} |-> v] \in [{k} -> Settings]
    OBVIOUS
  <2> QED  BY <2>1 DEF Partial
<1>2. edits' \in Partial
  BY <1>1, OverKeeps DEF Update, SysctlInv, SysctlTypeOK
<1> QED  BY <1>2, RunsUntouched DEF Update, lateVars, SysctlInv, SysctlTypeOK

LEMMA PatchStep == ASSUME SysctlInv, PatchRead PROVE SysctlInv'
<1> DEFINE matched == Recognized(ParseSysctlPatch(upload))
<1>1. upload \in Patches /\ edits \in Partial
  BY DEF PatchRead, SysctlInv, SysctlTypeOK
<1>2. matched \in Partial
  BY <1>1, RecognizedIsPartial
<1>3. edits' \in {edits, Over(edits, matched)} /\ prompt' \in {prompt, "open"}
  BY DEF PatchRead
<1>4. edits' \in Partial
  BY <1>1, <1>2, <1>3, OverKeeps
<1> HIDE DEF matched
<1> QED
  BY <1>3, <1>4, RunsUntouched DEF PatchRead, lateVars, SysctlInv, SysctlTypeOK

LEMMA UnsentStepKeeps == ASSUME SysctlInv, UnsentStep PROVE SysctlInv'
<1> USE DEF SysctlInv, SysctlTypeOK, lateVars
<1>1. CASE OpenSysctl
  BY <1>1, RunsUntouched, NothingIsPartial DEF OpenSysctl
<1>2. CASE CloseSysctl
  BY <1>2, RunsUntouched, NothingIsPartial, FieldsAreFull DEF CloseSysctl
<1>3. CASE RefetchReport
  BY <1>3, RunsUntouched DEF RefetchReport
<1>4. CASE \E k \in Keys, v \in Settings : Update(k, v)
  BY <1>4, UpdateStep
<1>5. CASE RequestApply
  BY <1>5, RunsUntouched DEF RequestApply
<1>6. CASE ApplyRecommended
  BY <1>6, RunsUntouched, RecommendedIsPartial DEF ApplyRecommended
<1>7. CASE \E p \in Patches : ChoosePatch(p)
  BY <1>7, RunsUntouched DEF ChoosePatch
<1>8. CASE PatchRead
  BY <1>8, PatchStep
<1>9. CASE SubmitPassword
  BY <1>9, RunsUntouched DEF SubmitPassword
<1>10. CASE CancelPrompt
  BY <1>10, RunsUntouched DEF CancelPrompt
<1> QED
  BY <1>1, <1>2, <1>3, <1>4, <1>5, <1>6, <1>7, <1>8, <1>9, <1>10 DEF UnsentStep

\* A new run is sent and no more: the host waits for its playbook.
LEMMA SentStep ==
    ASSUME SysctlInv, NEW values \in Full, Send(values),
           UNCHANGED <<sysctlHost, panel, report, edits, applied, upload>>,
           prompt' \in {"closed", "open", "checking"},
           lateCheck' \in {"none", "here", "gone"},
           lateCheck' = "gone" => lateValues' \in Full,
           lateValues' \in Full \cup {Nothing},
           ours' \in {ours, ours \cup {Len(runs) + 1}}
    PROVE  SysctlInv'
<1>1. /\ runs' \in Seq(RunRecords) /\ Len(runs') <= MaxRuns
      /\ DOMAIN runs' = DOMAIN runs \cup {Len(runs) + 1}
      /\ \A n \in DOMAIN runs : runs'[n] = runs[n]
      /\ \A n \in DOMAIN runs' : RunFits(n)'
      /\ Covered'
  BY SendAppends
<1>2. ours' \subseteq DOMAIN runs'
  BY <1>1 DEF SysctlInv, SysctlTypeOK
<1>3. SysctlTypeOK'
  BY <1>1, <1>2 DEF SysctlInv, SysctlTypeOK, sysctlHost, RunRecords
<1>4. AppliedIsTrue'
  BY <1>1 DEF SysctlInv, SysctlTypeOK, AppliedIsTrue
<1> QED  BY <1>1, <1>3, <1>4 DEF SysctlInv

LEMMA SendStep ==
    ASSUME SysctlInv, PasswordChecked \/ CheckedLate PROVE SysctlInv'
<1> USE DEF SysctlInv, SysctlTypeOK, lateVars
<1>0. Fields \in Full
  BY FieldsAreFull
<1>1. CASE PasswordChecked
  <2>1. CASE prompt' = "closed" /\ ApplyHere
    BY <1>0, <1>1, <2>1, SentStep DEF PasswordChecked, ApplyHere
  <2>2. CASE prompt' = "open" /\ UNCHANGED <<runs, ours>>
    BY <1>1, <2>2, RunsUntouched DEF PasswordChecked
  <2> QED  BY <1>1, <2>1, <2>2 DEF PasswordChecked
<1>2. CASE CheckedLate
  <2>0. /\ lateValues' \in Full \cup {Nothing}
        /\ UNCHANGED <<sysctlHost, panel, report, edits, applied, upload>>
    BY <1>2 DEF CheckedLate
  <2>1. CASE /\ lateCheck = "here"
             /\ lateCheck' = IF prompt = "checking" THEN "here" ELSE "none"
             /\ prompt' = "closed"
             /\ ApplyHere
    BY <1>0, <2>0, <2>1, SentStep DEF ApplyHere
  <2>2. CASE /\ lateCheck = "gone" /\ lateCheck' = "none"
             /\ Send(lateValues)
             /\ UNCHANGED <<prompt, ours>>
    BY <2>0, <2>2, SentStep
  <2>3. CASE /\ lateCheck # "none" /\ lateCheck' = "none"
             /\ UNCHANGED <<runs, ours, prompt>>
    BY <2>0, <2>3, RunsUntouched
  <2> QED  BY <1>2, <2>1, <2>2, <2>3 DEF CheckedLate
<1> QED  BY <1>1, <1>2

\* A step of the handler or the playbook that the panel does not see.
LEMMA HostStep ==
    ASSUME SysctlInv, runs' \in Seq(RunRecords), Len(runs') <= MaxRuns,
           DOMAIN runs' = DOMAIN runs,
           \A n \in DOMAIN runs : runs[n].stage = "heard" => runs'[n].stage = "heard",
           \A n \in DOMAIN runs : RunFits(n)',
           UNCHANGED panelVars, kernel' \in Full, dropIn' \in Full \cup {Nothing},
           stained' \subseteq Keys, Covered'
    PROVE  SysctlInv'
<1>1. UNCHANGED <<panel, report, edits, applied, prompt, lateCheck, lateValues,
                  upload, ours>>
  BY DEF panelVars, lateVars
<1>2. SysctlTypeOK'
  BY <1>1 DEF SysctlInv, SysctlTypeOK, RunRecords
<1>3. AppliedIsTrue'
  BY <1>1 DEF SysctlInv, SysctlTypeOK, AppliedIsTrue
<1> QED  BY <1>1, <1>2, <1>3 DEF SysctlInv

\* One that leaves the file alone and moves one run.
LEMMA MoveStep ==
    ASSUME SysctlInv, NEW i \in DOMAIN runs, NEW s \in Fates \ {"sent", "wrote"},
           NEW v \in Partial, Move(i, s, v), runs[i].stage # "heard",
           s = "loading" => dropIn \in Full /\ \A k \in DOMAIN v : v[k] = dropIn[k],
           UNCHANGED panelVars, kernel' \in Full, dropIn' = dropIn,
           stained' \subseteq Keys, Covered'
    PROVE  SysctlInv'
<1>1. /\ runs' \in Seq(RunRecords) /\ Len(runs') <= MaxRuns
      /\ DOMAIN runs' = DOMAIN runs
      /\ \A n \in DOMAIN runs : n # i => runs'[n] = runs[n]
      /\ runs'[i].stage = s /\ runs'[i].values = v
  BY RunReached
<1>2. \A n \in DOMAIN runs : RunFits(n)'
  BY <1>1 DEF SysctlInv, RunFits
<1>3. dropIn' \in Full \cup {Nothing}
  BY DEF SysctlInv, SysctlTypeOK
<1> QED  BY <1>1, <1>2, <1>3, HostStep

\* A file that is replaced has to be loaded, by the one that wrote it, and
\* what was being loaded is a file no more.
LEMMA FileStep ==
    ASSUME SysctlInv, NEW i \in DOMAIN runs, WriteFile(i) PROVE SysctlInv'
<1> DEFINE After(j) ==
      IF j = i THEN [stage |-> "wrote", values |-> Nothing]
      ELSE IF runs[j].stage = "loading" /\ dropIn' # dropIn
      THEN [runs[j] EXCEPT !.stage = "behind"]
      ELSE runs[j]
<1>1. /\ runs \in Seq(RunRecords) /\ Len(runs) <= MaxRuns
      /\ runs[i].stage = "sent" /\ dropIn' = runs[i].values /\ dropIn' \in Full
      /\ runs' = [j \in DOMAIN runs |-> After(j)]
      /\ kernel' = kernel /\ stained' = stained /\ UNCHANGED panelVars
  BY DEF WriteFile, SysctlInv, SysctlTypeOK, RunRecords, RunFits
<1>2. ASSUME NEW j \in DOMAIN runs PROVE After(j) \in RunRecords
  <2>1. runs[j] \in RunRecords
    BY <1>1
  <2> QED
    BY <2>1, NothingIsPartial DEF RunRecords, Fates, Unfinished, Loading
<1>3. /\ runs'[i].stage = "wrote"
      /\ \A j \in DOMAIN runs : j # i =>
            /\ runs'[j].values = runs[j].values
            /\ runs'[j].stage \in {runs[j].stage, "behind"}
            /\ runs'[j].stage = "behind" => runs[j].stage \in {"behind", "loading"}
            /\ runs'[j].stage = "loading" => dropIn' = dropIn
  <2>1. ASSUME NEW j \in DOMAIN runs PROVE runs[j] \in RunRecords
    BY <1>1
  <2> QED  BY <1>1, <2>1 DEF RunRecords
<1>4. /\ runs' \in Seq(RunRecords) /\ Len(runs') <= MaxRuns
      /\ DOMAIN runs' = DOMAIN runs
  <2> HIDE DEF After
  <2>1. DOMAIN runs = 1..Len(runs) /\ Len(runs) \in Nat
    BY <1>1
  <2>2. runs' \in [1..Len(runs) -> RunRecords]
    BY <1>1, <1>2, <2>1
  <2> QED  BY <1>1, <2>1, <2>2
<1> HIDE DEF After
<1>5. ASSUME NEW n \in DOMAIN runs PROVE RunFits(n)'
  BY <1>1, <1>3 DEF SysctlInv, RunFits
<1>6. Covered'
  BY <1>3, <1>4 DEF Covered, Unset
<1>7. \A n \in DOMAIN runs : runs[n].stage = "heard" => runs'[n].stage = "heard"
  BY <1>1, <1>3
<1> QED
  BY <1>1, <1>4, <1>5, <1>6, <1>7, HostStep DEF SysctlInv, SysctlTypeOK

\* A parameter that is set is that of the file, or stained.
LEMMA KeyStep ==
    ASSUME SysctlInv, NEW i \in DOMAIN runs, NEW k \in Keys, SetKey(i, k)
    PROVE  SysctlInv'
<1> DEFINE left == [x \in DOMAIN runs[i].values \ {k} |-> runs[i].values[x]]
           s == runs[i].stage
<1>1. /\ s \in Loading /\ k \in DOMAIN runs[i].values /\ Move(i, s, left)
      /\ kernel' = [kernel EXCEPT ![k] = runs[i].values[k]]
      /\ stained' = IF s = "behind" THEN stained \cup {k} ELSE stained \ {k}
      /\ dropIn' = dropIn /\ UNCHANGED panelVars
  BY DEF SetKey
<1>2. /\ runs[i].values \in Partial /\ s \in Fates \ {"sent", "wrote", "heard"}
      /\ kernel \in [Keys -> Settings] /\ stained \subseteq Keys
  BY <1>1, RunOf DEF SysctlInv, SysctlTypeOK, Full, Fates, Unfinished, Loading
<1>3. left \in Partial
  BY <1>2, LeftIsPartial
<1>4. runs[i].values[k] \in Settings
  BY <1>1, <1>2 DEF Partial
<1>5. kernel' \in Full
  BY <1>1, <1>2, <1>4 DEF Full
<1>6. s = "loading" =>
        dropIn \in Full /\ \A x \in DOMAIN runs[i].values : runs[i].values[x] = dropIn[x]
  BY DEF SysctlInv, RunFits
<1>7. /\ DOMAIN runs' = DOMAIN runs
      /\ \A n \in DOMAIN runs : n # i => runs'[n] = runs[n]
      /\ runs'[i].stage = s /\ runs'[i].values = left
  BY <1>1, <1>2, <1>3, RunReached
<1>8. \A x \in Keys \ {k} : kernel'[x] = kernel[x]
  BY <1>1, <1>2
<1>9. kernel'[k] = runs[i].values[k]
  BY <1>1, <1>2
<1>10. DOMAIN left = DOMAIN runs[i].values \ {k} /\ \A x \in DOMAIN left : left[x] = runs[i].values[x]
  OBVIOUS
<1> HIDE DEF left
<1>11. Covered'
  <2>1. CASE s = "behind"
    <3>1. Unset(i) = {}
      BY <2>1 DEF Unset
    <3> QED  BY <1>1, <1>7, <1>8, <2>1, <3>1, CoveredStays
  <2>2. CASE s = "loading"
    <3>1. kernel'[k] = dropIn[k]
      BY <1>1, <1>6, <1>9, <2>2
    <3>2. Unset(i) = DOMAIN runs[i].values /\ Unset(i)' = DOMAIN left
      BY <1>7, <2>2 DEF Unset
    <3>3. \A x \in Unset(i) : x \in Unset(i)' \/ kernel'[x] = dropIn[x]
      BY <1>10, <3>1, <3>2
    <3>4. stained' = stained \ {k}
      BY <1>1, <2>2
    <3>5. \A x \in Keys : kernel'[x] \in {kernel[x], dropIn[x]}
      BY <1>8, <3>1
    <3> QED  BY <1>1, <1>7, <3>1, <3>3, <3>4, <3>5, CoveredStays
  <2> QED  BY <1>1, <2>1, <2>2 DEF Loading
<1>12. s = "loading" => dropIn \in Full /\ \A x \in DOMAIN left : left[x] = dropIn[x]
  BY <1>6, <1>10
<1>13. stained' \subseteq Keys
  BY <1>1, <1>2
<1> QED  BY <1>1, <1>2, <1>3, <1>5, <1>11, <1>12, <1>13, MoveStep

\* The host is left alone, and what a run gives up of the file is stained.
LEMMA EndStep ==
    ASSUME SysctlInv, NEW i \in DOMAIN runs, NEW s \in Fates \ Unfinished,
           RunTo(i, s), UNCHANGED <<kernel, dropIn>>,
           stained' \subseteq Keys, stained \cup Unset(i) \subseteq stained'
    PROVE  Covered'
<1>1. Move(i, s, Nothing)
  BY DEF RunTo
<1>2. /\ DOMAIN runs' = DOMAIN runs
      /\ \A n \in DOMAIN runs : n # i => runs'[n] = runs[n]
  BY <1>1, NothingIsPartial, RunReached
<1> QED  BY <1>2, CoveredStays

LEMMA UnsetIsKeys ==
    ASSUME SysctlInv, NEW i \in DOMAIN runs PROVE Unset(i) \subseteq Keys
  BY RunOf, PartialDomain DEF SysctlInv, Unset

LEMMA PlaybookStep ==
    ASSUME SysctlInv, NEW i \in DOMAIN runs,
           RefuseRun(i) \/ OpenFile(i) \/ EndLoad(i) \/ FailLoad(i)
    PROVE  SysctlInv'
<1>0. /\ kernel \in Full /\ dropIn \in Full \cup {Nothing} /\ stained \subseteq Keys
      /\ Nothing \in Partial /\ Unset(i) \subseteq Keys
  BY NothingIsPartial, UnsetIsKeys DEF SysctlInv, SysctlTypeOK
<1> USE DEF Fates, Unfinished, Loading
<1>1. CASE RefuseRun(i)
  <2>1. /\ RunTo(i, "denied") /\ runs[i].stage = "sent"
        /\ UNCHANGED <<kernel, dropIn, stained>> /\ UNCHANGED panelVars
    BY <1>1 DEF RefuseRun, sysctlHost
  <2>2. Unset(i) = {}
    BY <2>1 DEF Unset
  <2>3. Covered'
    BY <1>0, <2>1, <2>2, EndStep
  <2> QED  BY <1>0, <2>1, <2>3, MoveStep DEF RunTo
<1>2. CASE OpenFile(i)
  <2>1. /\ Move(i, "loading", dropIn) /\ runs[i].stage = "wrote"
        /\ UNCHANGED <<kernel, dropIn, stained>> /\ UNCHANGED panelVars
        /\ dropIn \in Full
    BY <1>2 DEF OpenFile, sysctlHost, SysctlInv, RunFits
  <2>2. dropIn \in Partial /\ DOMAIN dropIn = Keys
    BY <2>1, FullIsPartial DEF Full
  <2>3. /\ DOMAIN runs' = DOMAIN runs
        /\ \A n \in DOMAIN runs : n # i => runs'[n] = runs[n]
        /\ runs'[i].stage = "loading" /\ runs'[i].values = dropIn
    BY <2>1, <2>2, RunReached
  <2>4. Unset(i)' = Keys
    BY <2>2, <2>3 DEF Unset
  <2>5. Covered'
    BY <1>0, <2>1, <2>3, <2>4, CoveredStays
  <2> QED  BY <1>0, <2>1, <2>2, <2>5, MoveStep
<1>3. CASE EndLoad(i)
  <2>1. /\ RunTo(i, "loaded") /\ runs[i].stage \in Loading /\ runs[i].values = Nothing
        /\ UNCHANGED <<kernel, dropIn, stained>> /\ UNCHANGED panelVars
    BY <1>3 DEF EndLoad, sysctlHost
  <2>2. Unset(i) = {}
    BY <2>1 DEF Unset, Nothing
  <2>3. Covered'
    BY <1>0, <2>1, <2>2, EndStep
  <2> QED  BY <1>0, <2>1, <2>3, MoveStep DEF RunTo
<1>4. CASE FailLoad(i)
  <2>1. /\ RunTo(i, "failed") /\ runs[i].stage \in Loading \cup {"wrote"}
        /\ stained' = stained \cup Unset(i)
        /\ UNCHANGED <<kernel, dropIn>> /\ UNCHANGED panelVars
    BY <1>4 DEF FailLoad
  <2>2. Covered'
    BY <1>0, <2>1, EndStep
  <2> QED  BY <1>0, <2>1, <2>2, MoveStep DEF RunTo
<1> QED  BY <1>1, <1>2, <1>3, <1>4

\* The two steps of a request that the panel has a part in.
LEMMA CutStep ==
    ASSUME SysctlInv, NEW i \in DOMAIN runs, CutRun(i) PROVE SysctlInv'
<1>1. /\ RunTo(i, "cut") /\ stained' = stained \cup Unset(i)
      /\ UNCHANGED <<kernel, dropIn, report>>
  BY DEF CutRun
<1>2. /\ runs' \in Seq(RunRecords) /\ Len(runs') <= MaxRuns
      /\ DOMAIN runs' = DOMAIN runs
      /\ \A n \in DOMAIN runs : n # i => runs'[n] = runs[n]
      /\ runs'[i].stage = "cut"
  BY <1>1, NothingIsPartial, RunReached DEF RunTo, Fates
<1>3. stained' \subseteq Keys
  BY <1>1, UnsetIsKeys DEF SysctlInv, SysctlTypeOK
<1>4. SysctlTypeOK'
  BY <1>1, <1>2, <1>3, NothingIsPartial DEF CutRun, SysctlInv, SysctlTypeOK, RunRecords
<1>5. \A n \in DOMAIN runs : RunFits(n)'
  BY <1>1, <1>2 DEF SysctlInv, RunFits
<1>6. Covered'
  BY <1>1, <1>3, EndStep DEF Fates, Unfinished, Loading
<1> QED
  BY <1>2, <1>4, <1>5, <1>6 DEF CutRun, SysctlInv, AppliedIsTrue

LEMMA AnswerStep ==
    ASSUME SysctlInv, NEW i \in DOMAIN runs, Answered(i) PROVE SysctlInv'
<1>1. /\ RunTo(i, "heard") /\ runs[i].stage = "loaded" /\ report' = kernel
      /\ UNCHANGED <<sysctlHost, panel, prompt, lateVars, upload, ours>>
      /\ \/ i \in ours /\ edits' = Nothing /\ applied' = TRUE
         \/ UNCHANGED <<edits, applied>>
  BY DEF Answered
<1>2. /\ runs' \in Seq(RunRecords) /\ Len(runs') <= MaxRuns
      /\ DOMAIN runs' = DOMAIN runs
      /\ \A n \in DOMAIN runs : n # i => runs'[n] = runs[n]
      /\ runs'[i].stage = "heard"
  BY <1>1, NothingIsPartial, RunReached DEF RunTo, Fates
<1>3. SysctlTypeOK'
  BY <1>1, <1>2, NothingIsPartial DEF SysctlInv, SysctlTypeOK, sysctlHost,
     lateVars, RunRecords
<1>4. \A n \in DOMAIN runs : RunFits(n)'
  BY <1>1, <1>2 DEF SysctlInv, RunFits, sysctlHost
<1>5. Covered'
  <2>1. Unset(i) = {} /\ stained' = stained /\ stained \subseteq Keys
    BY <1>1 DEF Unset, sysctlHost, SysctlInv, SysctlTypeOK
  <2> QED
    BY <1>1, <2>1, EndStep DEF sysctlHost, Fates, Unfinished, Loading
<1>6. AppliedIsTrue'
  BY <1>1, <1>2 DEF SysctlInv, SysctlTypeOK, AppliedIsTrue
<1> QED
  BY <1>1, <1>2, <1>3, <1>4, <1>5, <1>6 DEF SysctlInv, sysctlHost, lateVars

LEMMA SysctlStep == ASSUME SysctlInv, [SysctlNext]_sysctlVars PROVE SysctlInv'
<1>1. CASE UnsentStep
  BY <1>1, UnsentStepKeeps
<1>2. CASE PasswordChecked \/ CheckedLate
  BY <1>2, SendStep
<1>3. ASSUME NEW i \in DOMAIN runs,
             \/ RefuseRun(i) \/ WriteFile(i) \/ OpenFile(i)
             \/ (\E k \in Keys : SetKey(i, k))
             \/ EndLoad(i) \/ FailLoad(i) \/ CutRun(i) \/ Answered(i)
      PROVE  SysctlInv'
  BY <1>3, FileStep, KeyStep, PlaybookStep, CutStep, AnswerStep
<1>4. CASE UNCHANGED sysctlVars
  BY <1>4, RunsUntouched DEF sysctlVars, panelVars, lateVars, SysctlInv, SysctlTypeOK
<1> QED
  BY <1>1, <1>2, <1>3, <1>4 DEF SysctlNext, PanelStep, UnsentStep

LEMMA SysctlInvariant == SysctlSpec => []SysctlInv
  BY SysctlInitially, SysctlStep, PTL DEF SysctlSpec

\* Every value that is shown, sent, written or loaded is one of this kernel's
\* parameters and of its values, whatever files are read and runs cut off.
THEOREM SysctlTypeCorrect == SysctlSpec => []SysctlTypeOK
<1>1. SysctlInv => SysctlTypeOK
  BY DEF SysctlInv
<1> QED  BY <1>1, SysctlInvariant, PTL

\* Once no playbook has the drop-in file to load, the live values are those the
\* host boots with, but for a parameter last set from a file that was replaced
\* while it was loaded, or given up by a load that failed or was cut off: for
\* any parameters and any number of overlapping applies (sysctl.yml:27-36,
\* sysctl.go:95).
THEOREM KernelFollowsDropIn == SysctlSpec => []KernelIsDropIn
<1>1. SysctlInv => KernelIsDropIn
  BY DEF SysctlInv, Covered, Unset, KernelIsDropIn
<1> QED  BY <1>1, SysctlInvariant, PTL

\* The panel says "Settings applied." only after an apply of its own that went
\* through, and with no changed value left (sysctl-modal.tsx:121-132).
THEOREM AppliedIsReported == SysctlSpec => []AppliedIsTrue
<1>1. SysctlInv => AppliedIsTrue
  BY DEF SysctlInv
<1> QED  BY <1>1, SysctlInvariant, PTL

-----------------------------------------------------------------------------
(* The runner.  What a reader has, what is in its pipe and what was written *)
(* are related by reading on: from the lines handed on and the part held,   *)
(* chunk by chunk of the pipe, to the lines written and the open one.       *)

ScanStates == [lines : Seq(Nat), part : Nat]

\* What a chunk makes of the lines so far, and the lines with the open one.
Scan(st, ends) ==
    IF ends THEN [lines |-> Append(st.lines, st.part + 1), part |-> 0]
            ELSE [lines |-> st.lines, part |-> st.part + 1]

AllLines(st) == IF st.part = 0 THEN st.lines ELSE Append(st.lines, st.part)

Begins(p, q) == Len(p) <= Len(q) /\ \A i \in 1..Len(p) : p[i] = q[i]

\* The next line of the later state is as long as the part at least.
Leads(st, end) ==
    /\ Begins(st.lines, end.lines)
    /\ st.part > 0 => /\ Len(st.lines) < Len(AllLines(end))
                      /\ st.part <= AllLines(end)[Len(st.lines) + 1]

Replays(f, chunks, st, end) ==
    /\ f \in [0..Len(chunks) -> ScanStates]
    /\ f[0] = st /\ f[Len(chunks)] = end
    /\ \A i \in 1..Len(chunks) : f[i] = Scan(f[i - 1], chunks[i])
    /\ \A i \in 0..Len(chunks) : Leads(f[i], end)

ReadsOn(chunks, st, end) == \E f : Replays(f, chunks, st, end)

LEMMA ScanStays ==
    ASSUME NEW st \in ScanStates, NEW ends \in BOOLEAN
    PROVE  /\ Scan(st, ends) \in ScanStates /\ AllLines(st) \in Seq(Nat)
           /\ st.lines \in Seq(Nat) /\ st.part \in Nat
BY DEF ScanStates, Scan, AllLines

LEMMA LeadsItself == ASSUME NEW st \in ScanStates PROVE Leads(st, st)
<1>1. st.lines \in Seq(Nat) /\ st.part \in Nat
  BY DEF ScanStates
<1> QED  BY <1>1 DEF Leads, Begins, AllLines

LEMMA BeginsOn ==
    ASSUME NEW p \in Seq(Nat), NEW q \in Seq(Nat), NEW r \in Seq(Nat),
           Begins(p, q), Begins(q, r)
    PROVE  Begins(p, r)
<1>1. Len(p) \in Nat /\ Len(q) \in Nat /\ Len(r) \in Nat
  OBVIOUS
<1>2. ASSUME NEW i \in 1..Len(p) PROVE p[i] = r[i]
  <2>1. i \in 1..Len(q)
    BY <1>1 DEF Begins
  <2> QED  BY <2>1 DEF Begins
<1>3. Len(p) <= Len(r)
  BY <1>1 DEF Begins
<1> QED  BY <1>2, <1>3 DEF Begins

LEMMA LeadsFurther ==
    ASSUME NEW st \in ScanStates, NEW end \in ScanStates, NEW ends \in BOOLEAN,
           Leads(st, end)
    PROVE  Leads(st, Scan(end, ends))
<1> DEFINE next == Scan(end, ends)
<1>1. st.lines \in Seq(Nat) /\ st.part \in Nat /\ end.lines \in Seq(Nat) /\ end.part \in Nat
  BY DEF ScanStates
<1>2. Begins(end.lines, next.lines)
  BY <1>1 DEF Scan, Begins
<1>3. Begins(st.lines, next.lines)
  <2>1. next.lines \in Seq(Nat)
    BY ScanStays
  <2>2. Begins(st.lines, end.lines)
    BY DEF Leads
  <2> HIDE DEF next
  <2> QED  BY <1>1, <1>2, <2>1, <2>2, BeginsOn
<1>4. /\ Len(AllLines(end)) <= Len(AllLines(next))
      /\ \A i \in 1..Len(AllLines(end)) : AllLines(end)[i] <= AllLines(next)[i]
  <2>1. AllLines(next) = Append(end.lines, end.part + 1)
    BY <1>1 DEF Scan, AllLines
  <2>2. CASE end.part = 0
    <3>1. AllLines(end) = end.lines
      BY <2>2 DEF AllLines
    <3>2. \A i \in 1..Len(end.lines) :
             end.lines[i] \in Nat /\ Append(end.lines, end.part + 1)[i] = end.lines[i]
      BY <1>1
    <3>3. Len(Append(end.lines, end.part + 1)) = Len(end.lines) + 1
      BY <1>1
    <3> HIDE DEF next
    <3> QED  BY <1>1, <2>1, <3>1, <3>2, <3>3
  <2>3. CASE end.part # 0
    <3>1. AllLines(end) = Append(end.lines, end.part)
      BY <2>3 DEF AllLines
    <3>2. ASSUME NEW i \in 1..(Len(end.lines) + 1)
          PROVE  Append(end.lines, end.part)[i] <= Append(end.lines, end.part + 1)[i]
      <4>1. CASE i = Len(end.lines) + 1
        BY <1>1, <4>1
      <4>2. CASE i \in 1..Len(end.lines)
        <5>1. end.lines[i] \in Nat
          BY <1>1, <4>2
        <5> QED  BY <1>1, <4>2, <5>1
      <4> QED  BY <1>1, <4>1, <4>2
    <3>3. /\ Len(Append(end.lines, end.part)) = Len(end.lines) + 1
          /\ Len(Append(end.lines, end.part + 1)) = Len(end.lines) + 1
      BY <1>1
    <3> HIDE DEF next
    <3> QED  BY <2>1, <3>1, <3>2, <3>3
  <2> QED  BY <2>2, <2>3
<1>5. AllLines(end) \in Seq(Nat) /\ AllLines(next) \in Seq(Nat)
  BY ScanStays
<1>6. ASSUME st.part > 0
      PROVE  /\ Len(st.lines) < Len(AllLines(next))
             /\ st.part <= AllLines(next)[Len(st.lines) + 1]
  <2>1. /\ Len(st.lines) < Len(AllLines(end))
        /\ st.part <= AllLines(end)[Len(st.lines) + 1]
    BY <1>6 DEF Leads
  <2>2. Len(st.lines) + 1 \in 1..Len(AllLines(end))
    BY <1>1, <1>5, <2>1
  <2> HIDE DEF next
  <2> QED  BY <1>1, <1>4, <1>5, <2>1, <2>2
<1> QED  BY <1>3, <1>6 DEF Leads

LEMMA NothingToRead ==
    ASSUME NEW st \in ScanStates PROVE ReadsOn(<<>>, st, st)
<1> DEFINE f == [i \in 0..0 |-> st]
<1>1. Replays(f, <<>>, st, st)
  BY LeadsItself DEF Replays
<1> QED  BY <1>1 DEF ReadsOn

LEMMA ReadsOnWritten ==
    ASSUME NEW chunks \in Seq(BOOLEAN), NEW st, NEW end \in ScanStates,
           NEW ends \in BOOLEAN, ReadsOn(chunks, st, end)
    PROVE  ReadsOn(Append(chunks, ends), st, Scan(end, ends))
<1>1. PICK f : Replays(f, chunks, st, end)
  BY DEF ReadsOn
<1> DEFINE n    == Len(chunks)
           more == Append(chunks, ends)
           next == Scan(end, ends)
           g    == [i \in 0..(n + 1) |-> IF i = n + 1 THEN next ELSE f[i]]
<1>2. n \in Nat /\ Len(more) = n + 1 /\ more[n + 1] = ends /\ \A i \in 1..n : more[i] = chunks[i]
  OBVIOUS
<1>3. next \in ScanStates
  BY ScanStays
<1>4. \A i \in 0..n : f[i] \in ScanStates
  BY <1>1 DEF Replays
<1> HIDE DEF n, more, next
<1>5. g \in [0..Len(more) -> ScanStates]
  BY <1>2, <1>3, <1>4
<1>6. g[0] = st /\ g[Len(more)] = next
  BY <1>1, <1>2 DEF Replays, n
<1>7. ASSUME NEW i \in 1..Len(more) PROVE g[i] = Scan(g[i - 1], more[i])
  <2>1. CASE i = n + 1
    <3>1. g[i] = next /\ g[i - 1] = f[n] /\ more[i] = ends
      BY <1>2, <2>1
    <3>2. f[n] = end
      BY <1>1 DEF Replays, n
    <3> QED  BY <3>1, <3>2 DEF next
  <2>2. CASE i \in 1..n
    <3>1. g[i] = f[i] /\ g[i - 1] = f[i - 1] /\ more[i] = chunks[i]
      BY <1>2, <2>2
    <3> QED  BY <1>1, <2>2, <3>1 DEF Replays, n
  <2> QED  BY <1>2, <2>1, <2>2
<1>8. ASSUME NEW i \in 0..Len(more) PROVE Leads(g[i], next)
  <2>1. CASE i = n + 1
    BY <1>2, <1>3, <2>1, LeadsItself
  <2>2. CASE i \in 0..n
    <3>1. g[i] = f[i] /\ f[i] \in ScanStates /\ Leads(f[i], end)
      BY <1>1, <1>2, <1>4, <2>2 DEF Replays, n
    <3> QED  BY <3>1, LeadsFurther DEF next
  <2> QED  BY <1>2, <2>1, <2>2
<1>9. Replays(g, more, st, next)
  <2> HIDE DEF g
  <2> QED  BY <1>5, <1>6, <1>7, <1>8 DEF Replays
<1> QED  BY <1>9 DEF ReadsOn, more, next

LEMMA ReadsOnTaken ==
    ASSUME NEW chunks \in Seq(BOOLEAN), chunks # <<>>, NEW st, NEW end,
           ReadsOn(chunks, st, end)
    PROVE  ReadsOn(Tail(chunks), Scan(st, Head(chunks)), end)
<1>1. PICK f : Replays(f, chunks, st, end)
  BY DEF ReadsOn
<1> DEFINE n    == Len(chunks)
           rest == Tail(chunks)
           g    == [i \in 0..(n - 1) |-> f[i + 1]]
<1>2. /\ n \in Nat \ {0} /\ Len(rest) = n - 1 /\ Head(chunks) = chunks[1]
      /\ \A i \in 1..(n - 1) : rest[i] = chunks[i + 1]
  OBVIOUS
<1> HIDE DEF n, rest
<1>3. \A i \in 0..n : f[i] \in ScanStates /\ Leads(f[i], end)
  BY <1>1 DEF Replays, n
<1>4. \A i \in 1..n : f[i] = Scan(f[i - 1], chunks[i])
  BY <1>1 DEF Replays, n
<1>5. g \in [0..Len(rest) -> ScanStates]
  BY <1>2, <1>3
<1>6. g[0] = Scan(st, Head(chunks)) /\ g[Len(rest)] = end
  <2>1. g[0] = f[1] /\ f[1] = Scan(f[0], chunks[1]) /\ f[0] = st
    BY <1>1, <1>2, <1>4 DEF Replays
  <2>2. g[n - 1] = f[n] /\ f[n] = end
    BY <1>1, <1>2 DEF Replays, n
  <2> QED  BY <1>2, <2>1, <2>2
<1>7. ASSUME NEW i \in 1..Len(rest) PROVE g[i] = Scan(g[i - 1], rest[i])
  <2>1. i \in 1..(n - 1) /\ i + 1 \in 1..n /\ (i + 1) - 1 = i /\ i - 1 \in 0..(n - 1)
        /\ (i - 1) + 1 = i
    BY <1>2, <1>7
  <2>2. g[i] = f[i + 1] /\ g[i - 1] = f[i] /\ rest[i] = chunks[i + 1]
    BY <1>2, <2>1
  <2>3. f[i + 1] = Scan(f[i], chunks[i + 1])
    BY <1>4, <2>1
  <2> QED  BY <2>2, <2>3
<1>8. \A i \in 0..Len(rest) : Leads(g[i], end)
  BY <1>2, <1>3
<1>9. Replays(g, rest, Scan(st, Head(chunks)), end)
  <2> HIDE DEF g
  <2> QED  BY <1>5, <1>6, <1>7, <1>8 DEF Replays
<1> QED  BY <1>9 DEF ReadsOn, rest

LEMMA ReadsOnFacts ==
    ASSUME NEW chunks \in Seq(BOOLEAN), NEW st, NEW end, ReadsOn(chunks, st, end)
    PROVE  Leads(st, end) /\ (chunks = <<>> => st = end)
<1>1. PICK f : Replays(f, chunks, st, end)
  BY DEF ReadsOn
<1>2. Len(chunks) \in Nat /\ (chunks = <<>> => Len(chunks) = 0)
  OBVIOUS
<1> QED  BY <1>1, <1>2 DEF Replays

\* Of a stream: reading on from what the reader has gives what was written.
Scanned(s) == [lines |-> logged[s], part |-> held[s]]

StreamInv(s) ==
    \E end \in ScanStates :
        /\ outputs[s] = AllLines(end) /\ (open[s] <=> end.part # 0)
        /\ ReadsOn(pipe[s], Scanned(s), end)

RunnerInv ==
    /\ RunnerTypeOK
    /\ \A s \in Streams :
          /\ reader[s] # "done" => StreamInv(s)
          /\ reader[s] = "done" => logged[s] = outputs[s] /\ child # "running"
          /\ reader[s] = "stopped" <=> held[s] = MaxToken
          /\ child = "none" => /\ logged[s] = <<>> /\ outputs[s] = <<>>
                               /\ reader[s] = "reading"
          /\ run = "returned" /\ child # "none" => reader[s] # "reading"
    /\ run \in {"idle", "prepare"} => child = "none"
    /\ child = "running" => run = "reading"
    /\ run = "reading" => child # "none"
    /\ run = "returned" => ~passFile /\ (runError <=> child # "succeeded")
    /\ writing # "none" => printed < MaxChunks /\ child = "running"

LEMMA RunnerFacts ==
    ASSUME RunnerTypeOK, NEW s \in Streams
    PROVE  /\ pipe[s] \in Seq(BOOLEAN) /\ Len(pipe[s]) <= PipeSize
           /\ outputs[s] \in Seq(Nat) /\ open[s] \in BOOLEAN
           /\ reader[s] \in {"reading", "done", "stopped"}
           /\ held[s] \in 0..MaxToken /\ logged[s] \in Seq(Nat)
           /\ Scanned(s) \in ScanStates
           /\ PipeSize \in Nat \ {0} /\ MaxToken \in Nat \ {0} /\ MaxChunks \in Nat
<1>1. PipeSize \in Nat \ {0} /\ MaxToken \in Nat \ {0} /\ MaxChunks \in Nat
  BY RunnerAssumption
<1>2. /\ pipe[s] \in Seq(BOOLEAN) /\ Len(pipe[s]) <= PipeSize
      /\ outputs[s] \in Seq(Nat) /\ open[s] \in BOOLEAN /\ logged[s] \in Seq(Nat)
  BY DEF RunnerTypeOK
<1>3. reader[s] \in {"reading", "done", "stopped"} /\ held[s] \in 0..MaxToken
  BY DEF RunnerTypeOK
<1>4. Scanned(s) \in ScanStates
  BY <1>1, <1>2, <1>3 DEF Scanned, ScanStates
<1> QED  BY <1>1, <1>2, <1>3, <1>4

LEMMA RunnerInitially == RunnerInit => RunnerInv
<1> SUFFICES ASSUME RunnerInit PROVE RunnerInv
  OBVIOUS
<1>1. RunnerTypeOK
  <2>1. PipeSize \in Nat /\ MaxToken \in Nat /\ MaxChunks \in Nat
    BY RunnerAssumption
  <2>2. <<>> \in Seq(BOOLEAN) /\ Len(<<>>) = 0 /\ <<>> \in Seq(Nat)
    OBVIOUS
  <2>3. /\ pipe \in [Streams -> Seq(BOOLEAN)] /\ logged \in [Streams -> Seq(Nat)]
        /\ outputs \in [Streams -> Seq(Nat)]
    BY <2>2 DEF RunnerInit
  <2>4. \A s \in Streams : Len(pipe[s]) <= PipeSize
    BY <2>1, <2>2 DEF RunnerInit
  <2>5. /\ open \in [Streams -> BOOLEAN] /\ held \in [Streams -> 0..MaxToken]
        /\ reader \in [Streams -> {"reading", "done", "stopped"}] /\ printed \in 0..MaxChunks
    BY <2>1 DEF RunnerInit
  <2> QED  BY <2>3, <2>4, <2>5 DEF RunnerInit, RunnerTypeOK
<1>2. ASSUME NEW s \in Streams PROVE StreamInv(s)
  <2> DEFINE none == [lines |-> <<>>, part |-> 0]
  <2>1. none \in ScanStates /\ AllLines(none) = <<>>
    BY DEF ScanStates, AllLines
  <2>2. pipe[s] = <<>> /\ Scanned(s) = none /\ outputs[s] = <<>> /\ open[s] = FALSE
    BY DEF RunnerInit, Scanned
  <2>3. ReadsOn(<<>>, none, none)
    BY <2>1, NothingToRead
  <2>4. none.part = 0
    OBVIOUS
  <2> HIDE DEF none
  <2> QED  BY <2>1, <2>2, <2>3, <2>4 DEF StreamInv
<1> QED  BY <1>1, <1>2, RunnerAssumption DEF RunnerInit, RunnerInv

\* The streams that a step leaves alone.
SameStream(s) ==
    /\ pipe'[s] = pipe[s] /\ outputs'[s] = outputs[s] /\ open'[s] = open[s]
    /\ held'[s] = held[s] /\ logged'[s] = logged[s]

LEMMA StreamKept ==
    ASSUME NEW s, StreamInv(s), SameStream(s) PROVE StreamInv(s)'
BY DEF StreamInv, SameStream, Scanned

\* A chunk is written.
LEMMA StreamWritten ==
    ASSUME NEW s \in Streams, RunnerTypeOK, StreamInv(s), NEW ends \in BOOLEAN,
           pipe'[s] = Append(pipe[s], ends), open'[s] <=> ~ends,
           outputs'[s] = Grown(s), held'[s] = held[s], logged'[s] = logged[s]
    PROVE  StreamInv(s)'
<1>1. PICK end \in ScanStates :
        /\ outputs[s] = AllLines(end) /\ (open[s] <=> end.part # 0)
        /\ ReadsOn(pipe[s], Scanned(s), end)
  BY DEF StreamInv
<1> DEFINE next == Scan(end, ends)
<1>2. next \in ScanStates /\ end.lines \in Seq(Nat) /\ end.part \in Nat
  BY ScanStays DEF ScanStates
<1>3. outputs'[s] = Append(end.lines, end.part + 1)
  <2>1. CASE end.part = 0
    <3>1. outputs[s] = end.lines /\ ~open[s] /\ end.part + 1 = 1
      BY <1>1, <1>2, <2>1 DEF AllLines
    <3> QED  BY <3>1 DEF Grown
  <2>2. CASE end.part # 0
    <3>1. outputs[s] = Append(end.lines, end.part) /\ open[s]
      BY <1>1, <2>2 DEF AllLines
    <3> DEFINE longer == [outputs[s] EXCEPT ![Len(outputs[s])] = @ + 1]
               wanted == Append(end.lines, end.part + 1)
    <3>2. /\ Len(outputs[s]) = Len(end.lines) + 1 /\ Len(end.lines) \in Nat
          /\ outputs[s] \in Seq(Nat) /\ outputs[s][Len(end.lines) + 1] = end.part
          /\ \A i \in 1..Len(end.lines) : outputs[s][i] = end.lines[i]
      BY <1>2, <3>1
    <3>3. /\ wanted \in Seq(Nat) /\ Len(wanted) = Len(end.lines) + 1
          /\ wanted[Len(end.lines) + 1] = end.part + 1
          /\ \A i \in 1..Len(end.lines) : wanted[i] = end.lines[i]
      BY <1>2
    <3>4. longer \in Seq(Nat) /\ Len(longer) = Len(end.lines) + 1
      BY <1>2, <3>2
    <3>5. \A i \in 1..(Len(end.lines) + 1) : longer[i] = wanted[i]
      BY <1>2, <3>2, <3>3
    <3>6. longer = wanted
      <4> HIDE DEF longer, wanted
      <4>1. /\ longer \in [1..(Len(end.lines) + 1) -> Nat]
            /\ wanted \in [1..(Len(end.lines) + 1) -> Nat]
        BY <3>3, <3>4
      <4> QED  BY <3>5, <4>1
    <3>7. outputs'[s] = longer
      BY <3>1 DEF Grown
    <3> QED  BY <3>6, <3>7
  <2> QED  BY <2>1, <2>2
<1>4. AllLines(next) = Append(end.lines, end.part + 1) /\ (~ends <=> next.part # 0)
  BY <1>2 DEF Scan, AllLines
<1>5. ReadsOn(Append(pipe[s], ends), Scanned(s), next)
  BY <1>1, ReadsOnWritten, RunnerFacts
<1>6. Scanned(s)' = Scanned(s)
  BY DEF Scanned
<1> HIDE DEF next
<1> QED  BY <1>2, <1>3, <1>4, <1>5, <1>6 DEF StreamInv

\* A chunk is read.
LEMMA StreamRead ==
    ASSUME NEW s \in Streams, RunnerTypeOK, StreamInv(s), pipe[s] # <<>>,
           pipe'[s] = Tail(pipe[s]), outputs'[s] = outputs[s], open'[s] = open[s],
           Scanned(s)' = Scan(Scanned(s), Head(pipe[s]))
    PROVE  StreamInv(s)'
<1>1. PICK end \in ScanStates :
        /\ outputs[s] = AllLines(end) /\ (open[s] <=> end.part # 0)
        /\ ReadsOn(pipe[s], Scanned(s), end)
  BY DEF StreamInv
<1>2. ReadsOn(Tail(pipe[s]), Scan(Scanned(s), Head(pipe[s])), end)
  BY <1>1, ReadsOnTaken, RunnerFacts
<1> QED  BY <1>1, <1>2 DEF StreamInv

\* What is handed on at the end of the file is what was written.
LEMMA StreamEnds ==
    ASSUME NEW s \in Streams, RunnerTypeOK, StreamInv(s), pipe[s] = <<>>
    PROVE  outputs[s] = IF held[s] = 0 THEN logged[s] ELSE Append(logged[s], held[s])
<1>1. PICK end \in ScanStates :
        outputs[s] = AllLines(end) /\ ReadsOn(pipe[s], Scanned(s), end)
  BY DEF StreamInv
<1>2. Scanned(s) = end
  BY <1>1, ReadsOnFacts, RunnerFacts
<1> QED  BY <1>1, <1>2 DEF AllLines, Scanned

LEMMA WriteStep == ASSUME RunnerInv, WriteChunk PROVE RunnerInv'
<1> SUFFICES ASSUME NEW w, w = writing PROVE RunnerInv'
  OBVIOUS
<1>1. /\ RunnerTypeOK /\ child = "running" /\ w \in Streams
      /\ Len(pipe[w]) < PipeSize /\ printed \in 0..MaxChunks /\ printed < MaxChunks
  BY DEF RunnerInv, RunnerTypeOK, WriteChunk
<1>2. PICK ends \in BOOLEAN : /\ pipe' = [pipe EXCEPT ![w] = Append(@, ends)]
                              /\ open' = [open EXCEPT ![w] = ~ends]
  BY DEF WriteChunk
<1>3. /\ outputs' = [outputs EXCEPT ![w] = Grown(w)]
      /\ printed' = printed + 1 /\ writing' = "none"
      /\ UNCHANGED <<run, runError, passFile, child, worker, reader, held, logged>>
  BY DEF WriteChunk, callVars, readerVars
<1>4. reader[w] # "done" /\ StreamInv(w)
  BY <1>1 DEF RunnerInv
<1>5. Grown(w) \in Seq(Nat)
  <2>1. outputs[w] \in Seq(Nat) /\ open[w] \in BOOLEAN
    BY <1>1, RunnerFacts
  <2>2. PICK end \in ScanStates : outputs[w] = AllLines(end) /\ (open[w] <=> end.part # 0)
    BY <1>4 DEF StreamInv
  <2>3. CASE open[w]
    <3>1. outputs[w] = Append(end.lines, end.part) /\ end.lines \in Seq(Nat)
      BY <2>2, <2>3 DEF AllLines, ScanStates
    <3>2. Len(outputs[w]) \in DOMAIN outputs[w] /\ outputs[w][Len(outputs[w])] \in Nat
      BY <2>1, <3>1
    <3> QED  BY <2>1, <2>3, <3>2 DEF Grown
  <2>4. CASE ~open[w]
    BY <2>1, <2>4 DEF Grown
  <2> QED  BY <2>3, <2>4
<1>6. /\ pipe'[w] = Append(pipe[w], ends) /\ (open'[w] <=> ~ends) /\ outputs'[w] = Grown(w)
      /\ \A s \in Streams \ {w} : SameStream(s)
  BY <1>1, <1>2, <1>3 DEF RunnerTypeOK, SameStream
<1>7. RunnerTypeOK'
  <2>1. Append(pipe[w], ends) \in Seq(BOOLEAN) /\ Len(Append(pipe[w], ends)) <= PipeSize
    BY <1>1, RunnerFacts
  <2>2. pipe' \in [Streams -> Seq(BOOLEAN)] /\ \A s \in Streams : Len(pipe'[s]) <= PipeSize
    BY <1>1, <1>2, <2>1 DEF RunnerTypeOK
  <2>3. open' \in [Streams -> BOOLEAN] /\ outputs' \in [Streams -> Seq(Nat)]
    BY <1>1, <1>2, <1>3, <1>5 DEF RunnerTypeOK
  <2>4. printed' \in 0..MaxChunks
    BY <1>1, <1>3, RunnerAssumption
  <2> QED  BY <1>1, <1>3, <2>2, <2>3, <2>4 DEF RunnerTypeOK
<1>8. \A s \in Streams : reader'[s] # "done" => StreamInv(s)'
  <2>1. held'[w] = held[w] /\ logged'[w] = logged[w] /\ reader' = reader
    BY <1>3
  <2>2. StreamInv(w)'
    BY <1>1, <1>4, <1>6, <2>1, StreamWritten
  <2>3. ASSUME NEW s \in Streams, s # w, reader[s] # "done" PROVE StreamInv(s)'
    <3>1. SameStream(s) /\ StreamInv(s)
      BY <1>6, <2>3 DEF RunnerInv
    <3> QED  BY <3>1, StreamKept
  <2> QED  BY <2>1, <2>2, <2>3
<1> QED  BY <1>1, <1>3, <1>6, <1>7, <1>8 DEF RunnerInv

LEMMA ChunksTaken ==
    ASSUME NEW chunks \in Seq(BOOLEAN), chunks # <<>>
    PROVE  /\ Head(chunks) \in BOOLEAN /\ Tail(chunks) \in Seq(BOOLEAN)
           /\ Len(Tail(chunks)) = Len(chunks) - 1 /\ Len(chunks) \in Nat
<1>1. Head(chunks) = chunks[1] /\ 1 \in 1..Len(chunks)
  OBVIOUS
<1>2. Tail(chunks) \in Seq(BOOLEAN)
  OBVIOUS
<1>3. Len(Tail(chunks)) = Len(chunks) - 1 /\ Len(chunks) \in Nat
  OBVIOUS
<1> QED  BY <1>1, <1>2, <1>3

\* What all steps of a reader leave.
ReaderLeaves ==
    UNCHANGED <<run, runError, passFile, child, worker, writing, printed, outputs, open>>

LEMMA ReadStep == ASSUME RunnerInv, NEW s \in Streams, ReadChunk(s) PROVE RunnerInv'
<1>1. /\ RunnerTypeOK /\ run = "reading" /\ reader[s] = "reading" /\ pipe[s] # <<>>
      /\ held[s] < MaxToken /\ child # "none" /\ StreamInv(s)
  <2>1. RunnerTypeOK /\ run = "reading" /\ reader[s] = "reading" /\ pipe[s] # <<>>
    BY DEF RunnerInv, ReadChunk, Reading
  <2>2. held[s] # MaxToken /\ child # "none" /\ StreamInv(s)
    BY <2>1 DEF RunnerInv
  <2>3. held[s] \in 0..MaxToken /\ MaxToken \in Nat
    BY <2>1, RunnerFacts
  <2> QED  BY <2>1, <2>2, <2>3
<1>2. /\ ReaderLeaves /\ pipe' = [pipe EXCEPT ![s] = Tail(@)]
  BY DEF ReadChunk, ReaderLeaves, callVars, childVars
<1>3. pipe[s] \in Seq(BOOLEAN) /\ Head(pipe[s]) \in BOOLEAN /\ Tail(pipe[s]) \in Seq(BOOLEAN)
      /\ Len(Tail(pipe[s])) <= PipeSize
  <2>1. /\ pipe[s] \in Seq(BOOLEAN) /\ pipe[s] # <<>> /\ Len(pipe[s]) <= PipeSize
        /\ PipeSize \in Nat
    BY <1>1, RunnerFacts
  <2>2. /\ Head(pipe[s]) \in BOOLEAN /\ Tail(pipe[s]) \in Seq(BOOLEAN)
        /\ Len(Tail(pipe[s])) = Len(pipe[s]) - 1 /\ Len(pipe[s]) \in Nat
    BY <2>1, ChunksTaken
  <2> QED  BY <2>1, <2>2
<1>4. pipe' \in [Streams -> Seq(BOOLEAN)] /\ \A t \in Streams : Len(pipe'[t]) <= PipeSize
  BY <1>1, <1>2, <1>3 DEF RunnerTypeOK
<1>5. \A t \in Streams \ {s} : SameStream(t) /\ reader'[t] = reader[t]
  BY <1>1, <1>2 DEF ReadChunk, ReaderLeaves, RunnerTypeOK, SameStream
<1>6. /\ reader' \in [Streams -> {"reading", "done", "stopped"}]
      /\ held' \in [Streams -> 0..MaxToken] /\ logged' \in [Streams -> Seq(Nat)]
      /\ reader'[s] \in {"reading", "stopped"}
      /\ reader'[s] = "stopped" <=> held'[s] = MaxToken
      /\ Scanned(s)' = Scan(Scanned(s), Head(pipe[s]))
  <2>0. held[s] \in Nat /\ MaxToken \in Nat \ {0} /\ logged[s] \in Seq(Nat)
    BY <1>1, RunnerFacts
  <2>1. CASE Head(pipe[s])
    <3>1. /\ logged' = [logged EXCEPT ![s] = Append(@, held[s] + 1)]
          /\ held' = [held EXCEPT ![s] = 0] /\ reader' = reader
      BY <2>1 DEF ReadChunk
    <3>2. /\ logged'[s] = Append(logged[s], held[s] + 1) /\ held'[s] = 0
          /\ Append(logged[s], held[s] + 1) \in Seq(Nat)
      BY <1>1, <2>0, <3>1 DEF RunnerTypeOK
    <3>3. Scanned(s)' = Scan(Scanned(s), Head(pipe[s]))
      BY <2>1, <3>2 DEF Scanned, Scan
    <3> QED  BY <1>1, <2>0, <3>1, <3>2, <3>3 DEF RunnerTypeOK
  <2>2. CASE ~Head(pipe[s])
    <3>1. /\ held' = [held EXCEPT ![s] = @ + 1] /\ logged' = logged
          /\ reader' = [reader EXCEPT ![s] = IF held'[s] = MaxToken THEN "stopped" ELSE @]
      BY <2>2 DEF ReadChunk
    <3>2. held'[s] = held[s] + 1 /\ held[s] + 1 \in 0..MaxToken
      BY <1>1, <2>0, <3>1 DEF RunnerTypeOK
    <3>3. Scanned(s)' = Scan(Scanned(s), Head(pipe[s]))
      BY <2>2, <3>1, <3>2 DEF Scanned, Scan
    <3> QED  BY <1>1, <3>1, <3>2, <3>3 DEF RunnerTypeOK
  <2> QED  BY <1>3, <2>1, <2>2
<1>7. RunnerTypeOK'
  BY <1>1, <1>2, <1>4, <1>6 DEF RunnerTypeOK, ReaderLeaves
<1>8. StreamInv(s)'
  BY <1>1, <1>2, <1>6, StreamRead DEF ReaderLeaves, RunnerTypeOK
<1>9. \A t \in Streams \ {s} : reader'[t] # "done" => StreamInv(t)'
  BY <1>5, StreamKept DEF RunnerInv
<1> QED
  BY <1>1, <1>2, <1>5, <1>6, <1>7, <1>8, <1>9 DEF RunnerInv, ReaderLeaves, SameStream

LEMMA EOFStep == ASSUME RunnerInv, NEW s \in Streams, ReadEOF(s) PROVE RunnerInv'
<1>1. /\ RunnerTypeOK /\ run = "reading" /\ reader[s] = "reading" /\ pipe[s] = <<>>
      /\ child # "running" /\ child # "none" /\ StreamInv(s)
  BY DEF RunnerInv, ReadEOF, Reading, Closed
<1>2. ReaderLeaves /\ pipe' = pipe
  BY DEF ReadEOF, ReaderLeaves, callVars, childVars
<1>3. /\ held' = [held EXCEPT ![s] = 0] /\ reader' = [reader EXCEPT ![s] = "done"]
      /\ logged' = IF held[s] = 0 THEN logged
                   ELSE [logged EXCEPT ![s] = Append(@, held[s])]
  BY DEF ReadEOF
<1>4. held[s] \in Nat /\ MaxToken \in Nat \ {0} /\ logged[s] \in Seq(Nat)
  BY <1>1, RunnerFacts
<1>5. logged'[s] = outputs[s] /\ logged' \in [Streams -> Seq(Nat)]
  <2>1. outputs[s] = IF held[s] = 0 THEN logged[s] ELSE Append(logged[s], held[s])
    BY <1>1, StreamEnds
  <2>2. Append(logged[s], held[s]) \in Seq(Nat)
    BY <1>4
  <2> QED  BY <1>1, <1>3, <2>1, <2>2 DEF RunnerTypeOK
<1>6. held'[s] = 0 /\ held' \in [Streams -> 0..MaxToken] /\ reader'[s] = "done"
      /\ reader' \in [Streams -> {"reading", "done", "stopped"}]
  BY <1>1, <1>3, <1>4 DEF RunnerTypeOK
<1>7. \A t \in Streams \ {s} : SameStream(t) /\ reader'[t] = reader[t]
  BY <1>1, <1>2, <1>3 DEF ReaderLeaves, RunnerTypeOK, SameStream
<1>8. RunnerTypeOK'
  BY <1>1, <1>2, <1>5, <1>6 DEF RunnerTypeOK, ReaderLeaves
<1>9. \A t \in Streams \ {s} : reader'[t] # "done" => StreamInv(t)'
  BY <1>7, StreamKept DEF RunnerInv
<1> QED
  BY <1>1, <1>2, <1>4, <1>5, <1>6, <1>7, <1>8, <1>9 DEF RunnerInv, ReaderLeaves, SameStream

\* The steps of Run and of the child, which touch no stream.
StreamsSame == UNCHANGED <<pipe, outputs, open, reader, held, logged>>

LEMMA OtherStep ==
    ASSUME RunnerInv,
           CallRun \/ StartChild \/ Reap \/ WorkerEnds \/ ChildEnds \/ Cancel
             \/ (\E s \in Streams : TurnToWrite(s)) \/ UNCHANGED runnerVars
    PROVE  RunnerInv'
<1>1. StreamsSame
  BY DEF CallRun, StartChild, Reap, WorkerEnds, ChildEnds, Cancel, TurnToWrite,
     StreamsSame, runnerVars, readerVars
<1>2. \A s \in Streams : StreamInv(s) => StreamInv(s)'
  BY <1>1, StreamKept DEF StreamsSame, SameStream
<1>3. RunnerTypeOK /\ MaxToken \in Nat \ {0}
  BY RunnerAssumption DEF RunnerInv
<1>4. RunnerTypeOK'
  BY <1>1, <1>3 DEF CallRun, StartChild, Reap, WorkerEnds, ChildEnds, Cancel, TurnToWrite,
     StreamsSame, runnerVars, callVars, childVars, RunnerTypeOK, Return
<1>5. \A s \in Streams :
         /\ reader'[s] = reader[s] /\ logged'[s] = logged[s]
         /\ outputs'[s] = outputs[s] /\ held'[s] = held[s]
  BY <1>1 DEF StreamsSame
<1>6. CASE CallRun
  BY <1>2, <1>4, <1>5, <1>6 DEF CallRun, Return, RunnerInv, childVars
<1>7. CASE StartChild
  BY <1>2, <1>4, <1>5, <1>7 DEF StartChild, Return, RunnerInv
<1>8. CASE Reap
  BY <1>2, <1>3, <1>4, <1>5, <1>8 DEF Reap, Return, RunnerInv, childVars, RunnerTypeOK
<1>9. CASE WorkerEnds
  BY <1>2, <1>4, <1>5, <1>9 DEF WorkerEnds, RunnerInv, callVars
<1>10. CASE ChildEnds
  BY <1>2, <1>4, <1>5, <1>10 DEF ChildEnds, RunnerInv, callVars
<1>11. CASE Cancel
  BY <1>2, <1>4, <1>5, <1>11 DEF Cancel, RunnerInv, callVars
<1>12. ASSUME NEW s \in Streams, TurnToWrite(s) PROVE RunnerInv'
  BY <1>2, <1>4, <1>5, <1>12 DEF TurnToWrite, RunnerInv, callVars
<1>13. CASE UNCHANGED runnerVars
  BY <1>2, <1>4, <1>5, <1>13 DEF runnerVars, callVars, childVars, RunnerInv
<1> QED  BY <1>6, <1>7, <1>8, <1>9, <1>10, <1>11, <1>12, <1>13

LEMMA RunnerInvariant == RunnerSpec => []RunnerInv
<1>1. RunnerInv /\ [RunnerNext]_runnerVars => RunnerInv'
  BY OtherStep, WriteStep, ReadStep, EOFStep DEF RunnerNext, RunnerStep
<1> QED  BY <1>1, RunnerInitially, PTL DEF RunnerSpec

\* The lines handed on are the first ones written, whole and in order; and a
\* reader stops only at a line that is as long as its scanner holds.
ToldInOrder ==
    \A s \in Streams :
        /\ Begins(logged[s], outputs[s])
        /\ reader[s] = "stopped" => /\ Len(logged[s]) < Len(outputs[s])
                                    /\ MaxToken <= outputs[s][Len(logged[s]) + 1]

\* Once Run has returned no password is left, its error is that of the child,
\* and of each output all was handed on, unless its reader stopped.
ToldAll ==
    run = "returned" =>
        /\ ~passFile /\ (runError <=> child # "succeeded")
        /\ \A s \in Streams : reader[s] = "stopped" \/ logged[s] = outputs[s]

LEMMA RunnerTells == RunnerInv => ToldInOrder /\ ToldAll
<1> SUFFICES ASSUME RunnerInv PROVE ToldInOrder /\ ToldAll
  OBVIOUS
<1>1. RunnerTypeOK
  BY DEF RunnerInv
<1>2. ASSUME NEW s \in Streams
      PROVE  /\ Begins(logged[s], outputs[s])
             /\ reader[s] = "stopped" => /\ Len(logged[s]) < Len(outputs[s])
                                         /\ MaxToken <= outputs[s][Len(logged[s]) + 1]
  <2>1. logged[s] \in Seq(Nat) /\ outputs[s] \in Seq(Nat) /\ MaxToken \in Nat \ {0}
    BY <1>1, RunnerFacts
  <2>2. CASE reader[s] = "done"
    BY <2>1, <2>2 DEF RunnerInv, Begins
  <2>3. CASE reader[s] # "done"
    <3>1. PICK end \in ScanStates :
            outputs[s] = AllLines(end) /\ ReadsOn(pipe[s], Scanned(s), end)
      BY <2>3 DEF RunnerInv, StreamInv
    <3>2. Leads(Scanned(s), end)
      BY <1>1, <3>1, ReadsOnFacts, RunnerFacts
    <3>3. /\ Begins(logged[s], end.lines)
          /\ held[s] > 0 => /\ Len(logged[s]) < Len(outputs[s])
                            /\ held[s] <= outputs[s][Len(logged[s]) + 1]
      BY <3>1, <3>2 DEF Leads, Scanned
    <3>4. end.lines \in Seq(Nat) /\ end.part \in Nat
      BY DEF ScanStates
    <3>5. Begins(logged[s], outputs[s])
      <4>1. CASE end.part = 0
        BY <3>1, <3>3, <4>1 DEF AllLines
      <4>2. CASE end.part # 0
        <5>1. outputs[s] = Append(end.lines, end.part)
          BY <3>1, <4>2 DEF AllLines
        <5> QED  BY <2>1, <3>3, <3>4, <5>1 DEF Begins
      <4> QED  BY <4>1, <4>2
    <3>6. reader[s] = "stopped" => held[s] = MaxToken
      BY DEF RunnerInv
    <3> QED  BY <2>1, <3>3, <3>5, <3>6
  <2> QED  BY <2>2, <2>3
<1>3. ASSUME run = "returned", NEW s \in Streams
      PROVE  reader[s] = "stopped" \/ logged[s] = outputs[s]
  BY <1>1, <1>3, RunnerFacts DEF RunnerInv
<1>4. run = "returned" => ~passFile /\ (runError <=> child # "succeeded")
  BY DEF RunnerInv
<1> QED  BY <1>2, <1>3, <1>4 DEF ToldInOrder, ToldAll

\* The state of the call, the child, the pipes and the readers is well typed,
\* however full the pipes are; no pipe holds more than it can.
THEOREM RunnerTypeCorrect == RunnerSpec => []RunnerTypeOK
<1>1. RunnerInv => RunnerTypeOK
  BY DEF RunnerInv
<1> QED  BY <1>1, RunnerInvariant, PTL

\* For pipes, scanners and outputs of any size, and whenever the call is
\* cancelled: what OnOutput is given of a stream is at any time the beginning
\* of what was written to it, and all of it once Run returns, but for what
\* follows a line the scanner does not hold (runner.go:104-118, 154-162).
THEOREM RunnerHandsOn == RunnerSpec => [](ToldInOrder /\ ToldAll)
  BY RunnerInvariant, RunnerTells, PTL

-----------------------------------------------------------------------------
(* That Run returns takes fairness as well.  What fairness is applied to is *)
(* proved here: some step can be taken, and steps run out.                  *)

AllRead == \A s \in Streams : reader[s] # "reading"

\* What ReadChunk or ReadEOF of a stream, Reap, WriteChunk, ChildEnds and
\* WorkerEnds wait for.
CanGoOn ==
    \/ \E s \in Streams : Reading(s) /\ (pipe[s] # <<>> \/ Closed(s))
    \/ run = "reading" /\ AllRead /\ child # "running"
    \/ child = "running" /\ writing # "none" /\ Len(pipe[writing]) < PipeSize
    \/ child = "running" /\ writing = "none" /\ ~worker
    \/ worker

LEMMA NobodyWaits ==
    ASSUME RunnerInv, run = "reading", \A s \in Streams : reader[s] # "stopped"
    PROVE  CanGoOn
<1>1. RunnerTypeOK /\ PipeSize \in Nat \ {0}
  BY RunnerAssumption DEF RunnerInv
<1>2. CASE child = "running" /\ writing = "none"
  BY <1>2 DEF CanGoOn
<1>3. CASE child = "running" /\ writing # "none"
  <2>1. writing \in Streams
    BY <1>1, <1>3 DEF RunnerTypeOK
  <2>2. reader[writing] = "reading"
    BY <1>1, <1>3, <2>1, RunnerFacts DEF RunnerInv
  <2>3. Len(pipe[writing]) < PipeSize \/ pipe[writing] # <<>>
    BY <1>1
  <2> QED  BY <1>3, <2>1, <2>2, <2>3 DEF CanGoOn, Reading
<1>4. CASE child # "running"
  BY <1>4 DEF CanGoOn, Reading, Closed, AllRead
<1> QED  BY <1>2, <1>3, <1>4

\* A bound on the steps that are left, and the part of each stream in it.
StreamLeft(s) ==
    IF reader[s] = "reading" THEN Len(pipe[s]) + 1 ELSE Len(pipe[s])

StreamsLeft == StreamLeft("stdout") + StreamLeft("stderr")

OutputLeft ==
    IF writing = "none" THEN 3 * (MaxChunks - printed) + 1
                        ELSE 3 * (MaxChunks - printed)

WorkerLeft == IF worker THEN 1 ELSE 0
ChildLeft  == IF child = "running" THEN 1 ELSE 0
RunLeft    == IF run = "reading" THEN 1 ELSE 0

StepsLeft == StreamsLeft + OutputLeft + WorkerLeft + ChildLeft + RunLeft

LEMMA LeftFacts ==
    ASSUME RunnerTypeOK
    PROVE  /\ StreamLeft("stdout") \in Nat /\ StreamLeft("stderr") \in Nat
           /\ StreamsLeft \in Nat /\ OutputLeft \in Nat /\ WorkerLeft \in Nat
           /\ ChildLeft \in Nat /\ RunLeft \in Nat
           /\ StepsLeft \in Nat
<1>1. ASSUME NEW s \in Streams PROVE StreamLeft(s) \in Nat
  <2>1. Len(pipe[s]) \in Nat
    BY RunnerFacts
  <2> QED  BY <2>1 DEF StreamLeft
<1>2. StreamLeft("stdout") \in Nat /\ StreamLeft("stderr") \in Nat
  BY <1>1 DEF Streams
<1>3. StreamsLeft \in Nat
  BY <1>2 DEF StreamsLeft
<1>4. OutputLeft \in Nat
  BY RunnerAssumption DEF RunnerTypeOK, OutputLeft
<1>5. WorkerLeft \in Nat /\ ChildLeft \in Nat /\ RunLeft \in Nat
  BY DEF WorkerLeft, ChildLeft, RunLeft
<1> QED  BY <1>2, <1>3, <1>4, <1>5 DEF StepsLeft

\* What a step does to one stream it does to both together.
LEMMA StreamChanges ==
    ASSUME RunnerTypeOK, NEW s \in Streams, NEW d \in Int,
           StreamLeft(s)' = StreamLeft(s) + d,
           \A t \in Streams \ {s} : pipe'[t] = pipe[t] /\ reader'[t] = reader[t]
    PROVE  StreamsLeft' = StreamsLeft + d
<1>1. StreamLeft("stdout") \in Nat /\ StreamLeft("stderr") \in Nat
  BY LeftFacts
<1>2. CASE s = "stdout"
  <2>1. pipe'["stderr"] = pipe["stderr"] /\ reader'["stderr"] = reader["stderr"]
    BY <1>2 DEF Streams
  <2>2. StreamLeft("stderr")' = StreamLeft("stderr")
    BY <2>1 DEF StreamLeft
  <2>3. StreamLeft("stdout")' = StreamLeft("stdout") + d
    BY <1>2
  <2> QED  BY <1>1, <2>2, <2>3 DEF StreamsLeft
<1>3. CASE s = "stderr"
  <2>1. pipe'["stdout"] = pipe["stdout"] /\ reader'["stdout"] = reader["stdout"]
    BY <1>3 DEF Streams
  <2>2. StreamLeft("stdout")' = StreamLeft("stdout")
    BY <2>1 DEF StreamLeft
  <2>3. StreamLeft("stderr")' = StreamLeft("stderr") + d
    BY <1>3
  <2> QED  BY <1>1, <2>2, <2>3 DEF StreamsLeft
<1> QED  BY <1>2, <1>3 DEF Streams

LEMMA StreamsKept == ASSUME StreamsSame PROVE StreamsLeft' = StreamsLeft
BY DEF StreamsSame, StreamsLeft, StreamLeft

\* A step of a goroutine or of a playbook that writes on takes from the bound.
LEMMA StepTaken ==
    ASSUME RunnerInv, RunnerStep PROVE StepsLeft' < StepsLeft
<1>1. RunnerTypeOK
  BY DEF RunnerInv
<1>2. /\ StreamsLeft \in Nat /\ OutputLeft \in Nat /\ WorkerLeft \in Nat
      /\ ChildLeft \in Nat /\ RunLeft \in Nat
  BY <1>1, LeftFacts
<1>3. ASSUME NEW s \in Streams, ReadChunk(s) PROVE StepsLeft' < StepsLeft
  <2>1. /\ ReaderLeaves /\ pipe[s] # <<>> /\ pipe' = [pipe EXCEPT ![s] = Tail(@)]
        /\ reader[s] = "reading" /\ \A t \in Streams \ {s} : reader'[t] = reader[t]
    BY <1>1, <1>3 DEF ReadChunk, Reading, ReaderLeaves, callVars, childVars, RunnerTypeOK
  <2>2. pipe'[s] = Tail(pipe[s]) /\ \A t \in Streams \ {s} : pipe'[t] = pipe[t]
    BY <1>1, <2>1 DEF RunnerTypeOK
  <2>3. Len(pipe'[s]) = Len(pipe[s]) - 1 /\ Len(pipe[s]) \in Nat
    BY <1>1, <2>1, <2>2, ChunksTaken, RunnerFacts
  <2>4. PICK d \in {-1, -2} : StreamLeft(s)' = StreamLeft(s) + d
    BY <2>1, <2>3 DEF StreamLeft
  <2>5. StreamsLeft' = StreamsLeft + d
    BY <1>1, <2>1, <2>2, <2>4, StreamChanges
  <2>6. UNCHANGED <<OutputLeft, WorkerLeft, ChildLeft, RunLeft>>
    BY <2>1 DEF ReaderLeaves, OutputLeft, WorkerLeft, ChildLeft, RunLeft
  <2> QED  BY <1>2, <2>5, <2>6 DEF StepsLeft
<1>4. ASSUME NEW s \in Streams, ReadEOF(s) PROVE StepsLeft' < StepsLeft
  <2>1. /\ ReaderLeaves /\ pipe' = pipe /\ reader[s] = "reading"
        /\ reader' = [reader EXCEPT ![s] = "done"]
    BY <1>4 DEF ReadEOF, Reading, ReaderLeaves, callVars, childVars
  <2>2. reader'[s] = "done" /\ \A t \in Streams \ {s} : reader'[t] = reader[t]
    BY <1>1, <2>1 DEF RunnerTypeOK
  <2>3. Len(pipe[s]) \in Nat
    BY <1>1, RunnerFacts
  <2>4. StreamLeft(s)' = StreamLeft(s) + (-1)
    BY <2>1, <2>2, <2>3 DEF StreamLeft
  <2>5. StreamsLeft' = StreamsLeft + (-1)
    BY <1>1, <2>1, <2>2, <2>4, StreamChanges
  <2>6. UNCHANGED <<OutputLeft, WorkerLeft, ChildLeft, RunLeft>>
    BY <2>1 DEF ReaderLeaves, OutputLeft, WorkerLeft, ChildLeft, RunLeft
  <2> QED  BY <1>2, <2>5, <2>6 DEF StepsLeft
<1>5. CASE Reap
  <2>1. StreamsLeft' = StreamsLeft
    BY <1>5, StreamsKept DEF Reap, StreamsSame, readerVars
  <2>2. UNCHANGED <<OutputLeft, WorkerLeft, ChildLeft>>
    BY <1>5 DEF Reap, childVars, OutputLeft, WorkerLeft, ChildLeft
  <2>3. RunLeft = 1 /\ RunLeft' = 0
    BY <1>5 DEF Reap, Return, RunLeft
  <2> QED  BY <1>2, <2>1, <2>2, <2>3 DEF StepsLeft
<1>6. ASSUME NEW s \in Streams, TurnToWrite(s) PROVE StepsLeft' < StepsLeft
  <2>1. StreamsLeft' = StreamsLeft
    BY <1>6, StreamsKept DEF TurnToWrite, StreamsSame, readerVars
  <2>2. UNCHANGED <<WorkerLeft, ChildLeft, RunLeft>>
    BY <1>6 DEF TurnToWrite, callVars, WorkerLeft, ChildLeft, RunLeft
  <2>3. OutputLeft' = OutputLeft - 1
    <3>1. writing = "none" /\ writing' # "none" /\ printed' = printed
      BY <1>6 DEF TurnToWrite, Streams
    <3> QED  BY <1>1, <3>1, RunnerAssumption DEF OutputLeft, RunnerTypeOK
  <2> QED  BY <1>2, <2>1, <2>2, <2>3 DEF StepsLeft
<1>7. CASE WriteChunk
  <2>1. PICK ends \in BOOLEAN : pipe' = [pipe EXCEPT ![writing] = Append(@, ends)]
    BY <1>7 DEF WriteChunk
  <2>2. /\ writing # "none" /\ writing' = "none" /\ printed' = printed + 1
        /\ reader' = reader /\ UNCHANGED <<worker, child, run>>
    BY <1>7 DEF WriteChunk, callVars, readerVars
  <2> SUFFICES ASSUME NEW w \in Streams, w = writing PROVE StepsLeft' < StepsLeft
    BY <1>1, <2>2 DEF RunnerTypeOK
  <2>3. /\ pipe'[w] = Append(pipe[w], ends) /\ pipe[w] \in Seq(BOOLEAN)
        /\ \A t \in Streams \ {w} : pipe'[t] = pipe[t]
    BY <1>1, <2>1 DEF RunnerTypeOK
  <2>4. Len(pipe'[w]) = Len(pipe[w]) + 1 /\ Len(pipe[w]) \in Nat
    BY <2>3
  <2>5. StreamLeft(w)' = StreamLeft(w) + 1
    BY <2>2, <2>4 DEF StreamLeft
  <2>6. StreamsLeft' = StreamsLeft + 1
    BY <1>1, <2>2, <2>3, <2>5, StreamChanges
  <2>7. OutputLeft' = OutputLeft - 2
    BY <1>1, <2>2, RunnerAssumption DEF OutputLeft, RunnerTypeOK
  <2>8. UNCHANGED <<WorkerLeft, ChildLeft, RunLeft>>
    BY <2>2 DEF WorkerLeft, ChildLeft, RunLeft
  <2> QED  BY <1>2, <2>6, <2>7, <2>8 DEF StepsLeft
<1>8. CASE WorkerEnds
  <2>1. StreamsLeft' = StreamsLeft
    BY <1>8, StreamsKept DEF WorkerEnds, StreamsSame, readerVars
  <2>2. UNCHANGED <<OutputLeft, ChildLeft, RunLeft>>
    BY <1>8 DEF WorkerEnds, callVars, OutputLeft, ChildLeft, RunLeft
  <2>3. WorkerLeft = 1 /\ WorkerLeft' = 0
    BY <1>8 DEF WorkerEnds, WorkerLeft
  <2> QED  BY <1>2, <2>1, <2>2, <2>3 DEF StepsLeft
<1>9. CASE ChildEnds
  <2>1. StreamsLeft' = StreamsLeft
    BY <1>9, StreamsKept DEF ChildEnds, StreamsSame, readerVars
  <2>2. UNCHANGED <<OutputLeft, WorkerLeft, RunLeft>>
    BY <1>9 DEF ChildEnds, callVars, OutputLeft, WorkerLeft, RunLeft
  <2>3. ChildLeft = 1 /\ ChildLeft' = 0
    BY <1>9 DEF ChildEnds, ChildLeft
  <2> QED  BY <1>2, <2>1, <2>2, <2>3 DEF StepsLeft
<1> QED  BY <1>3, <1>4, <1>5, <1>6, <1>7, <1>8, <1>9 DEF RunnerStep

\* Nor does a cancellation add to it.
LEMMA CancelTaken ==
    ASSUME RunnerInv, Cancel PROVE StepsLeft' <= StepsLeft
<1>1. RunnerTypeOK
  BY DEF RunnerInv
<1>2. /\ StreamsLeft \in Nat /\ OutputLeft \in Nat /\ WorkerLeft \in Nat
      /\ ChildLeft \in Nat /\ RunLeft \in Nat
  BY <1>1, LeftFacts
<1>3. StreamsLeft' = StreamsLeft
  BY StreamsKept DEF Cancel, StreamsSame, readerVars
<1>4. UNCHANGED <<WorkerLeft, RunLeft>>
  BY DEF Cancel, callVars, WorkerLeft, RunLeft
<1>5. /\ writing' = "none" /\ child' = "killed" /\ printed' = printed
      /\ writing # "none" => child = "running"
  BY DEF Cancel, RunnerInv
<1>6. ChildLeft' = 0
  BY <1>5 DEF ChildLeft
<1>7. CASE writing = "none"
  <2>1. OutputLeft' = OutputLeft
    BY <1>5, <1>7 DEF OutputLeft
  <2> QED  BY <1>2, <1>3, <1>4, <1>6, <2>1 DEF StepsLeft
<1>8. CASE writing # "none"
  <2>1. OutputLeft' = OutputLeft + 1
    BY <1>1, <1>5, <1>8, RunnerAssumption DEF OutputLeft, RunnerTypeOK
  <2>2. ChildLeft = 1
    BY <1>5, <1>8 DEF ChildLeft
  <2> QED  BY <1>2, <1>3, <1>4, <1>6, <2>1, <2>2 DEF StepsLeft
<1> QED  BY <1>7, <1>8

\* While Run reads and no reader has stopped, somebody can go on: the readers
\* drain both pipes side by side, so that the child never waits for a reader
\* that waits for the child (runner.go:104-118).
THEOREM RunnerGoesOn ==
    RunnerSpec =>
        [](run = "reading" /\ (\A s \in Streams : reader[s] # "stopped") => CanGoOn)
<1>1. RunnerInv => (run = "reading" /\ (\A s \in Streams : reader[s] # "stopped")
                      => CanGoOn)
  BY NobodyWaits
<1> QED  BY <1>1, RunnerInvariant, PTL

\* Every such step takes from a number of steps that is left, to which a
\* cancellation adds nothing: a Run that goes on comes to its end.
THEOREM RunnerWindsDown ==
    RunnerSpec =>
        [][/\ StepsLeft \in Nat
           /\ RunnerStep => StepsLeft' < StepsLeft
           /\ Cancel => StepsLeft' <= StepsLeft]_runnerVars
<1>1. RunnerInv /\ [RunnerNext]_runnerVars =>
        [/\ StepsLeft \in Nat
         /\ RunnerStep => StepsLeft' < StepsLeft
         /\ Cancel => StepsLeft' <= StepsLeft]_runnerVars
  BY LeftFacts, StepTaken, CancelTaken DEF RunnerInv
<1> QED  BY <1>1, RunnerInvariant, PTL DEF RunnerSpec
=============================================================================
