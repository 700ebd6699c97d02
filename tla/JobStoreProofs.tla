--------------------------- MODULE JobStoreProofs ---------------------------
(***************************************************************************)
(* Proofs about JobStore, for any finite set of jobs and any bounds.  The  *)
(* inductive invariant adds to the type invariant what the files hold      *)
(* while a save is under way (Saved), what they hold of what pollers were  *)
(* told (History), and the count of truncated files (OneLossPerDeath).     *)
(***************************************************************************)
EXTENDS JobStore, FiniteSetTheorems, TLAPS

\* Outside the rest of an error-free save, a file holds its job.
Saved ==
    ~missed => \A j \in Jobs :
        mem[j] # None /\ j \notin todo /\ j # writing => file[j] = mem[j]

\* Both copies of a job are as far as what pollers were told of it.
History ==
    \A j \in Jobs : told[j] # None =>
        /\ file[j] # None
        /\ file[j] # Torn => AtLeast(file[j], told[j])
        /\ mem[j] # None => AtLeast(mem[j], told[j])

\* A process that does not run knows nothing.
DownIsEmpty ==
    ~up => /\ \A j \in Jobs : mem[j] = None
           /\ todo = {} /\ writing = None /\ owned = {}

\* The open file is truncated.
OpenIsTorn == writing # None => file[writing] = Torn

Inv == TypeOK /\ DownIsEmpty /\ OpenIsTorn /\ Saved /\ History

-----------------------------------------------------------------------------

LEMMA RankType == \A s \in DOMAIN Rank : Rank[s] \in 0..3
  BY DEF Rank

LEMMA RankValues ==
    /\ DOMAIN Rank = {"queued", "running", "succeeded", "failed"}
    /\ Rank["queued"] = 0 /\ Rank["running"] = 1
    /\ Rank["succeeded"] = 2 /\ Rank["failed"] = 3
  BY DEF Rank

LEMMA AtLeastReflexive == \A r \in Records : AtLeast(r, r)
<1> SUFFICES ASSUME NEW r \in Records PROVE AtLeast(r, r)
  OBVIOUS
<1>1. Rank[r.status] \in 0..3 /\ r.lines \in 0..MaxLines
  BY RankType DEF Records
<1> QED  BY <1>1, BoundsAssumption DEF AtLeast

LEMMA AtLeastTransitive ==
    \A r, s, t \in Records : AtLeast(r, s) /\ AtLeast(s, t) => AtLeast(r, t)
<1> SUFFICES ASSUME NEW r \in Records, NEW s \in Records, NEW t \in Records,
                    AtLeast(r, s), AtLeast(s, t)
             PROVE  AtLeast(r, t)
  OBVIOUS
<1>1. /\ Rank[r.status] \in 0..3 /\ r.lines \in 0..MaxLines
      /\ Rank[s.status] \in 0..3 /\ s.lines \in 0..MaxLines
      /\ Rank[t.status] \in 0..3 /\ t.lines \in 0..MaxLines
  BY RankType DEF Records
<1> QED  BY <1>1, BoundsAssumption DEF AtLeast

\* Whatever the process does to a job it knows takes the job forward.
LEMMA ChangesGoForward ==
    ASSUME TypeOK, NEW j \in Jobs,
           MarkRunning(j) \/ AppendLog(j)
             \/ \E s \in {"succeeded", "failed"} : SetStatus(j, s)
    PROVE  /\ mem[j] \in Records
           /\ \E rec \in Records : Change(j, rec) /\ AtLeast(rec, mem[j])
<1>1. mem[j] \in Records
  BY ValuesAssumption DEF TypeOK, MarkRunning, AppendLog, SetStatus, Known
<1>2. mem[j].status \in DOMAIN Rank /\ mem[j].lines \in 0..MaxLines
  BY <1>1 DEF Records
<1>3. CASE MarkRunning(j)
  <2> DEFINE rec == [mem[j] EXCEPT !.status = "running"]
  <2>1. mem[j].status = "queued" /\ Change(j, rec)
    BY <1>3 DEF MarkRunning
  <2>2. rec \in Records /\ rec.status = "running" /\ rec.lines = mem[j].lines
    BY <1>1, RankValues DEF Records
  <2>3. AtLeast(rec, mem[j])
    BY <1>2, <2>1, <2>2, RankValues, BoundsAssumption DEF AtLeast
  <2> QED  BY <1>1, <2>1, <2>2, <2>3
<1>4. CASE AppendLog(j)
  <2> DEFINE rec == [mem[j] EXCEPT !.lines = @ + 1]
  <2>1. mem[j].lines < MaxLines /\ Change(j, rec)
    BY <1>4 DEF AppendLog
  <2>2. rec \in Records /\ rec.status = mem[j].status /\ rec.lines = mem[j].lines + 1
    BY <1>1, <1>2, <2>1, BoundsAssumption DEF Records
  <2>3. Rank[mem[j].status] \in 0..3
    BY <1>2, RankType
  <2>4. AtLeast(rec, mem[j])
    BY <1>2, <2>2, <2>3, BoundsAssumption DEF AtLeast
  <2> QED  BY <1>1, <2>1, <2>2, <2>4
<1>5. ASSUME NEW s \in {"succeeded", "failed"}, SetStatus(j, s)
      PROVE  \E rec \in Records : Change(j, rec) /\ AtLeast(rec, mem[j])
  <2> DEFINE rec == [mem[j] EXCEPT !.status = s]
  <2>1. /\ mem[j].status = "running" \/ s = "failed"
        /\ Change(j, rec)
    BY <1>5 DEF SetStatus
  <2>2. rec \in Records /\ rec.status = s /\ rec.lines = mem[j].lines
    BY <1>1, RankValues DEF Records
  <2>3. Rank[s] >= Rank[mem[j].status]
    BY <2>1, <1>2, RankValues
  <2>4. AtLeast(rec, mem[j])
    BY <1>2, <2>2, <2>3, BoundsAssumption DEF AtLeast
  <2> QED  BY <2>1, <2>2, <2>4
<1> QED  BY <1>1, <1>3, <1>4, <1>5

\* Every operation is a change of one job: a new one, or a step forward.
LEMMA OperationsAreChanges ==
    ASSUME TypeOK, NEW j \in Jobs, Operation(j)
    PROVE  \E rec \in Records :
             /\ Change(j, rec)
             /\ owned' \subseteq owned \cup {j}
             /\ \/ mem[j] = None /\ file[j] = None /\ told[j] = None
                \/ mem[j] \in Records /\ AtLeast(rec, mem[j])
<1>1. CASE Create(j)
  <2>1. [status |-> "queued", lines |-> 0] \in Records
    BY RankValues, BoundsAssumption DEF Records
  <2> QED  BY <1>1, <2>1 DEF Create
<1>2. CASE MarkRunning(j) \/ AppendLog(j)
             \/ \E s \in {"succeeded", "failed"} : SetStatus(j, s)
  <2>1. owned' \subseteq owned \cup {j}
    BY <1>2 DEF MarkRunning, AppendLog, SetStatus
  <2> QED  BY <1>2, <2>1, ChangesGoForward
<1> QED  BY <1>1, <1>2 DEF Operation

-----------------------------------------------------------------------------
(* The inductive invariant, one lemma for the changes and one for the rest. *)

LEMMA InitInv == Init => Inv
<1> SUFFICES ASSUME Init PROVE Inv
  OBVIOUS
<1>1. TypeOK
  <2>1. crashes \in 0..MaxCrashes /\ faults \in 0..MaxFaults
    BY BoundsAssumption DEF Init
  <2>2. /\ mem \in [Jobs -> Records \cup {None}]
        /\ file \in [Jobs -> Records \cup {None, Torn}]
        /\ told \in [Jobs -> Records \cup {None}]
    BY DEF Init
  <2> QED  BY <2>1, <2>2 DEF Init, TypeOK
<1>2. DownIsEmpty /\ OpenIsTorn /\ Saved /\ History
  BY DEF Init, DownIsEmpty, OpenIsTorn, Saved, History
<1> QED  BY <1>1, <1>2 DEF Inv

LEMMA OperationInv ==
    ASSUME Inv, NEW j \in Jobs, Operation(j)
    PROVE  Inv'
<1>0. TypeOK /\ DownIsEmpty /\ Saved /\ History
  BY DEF Inv
<1>1. PICK rec \in Records :
          /\ Change(j, rec)
          /\ owned' \subseteq owned \cup {j}
          /\ \/ mem[j] = None /\ file[j] = None /\ told[j] = None
             \/ mem[j] \in Records /\ AtLeast(rec, mem[j])
  BY <1>0, OperationsAreChanges
<1>2. /\ up /\ todo = {} /\ writing = None
      /\ mem' = [mem EXCEPT ![j] = rec]
      /\ UNCHANGED <<up, file, writing, told, crashes>>
  BY <1>1 DEF Change, Persist, Locked
<1>3. /\ mem'[j] = rec
      /\ \A k \in Jobs \ {j} : mem'[k] = mem[k]
      /\ mem' \in [Jobs -> Records \cup {None}]
  BY <1>0, <1>2 DEF TypeOK
<1>4. \/ todo' = Known(mem') /\ missed' = FALSE /\ faults' = faults
      \/ todo' = {} /\ missed' = TRUE /\ faults < MaxFaults /\ faults' = faults + 1
  BY <1>1, <1>2 DEF Change, Persist
<1>5. Known(mem) \cup {j} \subseteq Known(mem')
  BY <1>3, ValuesAssumption DEF Known
<1>6. TypeOK'
  <2>1. missed' \in BOOLEAN
    BY <1>4
  <2>2. faults' \in 0..MaxFaults
    BY <1>0, <1>4, BoundsAssumption DEF TypeOK
  <2>3. todo' \subseteq Known(mem') /\ owned' \subseteq Known(mem')
    BY <1>0, <1>1, <1>4, <1>5 DEF TypeOK
  <2> QED  BY <1>0, <1>2, <1>3, <2>1, <2>2, <2>3 DEF TypeOK
<1>7. DownIsEmpty' /\ OpenIsTorn'
  BY <1>2 DEF DownIsEmpty, OpenIsTorn
<1>8. Saved'
  BY <1>4 DEF Saved, Known
<1>9. History'
  <2> SUFFICES ASSUME NEW k \in Jobs, told[k] # None
               PROVE  /\ file[k] # None
                      /\ file[k] # Torn => AtLeast(file[k], told[k])
                      /\ mem'[k] # None => AtLeast(mem'[k], told[k])
    BY <1>2 DEF History, AtLeast
  <2>1. /\ file[k] # None
        /\ file[k] # Torn => AtLeast(file[k], told[k])
        /\ mem[k] # None => AtLeast(mem[k], told[k])
    BY <1>0 DEF History
  <2>2. CASE k = j
    <3>1. mem[j] \in Records /\ AtLeast(rec, mem[j])
      BY <1>1, <2>2, <2>1
    <3>2. told[j] \in Records
      BY <1>0, <2>2 DEF TypeOK
    <3>3. AtLeast(rec, told[j])
      BY <2>1, <2>2, <3>1, <3>2, AtLeastTransitive, ValuesAssumption
    <3> QED  BY <1>3, <2>1, <2>2, <3>3
  <2>3. CASE k # j
    BY <1>3, <2>1, <2>3
  <2> QED  BY <2>2, <2>3
<1> QED  BY <1>6, <1>7, <1>8, <1>9 DEF Inv

LEMMA SavingInv ==
    ASSUME Inv, NEW j \in Jobs, Saving(j)
    PROVE  Inv'
<1>0. TypeOK /\ DownIsEmpty /\ OpenIsTorn /\ Saved /\ History
  BY DEF Inv
<1>1. CASE Truncate(j)
  <2>1. /\ up /\ writing = None /\ j \in todo
        /\ file' = [file EXCEPT ![j] = Torn]
        /\ todo' = todo \ {j} /\ writing' = j
        /\ UNCHANGED <<up, mem, owned, missed, told, crashes, faults>>
    BY <1>1 DEF Truncate
  <2>2. file'[j] = Torn /\ \A k \in Jobs \ {j} : file'[k] = file[k]
    BY <1>0, <2>1 DEF TypeOK
  <2>3. TypeOK'
    <3>1. file' \in [Jobs -> Records \cup {None, Torn}]
      BY <1>0, <2>1 DEF TypeOK
    <3>2. todo' \subseteq Known(mem') /\ writing' \in Known(mem') /\ owned' \subseteq Known(mem')
      BY <1>0, <2>1 DEF TypeOK, Known
    <3> QED  BY <1>0, <2>1, <3>1, <3>2 DEF TypeOK
  <2>4. DownIsEmpty' /\ OpenIsTorn'
    BY <2>1, <2>2 DEF DownIsEmpty, OpenIsTorn
  <2>5. Saved'
    BY <1>0, <2>1, <2>2, ValuesAssumption DEF Saved
  <2>6. History'
    BY <1>0, <2>1, <2>2, ValuesAssumption DEF History, AtLeast
  <2> QED  BY <2>3, <2>4, <2>5, <2>6 DEF Inv
<1>2. CASE Write(j)
  <2>1. /\ up /\ writing = j
        /\ file' = [file EXCEPT ![j] = mem[j]]
        /\ writing' = None
        /\ UNCHANGED <<up, mem, todo, owned, missed, crashes, faults>>
    BY <1>2 DEF Write
  <2>2. mem[j] \in Records
    BY <1>0, <2>1, ValuesAssumption DEF TypeOK, Known
  <2>3. file'[j] = mem[j] /\ \A k \in Jobs \ {j} : file'[k] = file[k]
    BY <1>0, <2>1 DEF TypeOK
  <2>4. Saved'
    BY <1>0, <2>1, <2>3, ValuesAssumption DEF Saved
  <2>5. \A k \in Jobs :
          \/ told'[k] = told[k]
          \/ told'[k] = mem[k] /\ mem[k] \in Records /\ file'[k] = mem[k]
    <3>1. CASE todo = {} /\ ~missed
      <4> SUFFICES ASSUME NEW k \in Jobs, mem[k] # None
                   PROVE  told'[k] = mem[k] /\ mem[k] \in Records /\ file'[k] = mem[k]
        BY <1>2, <3>1 DEF Write
      <4>1. told'[k] = mem[k] /\ mem[k] \in Records
        BY <1>0, <1>2, <3>1 DEF Write, TypeOK
      <4>2. file'[k] = mem[k]
        BY <2>1, <2>4, <3>1, ValuesAssumption DEF Saved
      <4> QED  BY <4>1, <4>2
    <3>2. CASE ~(todo = {} /\ ~missed)
      BY <1>2, <3>2 DEF Write
    <3> QED  BY <3>1, <3>2
  <2>6. TypeOK'
    <3>1. file' \in [Jobs -> Records \cup {None, Torn}]
      BY <1>0, <2>1, <2>2 DEF TypeOK
    <3>2. told' \in [Jobs -> Records \cup {None}]
      <4>1. DOMAIN told' = Jobs /\ told' = [k \in Jobs |-> told'[k]]
        BY <1>0, <1>2 DEF Write, TypeOK
      <4> QED  BY <1>0, <2>5, <4>1 DEF TypeOK
    <3>3. todo' \subseteq Known(mem') /\ owned' \subseteq Known(mem')
      BY <1>0, <2>1 DEF TypeOK
    <3> QED  BY <1>0, <2>1, <3>1, <3>2, <3>3 DEF TypeOK
  <2>7. DownIsEmpty' /\ OpenIsTorn'
    BY <2>1 DEF DownIsEmpty, OpenIsTorn
  <2>8. History'
    <3> SUFFICES ASSUME NEW k \in Jobs, told'[k] # None
                 PROVE  /\ file'[k] # None
                        /\ file'[k] # Torn => AtLeast(file'[k], told'[k])
                        /\ mem[k] # None => AtLeast(mem[k], told'[k])
      BY <2>1 DEF History, AtLeast
    <3>1. CASE told'[k] = mem[k] /\ mem[k] \in Records /\ file'[k] = mem[k]
      BY <3>1, AtLeastReflexive, ValuesAssumption
    <3>2. CASE told'[k] = told[k]
      <4>1. /\ file[k] # None
            /\ file[k] # Torn => AtLeast(file[k], told[k])
            /\ mem[k] # None => AtLeast(mem[k], told[k])
        BY <1>0, <3>2 DEF History
      <4>2. CASE k = j
        BY <2>2, <2>3, <3>2, <4>1, <4>2, ValuesAssumption
      <4>3. CASE k # j
        BY <2>3, <3>2, <4>1, <4>3
      <4> QED  BY <4>2, <4>3
    <3> QED  BY <2>5, <3>1, <3>2
  <2> QED  BY <2>4, <2>6, <2>7, <2>8 DEF Inv
<1>3. CASE FailToWrite(j)
  <2>1. /\ up /\ faults < MaxFaults /\ faults' = faults + 1 /\ missed' = TRUE
        /\ todo' \subseteq todo
        /\ writing' \in {writing, None}
        /\ UNCHANGED <<up, mem, file, owned, told, crashes>>
    BY <1>3 DEF FailToWrite
  <2>2. TypeOK'
    <3>1. faults' \in 0..MaxFaults /\ missed' \in BOOLEAN
      BY <1>0, <2>1, BoundsAssumption DEF TypeOK
    <3>2. /\ todo' \subseteq Known(mem') /\ owned' \subseteq Known(mem')
          /\ writing' \in Known(mem') \cup {None}
      BY <1>0, <2>1 DEF TypeOK
    <3> QED  BY <1>0, <2>1, <3>1, <3>2 DEF TypeOK
  <2>3. DownIsEmpty' /\ OpenIsTorn' /\ Saved'
    BY <1>0, <2>1 DEF DownIsEmpty, OpenIsTorn, Saved
  <2>4. History'
    BY <1>0, <2>1 DEF History, AtLeast
  <2> QED  BY <2>2, <2>3, <2>4 DEF Inv
<1> QED  BY <1>1, <1>2, <1>3 DEF Saving

LEMMA CrashInv ==
    ASSUME Inv, Crash
    PROVE  Inv'
<1>0. TypeOK /\ History
  BY DEF Inv
<1>1. /\ up' = FALSE /\ mem' = [j \in Jobs |-> None]
      /\ todo' = {} /\ writing' = None /\ owned' = {}
      /\ crashes < MaxCrashes /\ crashes' = crashes + 1
      /\ UNCHANGED <<file, missed, told, faults>>
  BY DEF Crash
<1>2. TypeOK'
  <2>1. crashes' \in 0..MaxCrashes
    BY <1>0, <1>1, BoundsAssumption DEF TypeOK
  <2> QED  BY <1>0, <1>1, <2>1 DEF TypeOK, Known
<1>3. DownIsEmpty' /\ OpenIsTorn' /\ Saved'
  BY <1>1 DEF DownIsEmpty, OpenIsTorn, Saved
<1>4. History'
  BY <1>0, <1>1 DEF History, AtLeast
<1> QED  BY <1>2, <1>3, <1>4 DEF Inv

\* What a new process knows is what it found, and pollers see just that.
LEMMA LoadInv ==
    ASSUME Inv, Load
    PROVE  Inv'
<1>0. TypeOK /\ DownIsEmpty /\ History
  BY DEF Inv
<1>1. /\ ~up /\ up' = TRUE /\ missed' = FALSE
      /\ todo' = {} /\ writing' = None /\ owned' = {}
      /\ UNCHANGED <<file, crashes, faults>>
  BY <1>0 DEF Load, DownIsEmpty
<1>2. /\ mem' \in [Jobs -> Records \cup {None}]
      /\ \A j \in Jobs : mem'[j] = IF file[j] = Torn THEN None ELSE file[j]
  BY <1>0 DEF Load, TypeOK
<1>3. /\ told' \in [Jobs -> Records \cup {None}]
      /\ \A j \in Jobs : told'[j] = IF mem'[j] = None THEN told[j] ELSE mem'[j]
  BY <1>0, <1>2 DEF Load, TypeOK
<1>4. TypeOK'
  BY <1>0, <1>1, <1>2, <1>3 DEF TypeOK
<1>5. DownIsEmpty' /\ OpenIsTorn' /\ Saved'
  BY <1>1, <1>2 DEF DownIsEmpty, OpenIsTorn, Saved
<1>6. History'
  <2> SUFFICES ASSUME NEW k \in Jobs, told'[k] # None
               PROVE  /\ file[k] # None
                      /\ file[k] # Torn => AtLeast(file[k], told'[k])
                      /\ mem'[k] # None => AtLeast(mem'[k], told'[k])
    BY <1>1 DEF History, AtLeast
  <2>1. CASE mem'[k] = None
    BY <1>0, <1>2, <1>3, <2>1 DEF History
  <2>2. CASE mem'[k] # None
    <3>1. file[k] = mem'[k] /\ told'[k] = mem'[k] /\ mem'[k] \in Records
      BY <1>2, <1>3, <2>2
    <3> QED  BY <3>1, AtLeastReflexive, ValuesAssumption
  <2> QED  BY <2>1, <2>2
<1> QED  BY <1>4, <1>5, <1>6 DEF Inv

LEMMA StutterInv ==
    ASSUME Inv, UNCHANGED vars
    PROVE  Inv'
  BY DEF Inv, TypeOK, DownIsEmpty, OpenIsTorn, Saved, History, AtLeast, Known, vars

THEOREM Invariant == Spec => []Inv
<1>1. Inv /\ [Next]_vars => Inv'
  BY OperationInv, SavingInv, CrashInv, LoadInv, StutterInv DEF Next
<1> QED  BY InitInv, <1>1, PTL DEF Spec

-----------------------------------------------------------------------------
(* The results.                                                             *)

\* Every reachable state is well typed.
THEOREM TypeCorrect == Spec => []TypeOK
<1>1. Inv => TypeOK
  BY DEF Inv
<1> QED  BY <1>1, Invariant, PTL

\* Once a save is over and met no error, every file holds its job: errors of
\* earlier saves are repaired, for any number of jobs.
THEOREM GoodSavesRepair == Spec => []SettledIsDurable
<1>1. Inv => SettledIsDurable
  <2> SUFFICES ASSUME Inv, up, ~Locked, ~missed, NEW j \in Jobs, mem[j] # None
               PROVE  file[j] = mem[j]
    BY DEF SettledIsDurable
  <2>1. j \notin todo /\ j # writing
    BY ValuesAssumption DEF Locked
  <2> QED  BY <2>1 DEF Inv, Saved
<1> QED  BY <1>1, Invariant, PTL

\* A death or a failed write costs at most one job.
THEOREM LossesAreFew == Spec => []OneLossPerDeath
<1>1. TornFiles \subseteq Jobs /\ IsFiniteSet(TornFiles) /\ IsFiniteSet(TornFiles')
      /\ Cardinality(TornFiles) \in Nat /\ Cardinality(TornFiles') \in Nat
  <2>1. TornFiles \subseteq Jobs /\ TornFiles' \subseteq Jobs
    BY DEF TornFiles
  <2> QED  BY <2>1, BoundsAssumption, FS_Subset, FS_CardinalityType
<1>2. Init => OneLossPerDeath
  <2> SUFFICES ASSUME Init PROVE OneLossPerDeath
    OBVIOUS
  <2>1. TornFiles = {}
    BY ValuesAssumption DEF Init, TornFiles
  <2>2. Cardinality(TornFiles) = 0
    BY <2>1, FS_EmptySet
  <2> QED  BY <2>2 DEF Init, OneLossPerDeath
<1>3. ASSUME Inv, OneLossPerDeath, [Next]_vars PROVE OneLossPerDeath'
  <2>0. crashes \in Nat /\ faults \in Nat
    BY <1>3, BoundsAssumption DEF Inv, TypeOK
  <2>1. ASSUME NEW j \in Jobs, Truncate(j) PROVE OneLossPerDeath'
    <3>1. /\ writing = None /\ writing' # None
          /\ crashes' = crashes /\ faults' = faults
      BY <2>1, ValuesAssumption DEF Truncate
    <3>2. TornFiles' \subseteq TornFiles \cup {j}
      BY <1>3, <2>1 DEF Truncate, TornFiles, Inv, TypeOK
    <3>3. /\ IsFiniteSet(TornFiles \cup {j})
          /\ Cardinality(TornFiles \cup {j}) \in Nat
          /\ Cardinality(TornFiles \cup {j}) <= Cardinality(TornFiles) + 1
      <4>1. /\ IsFiniteSet(TornFiles \cup {j})
            /\ \/ Cardinality(TornFiles \cup {j}) = Cardinality(TornFiles)
               \/ Cardinality(TornFiles \cup {j}) = Cardinality(TornFiles) + 1
        BY <1>1, FS_AddElement
      <4> QED  BY <1>1, <4>1
    <3>4. Cardinality(TornFiles') <= Cardinality(TornFiles \cup {j})
      BY <3>2, <3>3, FS_Subset
    <3> QED  BY <1>1, <1>3, <2>0, <3>1, <3>3, <3>4 DEF OneLossPerDeath
  <2>2. ASSUME NEW j \in Jobs, Write(j) PROVE OneLossPerDeath'
    <3>1. /\ writing = j /\ j # None /\ writing' = None /\ mem[j] \in Records
          /\ crashes' = crashes /\ faults' = faults
      BY <1>3, <2>2, ValuesAssumption DEF Write, Inv, TypeOK, Known
    <3>2. TornFiles' = TornFiles \ {j}
      BY <1>3, <2>2, <3>1, ValuesAssumption DEF Write, TornFiles, Inv, TypeOK
    <3>3. j \in TornFiles
      BY <1>3, <3>1 DEF Inv, OpenIsTorn, TornFiles
    <3>4. Cardinality(TornFiles') = Cardinality(TornFiles) - 1
      BY <1>1, <3>2, <3>3, FS_RemoveElement
    <3> QED  BY <1>1, <1>3, <2>0, <3>1, <3>4 DEF OneLossPerDeath
  <2>3. ASSUME NEW j \in Jobs, FailToWrite(j) PROVE OneLossPerDeath'
    <3>1. /\ TornFiles' = TornFiles
          /\ crashes' = crashes /\ faults' = faults + 1
          /\ writing' = writing \/ writing' = None
      BY <2>3 DEF FailToWrite, TornFiles
    <3> QED  BY <1>1, <1>3, <2>0, <3>1 DEF OneLossPerDeath
  <2>4. CASE Crash
    <3>1. /\ TornFiles' = TornFiles
          /\ crashes' = crashes + 1 /\ faults' = faults
          /\ writing' = None
      BY <2>4 DEF Crash, TornFiles
    <3> QED  BY <1>1, <1>3, <2>0, <3>1 DEF OneLossPerDeath
  <2>5. ASSUME NEW j \in Jobs, Operation(j) PROVE OneLossPerDeath'
    <3>1. PICK rec : Change(j, rec)
      BY <1>3, <2>5, OperationsAreChanges DEF Inv
    <3>2. /\ TornFiles' = TornFiles
          /\ crashes' = crashes /\ writing' = writing
          /\ faults' = faults \/ faults' = faults + 1
      BY <3>1 DEF Change, Persist, TornFiles
    <3> QED  BY <1>1, <1>3, <2>0, <3>2 DEF OneLossPerDeath
  <2>6. CASE Load \/ UNCHANGED vars
    <3>1. /\ TornFiles' = TornFiles
          /\ crashes' = crashes /\ faults' = faults /\ writing' = writing
      BY <2>6 DEF Load, vars, TornFiles
    <3> QED  BY <1>3, <3>1 DEF OneLossPerDeath
  <2> QED  BY <1>3, <2>1, <2>2, <2>3, <2>4, <2>5, <2>6 DEF Next, Saving
<1> QED  BY <1>2, <1>3, Invariant, PTL DEF Spec

\* No restart shows pollers less of a job than they were told before it.
THEOREM RestartsKeepNews == Spec => RestartNeverStepsBack
<1>1. Inv /\ [Next]_vars =>
        [~up /\ up' => \A j \in Jobs : told[j] # None /\ mem'[j] # None
                                          => AtLeast(mem'[j], told[j])]_vars
  <2> SUFFICES ASSUME Inv, Next, ~up, up', NEW j \in Jobs,
                      told[j] # None, mem'[j] # None
               PROVE  AtLeast(mem'[j], told[j])
    OBVIOUS
  <2>1. Load
    BY DEF Next, Operation, Create, MarkRunning, AppendLog, SetStatus, Change,
           Saving, Truncate, Write, FailToWrite, Crash
  <2>2. file[j] # Torn /\ mem'[j] = file[j]
    BY <2>1 DEF Load
  <2> QED  BY <2>2 DEF Inv, History
<1> QED  BY <1>1, Invariant, PTL DEF Spec, RestartNeverStepsBack
=============================================================================
