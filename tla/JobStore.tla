------------------------------ MODULE JobStore ------------------------------
(***************************************************************************)
(* The job store (internal/apps/jobs/store.go): a map in memory, guarded   *)
(* by a lock, and one JSON file per job.  Every change rewrites the files  *)
(* of ALL jobs while it holds the lock; os.WriteFile truncates a file      *)
(* before it writes it, and no error is reported.  A new process loads     *)
(* what it can parse.                                                      *)
(***************************************************************************)
EXTENDS Naturals, FiniteSets

CONSTANTS
    Jobs,        \* identifiers newJobID hands out
    MaxLines,    \* bound: log lines of a job
    MaxCrashes,  \* bound: deaths of the process
    MaxFaults,   \* bound: failed file system calls
    None,        \* no such job, no such file
    Torn         \* a truncated file, which json.Unmarshal rejects

ASSUME BoundsAssumption ==
    /\ MaxLines \in Nat /\ MaxCrashes \in Nat /\ MaxFaults \in Nat
    /\ IsFiniteSet(Jobs)

Rank == [queued |-> 0, running |-> 1, succeeded |-> 2, failed |-> 3]

Records == [status : DOMAIN Rank, lines : 0..MaxLines]

ASSUME ValuesAssumption ==
    /\ None # Torn
    /\ None \notin Jobs
    /\ None \notin Records
    /\ Torn \notin Records

VARIABLES
    up,       \* the process runs
    mem,      \* Store.jobs
    file,     \* file[j]: what <id>.json holds
    todo,     \* the jobs persistLocked has yet to write
    writing,  \* the job whose file is open and truncated, or None
    owned,    \* the jobs that have a goroutine in this process
    missed,   \* the latest persistLocked met an error
    told,     \* told[j]: what pollers last saw of j without such an error
    crashes,  \* deaths so far
    faults    \* failed file system calls so far

vars == <<up, mem, file, todo, writing, owned, missed, told, crashes, faults>>

\* Store.mu is held from a change until its last file is written.
Locked == todo # {} \/ writing # None

Known(m) == {j \in Jobs : m[j] # None}

Init ==
    /\ up = TRUE
    /\ mem = [j \in Jobs |-> None]
    /\ file = [j \in Jobs |-> None]
    /\ todo = {} /\ writing = None /\ owned = {}
    /\ missed = FALSE
    /\ told = [j \in Jobs |-> None]
    /\ crashes = 0 /\ faults = 0

-----------------------------------------------------------------------------
(* The operations: each changes the map and starts persistLocked.           *)

\* (a definition with an underscored suffix is a faulty variant of the next)
Persist_ChangedOnly(j, rec) ==
    /\ mem' = [mem EXCEPT ![j] = rec]
    /\ \/ /\ todo' = {j} /\ missed' = FALSE
          /\ UNCHANGED faults
       \/ /\ faults < MaxFaults
          /\ faults' = faults + 1
          /\ missed' = TRUE
          /\ UNCHANGED todo

\* MkdirAll may fail, and then nothing is written.
Persist(j, rec) ==
    /\ mem' = [mem EXCEPT ![j] = rec]
    /\ \/ /\ todo' = Known(mem') /\ missed' = FALSE
          /\ UNCHANGED faults
       \/ /\ faults < MaxFaults
          /\ faults' = faults + 1
          /\ missed' = TRUE
          /\ UNCHANGED todo

Change(j, rec) ==
    /\ up /\ ~Locked
    /\ Persist(j, rec)
    /\ UNCHANGED <<up, file, writing, told, crashes>>

\* newJobID never repeats an identifier that a file or a poller may know.
Create(j) ==
    /\ mem[j] = None /\ file[j] = None /\ told[j] = None
    /\ Change(j, [status |-> "queued", lines |-> 0])
    /\ owned' = owned \cup {j}

MarkRunning(j) ==
    /\ j \in owned /\ mem[j].status = "queued"
    /\ Change(j, [mem[j] EXCEPT !.status = "running"])
    /\ UNCHANGED owned

AppendLog_InMemory(j) ==
    /\ up /\ ~Locked
    /\ mem[j] # None /\ mem[j].lines < MaxLines
    /\ mem' = [mem EXCEPT ![j].lines = @ + 1]
    /\ told' = [told EXCEPT ![j] = mem'[j]]
    /\ UNCHANGED <<up, file, todo, writing, owned, missed, crashes, faults>>

\* A playbook's output, a step of an update, or a word on a job that has ended:
\* at a restart that was asked for, and at the start after it.
AppendLog(j) ==
    /\ mem[j] # None /\ mem[j].lines < MaxLines
    /\ Change(j, [mem[j] EXCEPT !.lines = @ + 1])
    /\ UNCHANGED owned

\* The goroutine reports its end, or fails a job it has not begun; startup
\* fails jobs that an earlier process left behind, whatever they reached.
SetStatus(j, s) ==
    /\ mem[j] # None
    /\ \/ j \in owned /\ mem[j].status = "running"
       \/ j \in owned /\ mem[j].status = "queued" /\ s = "failed"
       \/ j \notin owned /\ mem[j].status # "failed" /\ s = "failed"
    /\ Change(j, [mem[j] EXCEPT !.status = s])
    /\ owned' = owned \ {j}

-----------------------------------------------------------------------------
(* persistLocked: the files, in the order the map's iteration happens to    *)
(* take; every error is swallowed.                                          *)

Truncate_Concurrently(j) ==
    /\ up /\ j \in todo
    /\ file' = [file EXCEPT ![j] = Torn]
    /\ todo' = todo \ {j}
    /\ writing' = j
    /\ UNCHANGED <<up, mem, owned, missed, told, crashes, faults>>

\* os.WriteFile opens with O_TRUNC.
Truncate(j) ==
    /\ up /\ writing = None /\ j \in todo
    /\ file' = [file EXCEPT ![j] = Torn]
    /\ todo' = todo \ {j}
    /\ writing' = j
    /\ UNCHANGED <<up, mem, owned, missed, told, crashes, faults>>

\* The file is complete; after the last one the lock is free again and the
\* pollers see the map.
Write(j) ==
    /\ up /\ writing = j
    /\ file' = [file EXCEPT ![j] = mem[j]]
    /\ writing' = None
    /\ told' = IF todo = {} /\ ~missed
               THEN [k \in Jobs |-> IF mem[k] = None THEN told[k] ELSE mem[k]]
               ELSE told
    /\ UNCHANGED <<up, mem, todo, owned, missed, crashes, faults>>

\* The open fails and leaves the file as it was, or the write fails and
\* leaves it truncated.
FailToWrite(j) ==
    /\ up /\ faults < MaxFaults
    /\ \/ writing = None /\ j \in todo /\ todo' = todo \ {j} /\ UNCHANGED writing
       \/ writing = j /\ writing' = None /\ UNCHANGED todo
    /\ faults' = faults + 1
    /\ missed' = TRUE
    /\ UNCHANGED <<up, mem, file, owned, told, crashes>>

-----------------------------------------------------------------------------

\* The process dies at any point; only the files are left.
Crash ==
    /\ up /\ crashes < MaxCrashes
    /\ up' = FALSE
    /\ mem' = [j \in Jobs |-> None]
    /\ todo' = {} /\ writing' = None /\ owned' = {}
    /\ crashes' = crashes + 1
    /\ UNCHANGED <<file, missed, told, faults>>

Load_ErrorIgnored ==
    /\ ~up
    /\ up' = TRUE
    /\ mem' = file
    /\ missed' = FALSE
    /\ UNCHANGED <<file, todo, writing, owned, told, crashes, faults>>

\* loadFromDisk, which skips what it cannot parse; then the API answers.
Load ==
    /\ ~up
    /\ up' = TRUE
    /\ mem' = [j \in Jobs |-> IF file[j] = Torn THEN None ELSE file[j]]
    /\ told' = [j \in Jobs |-> IF mem'[j] = None THEN told[j] ELSE mem'[j]]
    /\ missed' = FALSE
    /\ UNCHANGED <<file, todo, writing, owned, crashes, faults>>

Operation(j) ==
    \/ Create(j) \/ MarkRunning(j) \/ AppendLog(j)
    \/ \E s \in {"succeeded", "failed"} : SetStatus(j, s)

Saving(j) == Truncate(j) \/ Write(j) \/ FailToWrite(j)

Next == (\E j \in Jobs : Operation(j) \/ Saving(j)) \/ Crash \/ Load

Spec == Init /\ [][Next]_vars

-----------------------------------------------------------------------------

\* The state is well formed: a truncated file is the one being written, and
\* only a process that runs knows jobs or holds the lock.
TypeOK ==
    /\ up \in BOOLEAN /\ missed \in BOOLEAN
    /\ mem \in [Jobs -> Records \cup {None}]
    /\ file \in [Jobs -> Records \cup {None, Torn}]
    /\ told \in [Jobs -> Records \cup {None}]
    /\ todo \subseteq Known(mem)
    /\ writing \in Known(mem) \cup {None}
    /\ owned \subseteq Known(mem)
    /\ crashes \in 0..MaxCrashes /\ faults \in 0..MaxFaults

\* Whenever pollers can read the map and the last save met no error, the files
\* of all jobs hold it: one good save repairs what earlier ones failed to write.
SettledIsDurable ==
    up /\ ~Locked /\ ~missed => \A j \in Jobs : mem[j] # None => file[j] = mem[j]

TornFiles == {j \in Jobs : file[j] = Torn}

\* persistLocked has one file open at a time: a death, or a failed write,
\* costs at most one job however many are rewritten.
OneLossPerDeath ==
    Cardinality(TornFiles) <= crashes + faults + (IF writing = None THEN 0 ELSE 1)

\* r is as far in a job's life as s.
AtLeast(r, s) == Rank[r.status] >= Rank[s.status] /\ r.lines >= s.lines

\* A restart never takes a job back behind what pollers were told of it: a
\* finished job does not come back running, nor a log without its last lines.
\* (It may lose the job altogether.)
RestartNeverStepsBack ==
    [][~up /\ up' =>
          \A j \in Jobs : told[j] # None /\ mem'[j] # None
                             => AtLeast(mem'[j], told[j])]_vars

\* store.go:38: "jobs survive process restarts"; so should one that ended, of
\* which nothing changes any more.
JobsSurviveRestarts ==
    up => \A j \in Jobs :
        told[j] # None /\ told[j].status \in {"succeeded", "failed"}
            => mem[j] # None
=============================================================================
