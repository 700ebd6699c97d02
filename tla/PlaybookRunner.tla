---------------------------- MODULE PlaybookRunner --------------------------
(***************************************************************************)
(* One call of the Ansible runner (internal/apps/ansible/runner.go): Run   *)
(* starts ansible-playbook with a pipe for each of its two outputs, two    *)
(* goroutines read them line by line and hand each line to OnOutput, and   *)
(* when both have returned the child is waited for.                        *)
(* A pipe holds so much, and a writer waits while it is full; a scanner    *)
(* holds so much of a line, and gives up on a longer one.  Output is       *)
(* counted in chunks, and a line is named by its length.                   *)
(***************************************************************************)
EXTENDS Naturals, Sequences

CONSTANTS
    PipeSize,  \* chunks a pipe of the kernel holds
    MaxToken,  \* chunks a bufio.Scanner holds (MaxScanTokenSize)
    MaxChunks  \* bound: how much a playbook prints

ASSUME RunnerAssumption ==
    /\ PipeSize \in Nat \ {0} /\ MaxToken \in Nat \ {0}
    /\ MaxChunks \in Nat

Streams == {"stdout", "stderr"}

VARIABLES
    run,       \* where Run stands
    runError,  \* Run returned an error
    passFile,  \* the file with the password of sudo is there
    child,     \* ansible-playbook: none, running, or how it ended
    worker,    \* a process it forked holds the write ends, too
    writing,   \* the stream it is writing a chunk to, or "none"
    printed,   \* chunks it has written (counts toward MaxChunks)
    pipe,      \* pipe[s]: the chunks in it; TRUE for one that ends a line
    outputs,   \* outputs[s]: the lines written to s, the last one maybe open
    open,      \* open[s]: the last of them has not ended yet
    reader,    \* reader[s]: reading, done, or stopped at a line too long
    held,      \* held[s]: the chunks of the next line the scanner has
    logged     \* logged[s]: the lines of s that went to OnOutput

callVars   == <<run, runError, passFile>>
childVars  == <<child, worker, writing, printed>>
readerVars == <<reader, held, logged>>
runnerVars == <<callVars, childVars, pipe, outputs, open, readerVars>>

RunnerTypeOK ==
    /\ run \in {"idle", "prepare", "reading", "returned"}
    /\ runError \in BOOLEAN /\ passFile \in BOOLEAN
    /\ child \in {"none", "running", "succeeded", "failed", "killed"}
    /\ worker \in BOOLEAN /\ writing \in Streams \cup {"none"}
    /\ printed \in 0..MaxChunks
    /\ pipe \in [Streams -> Seq(BOOLEAN)]
    /\ \A s \in Streams : Len(pipe[s]) <= PipeSize
    /\ outputs \in [Streams -> Seq(Nat)] /\ open \in [Streams -> BOOLEAN]
    /\ reader \in [Streams -> {"reading", "done", "stopped"}]
    /\ held \in [Streams -> 0..MaxToken]
    /\ logged \in [Streams -> Seq(Nat)]

RunnerInit ==
    /\ run = "idle" /\ runError = FALSE /\ passFile = FALSE
    /\ child = "none" /\ worker = FALSE /\ writing = "none" /\ printed = 0
    /\ pipe = [s \in Streams |-> <<>>]
    /\ outputs = [s \in Streams |-> <<>>] /\ open = [s \in Streams |-> FALSE]
    /\ reader = [s \in Streams |-> "reading"]
    /\ held = [s \in Streams |-> 0]
    /\ logged = [s \in Streams |-> <<>>]

-----------------------------------------------------------------------------
(* Run, up to the start of the child.                                       *)

Return(failed) ==
    /\ run' = "returned"
    /\ runError' = failed
    /\ passFile' = FALSE

\* No path, no ansible-playbook, or the password cannot be written to a file;
\* else it is, if there is one.
CallRun ==
    /\ run = "idle"
    /\ \/ Return(TRUE)
       \/ run' = "prepare" /\ passFile' \in BOOLEAN /\ UNCHANGED runError
    /\ UNCHANGED <<childVars, pipe, outputs, open, readerVars>>

\* Runtime directory, pipes and Start: any may fail.
StartChild ==
    /\ run = "prepare"
    /\ \/ Return(TRUE) /\ UNCHANGED <<child, worker>>
       \/ /\ run' = "reading" /\ child' = "running" /\ worker' \in BOOLEAN
          /\ UNCHANGED <<runError, passFile>>
    /\ UNCHANGED <<writing, printed, pipe, outputs, open, readerVars>>

-----------------------------------------------------------------------------
(* The child (external).  It prints lines, may have a worker, and ends.     *)

TurnToWrite(s) ==
    /\ child = "running" /\ writing = "none" /\ printed < MaxChunks
    /\ writing' = s
    /\ UNCHANGED <<callVars, child, worker, printed, pipe, outputs, open,
                   readerVars>>

\* The lines of a stream with one more chunk.
Grown(s) ==
    IF open[s] THEN [outputs[s] EXCEPT ![Len(outputs[s])] = @ + 1]
               ELSE Append(outputs[s], 1)

\* A write waits for room in the pipe.
WriteChunk ==
    /\ child = "running" /\ writing # "none"
    /\ Len(pipe[writing]) < PipeSize
    /\ \E ends \in BOOLEAN :
          /\ pipe' = [pipe EXCEPT ![writing] = Append(@, ends)]
          /\ open' = [open EXCEPT ![writing] = ~ends]
    /\ outputs' = [outputs EXCEPT ![writing] = Grown(writing)]
    /\ printed' = printed + 1
    /\ writing' = "none"
    /\ UNCHANGED <<callVars, child, worker, readerVars>>

WorkerEnds ==
    /\ worker
    /\ worker' = FALSE
    /\ UNCHANGED <<callVars, child, writing, printed, pipe, outputs, open,
                   readerVars>>

\* It waits for its workers, and ends well or badly.
ChildEnds ==
    /\ child = "running" /\ writing = "none" /\ ~worker
    /\ child' \in {"succeeded", "failed"}
    /\ UNCHANGED <<callVars, worker, writing, printed, pipe, outputs, open,
                   readerVars>>

\* The context of the call is cancelled: the child is killed, its workers are
\* not.  One that has ended but is not waited for counts as killed, too.
Cancel ==
    /\ run = "reading"
    /\ child' = "killed"
    /\ writing' = "none"
    /\ UNCHANGED <<callVars, worker, printed, pipe, outputs, open, readerVars>>

-----------------------------------------------------------------------------
(* readLines, and the end of Run.                                           *)

Reading(s) == run = "reading" /\ reader[s] = "reading"

\* (a definition with an underscored suffix is a faulty variant of the next)
ReadChunk_InTurn(s) ==
    /\ Reading(s) /\ pipe[s] # <<>>
    /\ s = "stderr" => reader["stdout"] # "reading"
    /\ pipe' = [pipe EXCEPT ![s] = Tail(@)]
    /\ IF Head(pipe[s])
       THEN /\ logged' = [logged EXCEPT ![s] = Append(@, held[s] + 1)]
            /\ held' = [held EXCEPT ![s] = 0]
            /\ UNCHANGED reader
       ELSE /\ held' = [held EXCEPT ![s] = @ + 1]
            /\ reader' = [reader EXCEPT ![s] =
                             IF held'[s] = MaxToken THEN "stopped" ELSE @]
            /\ UNCHANGED logged
    /\ UNCHANGED <<callVars, childVars, outputs, open>>

\* A chunk that ends a line makes it a token.  One that does not, and fills
\* the buffer, ends the scan: the reader returns and the pipe is left as it is.
ReadChunk(s) ==
    /\ Reading(s) /\ pipe[s] # <<>>
    /\ pipe' = [pipe EXCEPT ![s] = Tail(@)]
    /\ IF Head(pipe[s])
       THEN /\ logged' = [logged EXCEPT ![s] = Append(@, held[s] + 1)]
            /\ held' = [held EXCEPT ![s] = 0]
            /\ UNCHANGED reader
       ELSE /\ held' = [held EXCEPT ![s] = @ + 1]
            /\ reader' = [reader EXCEPT ![s] =
                             IF held'[s] = MaxToken THEN "stopped" ELSE @]
            /\ UNCHANGED logged
    /\ UNCHANGED <<callVars, childVars, outputs, open>>

\* The end of file, once no process has the write end.
Closed(s) == pipe[s] = <<>> /\ child # "running" /\ ~worker

\* What is left is a line as well.
ReadEOF(s) ==
    /\ Reading(s) /\ Closed(s)
    /\ logged' = IF held[s] = 0 THEN logged
                 ELSE [logged EXCEPT ![s] = Append(@, held[s])]
    /\ held' = [held EXCEPT ![s] = 0]
    /\ reader' = [reader EXCEPT ![s] = "done"]
    /\ UNCHANGED <<callVars, childVars, pipe, outputs, open>>

\* wg.Wait, then cmd.Wait, which waits for the child and closes the pipes.
Reap ==
    /\ run = "reading"
    /\ \A s \in Streams : reader[s] # "reading"
    /\ child # "running"
    /\ Return(child # "succeeded")
    /\ UNCHANGED <<childVars, pipe, outputs, open, readerVars>>

\* The steps of the goroutines, and of a playbook whose writes return.
RunnerStep ==
    \/ \E s \in Streams : ReadChunk(s) \/ ReadEOF(s)
    \/ Reap
    \/ \E s \in Streams : TurnToWrite(s)
    \/ WriteChunk \/ WorkerEnds \/ ChildEnds

RunnerNext == CallRun \/ StartChild \/ RunnerStep \/ Cancel

RunnerSpec == RunnerInit /\ [][RunnerNext]_runnerVars

\* Whoever can go on does.  (Each of them has a bounded number of steps, so
\* that this is as much as fairness to each.)
RunnerFairness == WF_runnerVars(RunnerStep)

-----------------------------------------------------------------------------

\* Run returns, and by then has handed on every line of both outputs, whole
\* and in order, and left no password behind, however the pipes fill and
\* whenever the call is cancelled; the exception is a line that a scanner does
\* not hold (runner.go:104-118, 154-162).
RunTellsAll ==
    run = "reading" ~> \/ run = "returned" /\ ~passFile /\ logged = outputs
                       \/ \E s \in Streams : reader[s] = "stopped"
=============================================================================
