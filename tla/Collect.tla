------------------------------- MODULE Collect -------------------------------
(***************************************************************************)
(* The offline collection of drafts: benchmarks/cmd/collect/main.go with   *)
(* the store of benchmarks/internal/collect/store.go.                      *)
(*                                                                         *)
(* main hands the prompts of a dataset to goroutines, as many at a time as *)
(* the semaphore admits; each collects one record, waiting out rate limits,*)
(* and appends it to a file of JSON lines.  The file tells a later run     *)
(* which prompts to leave out.  Runs may be interrupted, or crash.         *)
(***************************************************************************)
EXTENDS Integers, Sequences, FiniteSets

CONSTANTS
    Prompts,        \* the ids in the dataset
    Dataset,        \* the prompts in their order
    Concurrency,    \* capacity of the semaphore
    Retries,        \* retries after a rate limit: 3 in the code
    MaxRuns         \* bound: runs of the program

\* dataset.Load refuses two prompts with one id.
ASSUME CollectAssumption ==
    /\ Dataset \in Seq(Prompts)
    /\ \A p \in Prompts : \E i \in 1..Len(Dataset) : Dataset[i] = p
    /\ \A i, j \in 1..Len(Dataset) : Dataset[i] = Dataset[j] => i = j
    /\ Concurrency \in Nat \ {0}
    /\ Retries \in Nat
    /\ MaxRuns \in Nat

VARIABLES
    file,       \* the lines of the file
    unended,    \* the last line has no newline
    runs,       \* runs begun
    main,       \* where main is
    next,       \* the prompt the loop is at
    ctxDone,    \* the run was interrupted
    held,       \* slots of the semaphore that are taken
    collected,  \* Store.collected
    worker,     \* where the goroutine of a prompt is
    retry       \* retries of a goroutine

runVars == <<main, next, ctxDone, held, collected, worker, retry>>
vars == <<file, unended, runs, runVars>>

\* "off": no process; "loop": at the head of the loop; "acquire": waiting for a
\* slot; "delay": between two prompts; "wait": in wg.Wait; "end": main returned.
MainAt == {"off", "loop", "acquire", "delay", "wait", "end"}

\* "collect": in Collect; "backoff": waiting after a rate limit; "append": in
\* Store.Append; "stored", "unstored", "left": ended, with the record in the
\* store, with an error of Append, or interrupted.
Running == {"collect", "backoff", "append"}
WorkerAt == Running \cup {"none", "stored", "unstored", "left"}

\* A line is the record of a prompt, with an error on it or without, or does not
\* parse.
Garbage == "garbage"
Line == Prompts \cup {Garbage}

Readable == {file[i] : i \in 1..Len(file)} \ {Garbage}
Busy == {p \in Prompts : worker[p] \in Running}

Init ==
    /\ file = << >>
    /\ unended = FALSE
    /\ runs = 0
    /\ main = "off"
    /\ next = 1
    /\ ctxDone = FALSE
    /\ held = 0
    /\ collected = {}
    /\ worker = [p \in Prompts |-> "none"]
    /\ retry = [p \in Prompts |-> 0]

-----------------------------------------------------------------------------
(* The file.                                                               *)

\* What is written goes behind what is there: behind a line that was not ended
\* it makes one line with it, which does not parse.
Put(line, newline) ==
    /\ file' = IF unended THEN [file EXCEPT ![Len(file)] = Garbage] ELSE Append(file, line)
    /\ unended' = ~newline

\* Mutant of ReadBack: a line that does not parse ends the scan.
ReadBackUntilGarbage ==
    {file[i] : i \in {k \in 1..Len(file) : \A j \in 1..k : file[j] # Garbage}}

\* NewStore: every line that parses counts, with an error on it or without,
\* ended or not.
ReadBack == Readable

\* A write that is cut short: a part of the record, or all but its newline.
PutPart(p) == \E line \in {p, Garbage} : Put(line, FALSE)

-----------------------------------------------------------------------------
(* main.                                                                   *)

\* The memory of a process with nothing begun.
Fresh(at, known) ==
    /\ main' = at
    /\ next' = 1
    /\ ctxDone' = FALSE
    /\ held' = 0
    /\ collected' = known
    /\ worker' = [p \in Prompts |-> "none"]
    /\ retry' = [p \in Prompts |-> 0]

\* The dataset or the file may not load: NewStore also fails on a line that is too
\* long for its scanner.
Start ==
    /\ main \in {"off", "end"}
    /\ runs < MaxRuns
    /\ runs' = runs + 1
    /\ Fresh("loop", ReadBack) \/ Fresh("off", {})
    /\ UNCHANGED <<file, unended>>

\* The user interrupts the run.
Interrupt ==
    /\ main \notin {"off", "end"}
    /\ ~ctxDone
    /\ ctxDone' = TRUE
    /\ UNCHANGED <<file, unended, runs, main, next, held, collected, worker, retry>>

\* Mutant of LoopEnds: the last prompt is not looked at.
LoopEndsEarly ==
    /\ main = "loop"
    /\ ctxDone \/ next >= Len(Dataset)
    /\ main' = "wait"
    /\ UNCHANGED <<file, unended, runs, next, ctxDone, held, collected, worker, retry>>

\* The loop is over.
LoopEnds ==
    /\ main = "loop"
    /\ ctxDone \/ next > Len(Dataset)
    /\ main' = "wait"
    /\ UNCHANGED <<file, unended, runs, next, ctxDone, held, collected, worker, retry>>

\* The next prompt is left out, or wants a slot.
LoopNext ==
    /\ main = "loop"
    /\ ~ctxDone
    /\ next <= Len(Dataset)
    /\ IF Dataset[next] \in collected
       THEN next' = next + 1 /\ UNCHANGED main
       ELSE main' = "acquire" /\ UNCHANGED next
    /\ UNCHANGED <<file, unended, runs, ctxDone, held, collected, worker, retry>>

\* The select finds a slot; the loop looks at the context once more.
Acquire ==
    /\ main = "acquire"
    /\ held < Concurrency
    /\ held' = held + 1
    /\ IF ctxDone
       THEN main' = "wait" /\ UNCHANGED worker
       ELSE main' = "delay" /\ worker' = [worker EXCEPT ![Dataset[next]] = "collect"]
    /\ UNCHANGED <<file, unended, runs, next, ctxDone, collected, retry>>

\* The select finds the context done.
GiveUp ==
    /\ main = "acquire"
    /\ ctxDone
    /\ main' = "wait"
    /\ UNCHANGED <<file, unended, runs, next, ctxDone, held, collected, worker, retry>>

\* After rateDelay, or at once in an interrupted run.
Delay ==
    /\ main = "delay"
    /\ main' = "loop"
    /\ next' = next + 1
    /\ UNCHANGED <<file, unended, runs, ctxDone, held, collected, worker, retry>>

\* Mutant of WaitOver: there is no wg.Wait.
WaitOverAtOnce ==
    /\ main = "wait"
    /\ main' = "end"
    /\ UNCHANGED <<file, unended, runs, next, ctxDone, held, collected, worker, retry>>

WaitOver ==
    /\ main = "wait"
    /\ Busy = {}
    /\ main' = "end"
    /\ UNCHANGED <<file, unended, runs, next, ctxDone, held, collected, worker, retry>>

Main == LoopEnds \/ LoopNext \/ Acquire \/ GiveUp \/ Delay \/ WaitOver

-----------------------------------------------------------------------------
(* The goroutine of a prompt.                                              *)

\* Mutant of Leave: the deferred release of the slot is missing.
LeaveHoldingSlot(p, as) ==
    /\ worker' = [worker EXCEPT ![p] = as]
    /\ UNCHANGED held

\* The goroutine returns, and releases its slot.
Leave(p, as) ==
    /\ worker' = [worker EXCEPT ![p] = as]
    /\ held' = held - 1

\* Mutant of CollectReturns: one retry too many.
CollectReturnsOffByOne(p) ==
    /\ worker[p] = "collect"
    /\ \E rateLimited \in (IF ctxDone THEN {FALSE} ELSE BOOLEAN) :
         worker' = [worker EXCEPT ![p] =
             IF rateLimited /\ retry[p] <= Retries THEN "backoff" ELSE "append"]
    /\ UNCHANGED <<file, unended, runs, main, next, ctxDone, held, collected, retry>>

\* Collect returns a record, which may have an error on it and is appended all the
\* same.  Only a rate limit is retried; the error of a call that fails because
\* the run was interrupted is none.
CollectReturns(p) ==
    /\ worker[p] = "collect"
    /\ \E rateLimited \in (IF ctxDone THEN {FALSE} ELSE BOOLEAN) :
         worker' = [worker EXCEPT ![p] =
             IF rateLimited /\ retry[p] < Retries THEN "backoff" ELSE "append"]
    /\ UNCHANGED <<file, unended, runs, main, next, ctxDone, held, collected, retry>>

BackoffOver(p) ==
    /\ worker[p] = "backoff"
    /\ worker' = [worker EXCEPT ![p] = "collect"]
    /\ retry' = [retry EXCEPT ![p] = @ + 1]
    /\ UNCHANGED <<file, unended, runs, main, next, ctxDone, held, collected>>

BackoffInterrupted(p) ==
    /\ worker[p] = "backoff"
    /\ ctxDone
    /\ Leave(p, "left")
    /\ UNCHANGED <<file, unended, runs, main, next, ctxDone, collected, retry>>

\* Append, under the lock of the store.
AppendOk(p) ==
    /\ worker[p] = "append"
    /\ Put(p, TRUE)
    /\ collected' = collected \cup {p}
    /\ Leave(p, "stored")
    /\ UNCHANGED <<runs, main, next, ctxDone, retry>>

\* The file cannot be opened, a write is cut short, or Sync fails.
AppendFails(p) ==
    /\ worker[p] = "append"
    /\ \/ UNCHANGED <<file, unended>>
       \/ PutPart(p)
       \/ Put(p, TRUE)
    /\ Leave(p, "unstored")
    /\ UNCHANGED <<runs, main, next, ctxDone, collected, retry>>

Worker(p) ==
    CollectReturns(p) \/ BackoffOver(p) \/ BackoffInterrupted(p) \/ AppendOk(p) \/ AppendFails(p)

\* The process is killed; it may have been in the middle of a write.
Crash ==
    /\ main \notin {"off", "end"}
    /\ \/ UNCHANGED <<file, unended>>
       \/ \E p \in Prompts : worker[p] = "append" /\ (PutPart(p) \/ Put(p, TRUE))
    /\ Fresh("off", {})
    /\ UNCHANGED runs

-----------------------------------------------------------------------------
Next == Start \/ Interrupt \/ Main \/ (\E p \in Prompts : Worker(p)) \/ Crash

Spec == Init /\ [][Next]_vars

\* The scheduler runs what can run; the calls of Collect have their timeouts.
FairSpec ==
    /\ Spec
    /\ WF_vars(Main)
    /\ \A p \in Prompts : WF_vars(Worker(p))

-----------------------------------------------------------------------------
(* Properties.                                                             *)

\* Every variable is in its type.
TypeOK ==
    /\ file \in Seq(Line)
    /\ unended \in BOOLEAN
    /\ runs \in 0..MaxRuns
    /\ main \in MainAt
    /\ next \in 1..Len(Dataset) + 1
    /\ ctxDone \in BOOLEAN
    /\ held \in 0..Concurrency
    /\ collected \subseteq Prompts
    /\ worker \in [Prompts -> WorkerAt]
    /\ retry \in [Prompts -> 0..Retries]

\* At most Concurrency goroutines call the models, and none is cut off by the
\* return of main.
WorkersAreBounded ==
    /\ Cardinality(Busy) <= Concurrency
    /\ main \in {"off", "end"} => Busy = {}

\* However runs are interrupted, crash and are resumed, no prompt has two records
\* in the file: the sweep would count it twice.
OneRecordEach ==
    \A i, j \in 1..Len(file) : file[i] = file[j] /\ file[i] # Garbage => i = j

\* A run that was not interrupted leaves out no prompt: each is in the store,
\* from this run or an earlier one, unless its own Append failed.
RunIsComplete ==
    main = "end" /\ ~ctxDone => \A p \in Prompts : p \in collected \/ worker[p] = "unstored"

\* Every run ends.
RunEnds == []<>(main \in {"off", "end"})

\* benchmarks/internal/collect/store_test.go:37: what was appended is collected
\* after the store is opened again.
AppendSurvivesReopen == collected \subseteq ReadBack
=============================================================================
