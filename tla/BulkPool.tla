------------------------------ MODULE BulkPool ------------------------------
(***************************************************************************)
(* The bulk command (cli.py): the urls of a file are fetched one after the *)
(* other, or by a ThreadPoolExecutor when --workers asks for more than one *)
(* thread, and the main thread prints a line per url in the order of the   *)
(* file.  A fetch is one step to its outcome; FetchChain says what happens *)
(* inside it.  The executor is modelled from how _run_pool uses it: a      *)
(* queue of futures, threads that take them in order, and a shutdown that  *)
(* waits for all of them.                                                  *)
(***************************************************************************)
EXTENDS Integers, Sequences

CONSTANTS
  NumUrls,    \* urls in the file; the same url may stand there twice
  MaxWorkers  \* bound: the largest --workers

ASSUME NumUrlsAssumption    == NumUrls \in Nat
ASSUME MaxWorkersAssumption == MaxWorkers \in Nat

Jobs    == 1..NumUrls
Threads == 1..MaxWorkers  \* the first `workers` of them make up the pool

NoJob == 0

VARIABLES
  workers,    \* --workers
  main,       \* where the main thread is
  next,       \* the url it is at
  queue,      \* the executor's queue
  at,         \* the job each thread of the pool runs, or NoJob
  future,     \* the state of every job
  out,        \* the lines printed: which job, and what it says
  anyFailed,  \* any_failed
  aborted,    \* the exception on its way out of the main thread, of a result or the output
  exit        \* the exit code, NoExit while the command runs

vars == <<workers, main, next, queue, at, future, out, anyFailed, aborted, exit>>

NoExit == -1

\* ok: a Response; failed: a FetchError, which _run_one turns into an error line;
\* raw: any other exception, which the future keeps until its result is asked for.
Printable == {"ok", "failed"}
Settled   == Printable \cup {"raw"}
States    == {"none", "pending", "running"} \cup Settled

Pooled == workers > 1

\* Where the main thread takes up the next url: results of the pool, or a fetch of its own.
Loop == IF Pooled THEN "emit" ELSE "run"

Init == /\ workers \in 0..MaxWorkers
        /\ main = IF Pooled THEN "submit" ELSE "run"
        /\ next = 1
        /\ queue = <<>>
        /\ at = [w \in Threads |-> NoJob]
        /\ future = [j \in Jobs |-> "none"]
        /\ out = <<>>
        /\ anyFailed = FALSE
        /\ aborted = "no"
        /\ exit = NoExit

-----------------------------------------------------------------------------
\* The pool.

\* Mutant: one submission too many.
SubmitPastEnd == /\ main = "submit"
                 /\ next <= NumUrls + 1
                 /\ queue' = Append(queue, next)
                 /\ future' = [future EXCEPT ![next] = "pending"]
                 /\ next' = next + 1
                 /\ UNCHANGED <<workers, main, at, out, anyFailed, aborted, exit>>

Submit == /\ main = "submit"
          /\ next \in Jobs
          /\ queue' = Append(queue, next)
          /\ future' = [future EXCEPT ![next] = "pending"]
          /\ next' = next + 1
          /\ UNCHANGED <<workers, main, at, out, anyFailed, aborted, exit>>

AllSubmitted == /\ main = "submit"
                /\ next > NumUrls
                /\ main' = "emit"
                /\ next' = 1
                /\ UNCHANGED <<workers, queue, at, future, out, anyFailed, aborted, exit>>

Take(w) == /\ w <= workers
           /\ at[w] = NoJob
           /\ queue # <<>>
           /\ at' = [at EXCEPT ![w] = Head(queue)]
           /\ future' = [future EXCEPT ![Head(queue)] = "running"]
           /\ queue' = Tail(queue)
           /\ UNCHANGED <<workers, main, next, out, anyFailed, aborted, exit>>

\* _run_one returns or raises, in a thread of the pool.
Settle(w, outcome) ==
  /\ at[w] # NoJob
  /\ future' = [future EXCEPT ![at[w]] = outcome]
  /\ at' = [at EXCEPT ![w] = NoJob]
  /\ UNCHANGED <<workers, main, next, queue, out, anyFailed, aborted, exit>>

Thread(w) == Take(w) \/ \E outcome \in Settled : Settle(w, outcome)

-----------------------------------------------------------------------------
\* The main thread.

\* Without a pool it fetches by itself.
RunOne(outcome) ==
  /\ main = "run"
  /\ next \in Jobs
  /\ future' = [future EXCEPT ![next] = outcome]
  /\ main' = "emit"
  /\ UNCHANGED <<workers, next, queue, at, out, anyFailed, aborted, exit>>

\* Mutant: whichever result is there first is printed first.
EmitAsCompleted ==
  /\ main = "emit"
  /\ \E j \in Jobs :
       /\ future[j] \in Printable
       /\ \A i \in 1..Len(out) : out[i].job # j
       /\ anyFailed' = (anyFailed \/ future[j] = "failed")
       /\ out' = Append(out, [job |-> j, kind |-> future[j]])
  /\ next' = next + 1
  /\ main' = Loop
  /\ UNCHANGED <<workers, queue, at, future, aborted, exit>>

\* Mutant: any_failed is what the last line says.
EmitLast ==
  /\ main = "emit"
  /\ next \in Jobs
  /\ future[next] \in Printable
  /\ anyFailed' = (future[next] = "failed")
  /\ out' = Append(out, [job |-> next, kind |-> future[next]])
  /\ next' = next + 1
  /\ main' = Loop
  /\ UNCHANGED <<workers, queue, at, future, aborted, exit>>

\* emit(fut.result()): waits for this url's result, however many later ones are there.
Emit ==
  /\ main = "emit"
  /\ next \in Jobs
  /\ future[next] \in Printable
  /\ anyFailed' = (anyFailed \/ future[next] = "failed")
  /\ out' = Append(out, [job |-> next, kind |-> future[next]])
  /\ next' = next + 1
  /\ main' = Loop
  /\ UNCHANGED <<workers, queue, at, future, aborted, exit>>

\* Whoever reads the output has gone: echo raises.
EmitFails ==
  /\ main = "emit"
  /\ next \in Jobs
  /\ future[next] \in Printable
  /\ anyFailed' = (anyFailed \/ future[next] = "failed")
  /\ aborted' = "output"
  /\ main' = "leave"
  /\ UNCHANGED <<workers, next, queue, at, future, out, exit>>

\* Mutant: a result that raises is passed over.
SkipRaised ==
  /\ main = "emit"
  /\ next \in Jobs
  /\ future[next] = "raw"
  /\ next' = next + 1
  /\ main' = Loop
  /\ UNCHANGED <<workers, queue, at, future, out, anyFailed, aborted, exit>>

\* fut.result() raises what the fetch raised, and no later line is printed.
ResultRaises ==
  /\ main = "emit"
  /\ next \in Jobs
  /\ future[next] = "raw"
  /\ aborted' = "result"
  /\ main' = "leave"
  /\ UNCHANGED <<workers, next, queue, at, future, out, anyFailed, exit>>

AllEmitted == /\ main = Loop
              /\ next > NumUrls
              /\ main' = "leave"
              /\ UNCHANGED <<workers, next, queue, at, future, out, anyFailed, aborted, exit>>

\* Mutant: shutdown does not wait.
LeaveAtOnce == /\ main = "leave"
               /\ exit' = IF aborted # "no" \/ anyFailed THEN 1 ELSE 0
               /\ main' = "done"
               /\ UNCHANGED <<workers, next, queue, at, future, out, anyFailed, aborted>>

\* Leaving the with block waits for every fetch that was submitted, on the way of an
\* exception too; then the exit code.
Leave == /\ main = "leave"
         /\ queue = <<>>
         /\ \A w \in Threads : at[w] = NoJob
         /\ exit' = IF aborted # "no" \/ anyFailed THEN 1 ELSE 0
         /\ main' = "done"
         /\ UNCHANGED <<workers, next, queue, at, future, out, anyFailed, aborted>>

Main == \/ Submit \/ AllSubmitted
        \/ \E outcome \in Settled : RunOne(outcome)
        \/ Emit \/ EmitFails \/ ResultRaises \/ AllEmitted
        \/ Leave

Next == Main \/ \E w \in Threads : Thread(w)

Spec == Init /\ [][Next]_vars

\* Every fetch ends (FetchChain!KeepsContract, Throttle!CallersGetThrough), and the
\* threads are scheduled.
FairSpec == Spec /\ WF_vars(Main) /\ \A w \in Threads : WF_vars(Thread(w))

-----------------------------------------------------------------------------
\* Every variable keeps to its type.
TypeOK ==
  /\ workers \in 0..MaxWorkers
  /\ main \in {"submit", "run", "emit", "leave", "done"}
  /\ next \in 1 .. NumUrls + 1
  /\ queue \in Seq(Jobs)
  /\ at \in [Threads -> {NoJob} \cup Jobs]
  /\ future \in [Jobs -> States]
  /\ out \in Seq([job : Jobs, kind : Printable])
  /\ anyFailed \in BOOLEAN
  /\ aborted \in {"no", "result", "output"}
  /\ exit \in {NoExit, 0, 1}

\* The i-th line is about the i-th url of the file and says what its fetch brought,
\* in whatever order the fetches end.
LinesFollowTheFile ==
  \A i \in 1..Len(out) : out[i] = [job |-> i, kind |-> future[i]]

\* The exit code is 0 exactly when every url of the file was fetched and has its line.
ExitTellsFailures ==
  main = "done" =>
    (exit = 0 <=> /\ Len(out) = NumUrls
                  /\ \A j \in Jobs : future[j] = "ok")

\* bulk does not exit before the last fetch it submitted is over, whatever became of the
\* output in the meantime: no fetch is cut off or left behind.
QuietAtExit ==
  main = "done" =>
    /\ queue = <<>>
    /\ \A w \in Threads : at[w] = NoJob
    /\ \A j \in Jobs : future[j] \in Settled \/ (~Pooled /\ future[j] = "none")

Contract == INSTANCE BulkContract
              WITH lines <- [i \in 1..Len(out) |-> out[i].kind],
                   verdict <- CASE exit = NoExit -> "none"
                                [] exit = 0      -> "ok"
                                [] exit = 1      -> "failed"

\* With any number of workers the output is that of the plain loop over the file.
KeepsContract == Contract!Spec

-----------------------------------------------------------------------------
\* What the documentation says and the code does not do.

\* USING.md:173: every failed bulk line emits the error schema.
FailuresHaveLines ==
  main = "done" /\ aborted # "output" =>
    \A j \in Jobs : future[j] \in {"failed", "raw"} =>
      \E i \in 1..Len(out) : out[i] = [job |-> j, kind |-> "failed"]

=============================================================================
