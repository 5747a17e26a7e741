--------------------------- MODULE BulkPoolProofs ---------------------------
(***************************************************************************)
(* For any number of urls and threads: the pool prints the lines of the    *)
(* plain loop, its exit code speaks for every url, and it leaves no fetch  *)
(* behind.                                                                 *)
(*                                                                         *)
(* A line is right when it is printed; it stays right because nobody has   *)
(* that job in hand any more (InFlight).  The exit code is about all urls  *)
(* because the command concludes either behind the last line or on the way *)
(* of an exception (Printed).                                              *)
(***************************************************************************)
EXTENDS BulkPool, SequenceTheorems, TLAPS

\* The plain loop submits nothing; only the pool does.
Shape ==
  /\ main = "submit" => Pooled
  /\ main = "run" => ~Pooled
  /\ ~Pooled => queue = <<>> /\ \A w \in Threads : at[w] = NoJob

\* A pending job is in the queue, once; a running job is in the hands of one thread.
InFlight ==
  /\ \A i \in 1..Len(queue) : future[queue[i]] = "pending"
  /\ \A i, k \in 1..Len(queue) : queue[i] = queue[k] => i = k
  /\ \A w \in Threads : at[w] # NoJob => future[at[w]] = "running"
  /\ \A w, v \in Threads : at[w] = at[v] /\ at[w] # NoJob => w = v
  /\ \A j \in Jobs : future[j] = "pending" => \E i \in 1..Len(queue) : queue[i] = j
  /\ \A j \in Jobs : future[j] = "running" => \E w \in Threads : at[w] = j

\* Jobs are submitted in the order of the file, all of them before the first line.
Submitted ==
  /\ main = "submit" => Len(out) = 0 /\ \A j \in Jobs : future[j] = "none" <=> j >= next
  /\ Pooled /\ main # "submit" => \A j \in Jobs : future[j] # "none"

\* The main thread is at the url behind the last line; it leaves behind the last url or
\* with an exception.
Printed ==
  /\ main \in {"run", "emit"} => Len(out) = next - 1
  /\ main \in {"leave", "done"} /\ aborted = "no" => Len(out) = NumUrls
  /\ main \notin {"leave", "done"} => aborted = "no"
  /\ aborted # "no" => Len(out) < NumUrls

\* any_failed is about the lines printed so far; the line that could not be printed counts,
\* too, but then there is an exception.
Flagged ==
  aborted = "no" => (anyFailed = TRUE <=> \E i \in 1..Len(out) : out[i].kind = "failed")

\* The exit code is set once, by whoever leaves, when all is quiet.
Concluded ==
  /\ main = "done" <=> exit # NoExit
  /\ main = "done" => (exit = 0 <=> aborted = "no" /\ anyFailed = FALSE)
  /\ main = "done" => queue = <<>> /\ \A w \in Threads : at[w] = NoJob

IInv == /\ TypeOK
        /\ Shape
        /\ InFlight
        /\ Submitted
        /\ LinesFollowTheFile
        /\ Printed
        /\ Flagged
        /\ Concluded

LEMMA InitInv == Init => IInv
  <1> SUFFICES ASSUME Init PROVE IInv
    OBVIOUS
  <1> USE NumUrlsAssumption, MaxWorkersAssumption DEF Jobs, Threads
  <1>1. Len(queue) = 0 /\ Len(out) = 0 /\ queue \in Seq(Jobs)
        /\ out \in Seq([job : Jobs, kind : Printable])
    BY EmptySeq DEF Init
  <1>2. TypeOK
    <2>1. future \in [Jobs -> States] /\ at \in [Threads -> {NoJob} \cup Jobs]
      BY DEF Init, States
    <2>2. /\ workers \in 0..MaxWorkers
          /\ main \in {"submit", "run", "emit", "leave", "done"}
          /\ next \in 1 .. NumUrls + 1
          /\ aborted = "no" /\ exit = NoExit
      BY DEF Init
    <2>3. anyFailed \in BOOLEAN
      BY DEF Init
    <2> QED
      BY <1>1, <2>1, <2>2, <2>3 DEF TypeOK
  <1>3. Shape /\ InFlight
    BY <1>1 DEF Init, Shape, InFlight, Pooled
  <1>4. Submitted /\ Printed /\ LinesFollowTheFile
    BY <1>1 DEF Init, Submitted, Printed, LinesFollowTheFile, Pooled
  <1>5. Flagged /\ Concluded
    BY <1>1 DEF Init, Flagged, Concluded, NoExit
  <1> QED
    BY <1>2, <1>3, <1>4, <1>5 DEF IInv

-----------------------------------------------------------------------------
\* The pool.

LEMMA QueueFacts ==
  ASSUME TypeOK
  PROVE  /\ Len(queue) \in Nat /\ \A i \in 1..Len(queue) : queue[i] \in Jobs
         /\ Len(out) \in Nat
         /\ \A i \in 1..Len(out) : out[i] \in [job : Jobs, kind : Printable]
  BY LenProperties, ElementOfSeq DEF TypeOK

LEMMA SubmitInv == IInv /\ Submit => IInv'
  <1> SUFFICES ASSUME IInv, Submit PROVE IInv'
    OBVIOUS
  <1> USE NumUrlsAssumption, MaxWorkersAssumption DEF IInv
  <1>1. /\ queue' \in Seq(Jobs)
        /\ Len(queue') = Len(queue) + 1
        /\ queue'[Len(queue) + 1] = next
        /\ \A i \in 1..Len(queue) : queue'[i] = queue[i]
    BY AppendProperties DEF Submit, TypeOK
  <1>2. /\ main = "submit" /\ next \in Jobs /\ next' = next + 1
        /\ future' = [future EXCEPT ![next] = "pending"]
        /\ UNCHANGED <<workers, main, at, out, anyFailed, aborted, exit>>
        /\ Pooled /\ Pooled'
    BY DEF Submit, Shape, Pooled
  <1>3. Len(queue) \in Nat /\ \A i \in 1..Len(queue) : queue[i] \in Jobs
    BY QueueFacts
  <1>4. future[next] = "none"
    BY <1>2 DEF Submitted, Jobs
  <1>5. TypeOK'
    BY <1>1, <1>2 DEF TypeOK, Jobs, States
  <1>6. InFlight'
    <2>1. \A i \in 1..Len(queue) : queue[i] # next
      BY <1>3, <1>4 DEF InFlight
    <2>2. \A w \in Threads : at[w] # NoJob => at[w] # next
      BY <1>4 DEF InFlight
    <2>3. \A i \in 1..Len(queue') : future'[queue'[i]] = "pending"
      BY <1>1, <1>2, <1>3, <2>1 DEF InFlight, TypeOK
    <2>4. \A i, k \in 1..Len(queue') : queue'[i] = queue'[k] => i = k
      BY <1>1, <1>3, <2>1 DEF InFlight
    <2>5. \A j \in Jobs : future'[j] = "pending" => \E i \in 1..Len(queue') : queue'[i] = j
      <3> SUFFICES ASSUME NEW j \in Jobs, future'[j] = "pending"
                   PROVE  \E i \in 1..Len(queue') : queue'[i] = j
        OBVIOUS
      <3>1. CASE j = next
        <4>1. Len(queue) + 1 \in 1..Len(queue') /\ queue'[Len(queue) + 1] = j
          BY <1>1, <1>3, <3>1
        <4> QED
          BY <4>1
      <3>2. CASE j # next
        <4>1. future[j] = "pending"
          BY <1>2, <3>2 DEF TypeOK
        <4>2. PICK i \in 1..Len(queue) : queue[i] = j
          BY <4>1 DEF InFlight
        <4>3. i \in 1..Len(queue') /\ queue'[i] = j
          BY <1>1, <1>3, <4>2
        <4> QED
          BY <4>3
      <3> QED
        BY <3>1, <3>2
    <2>6. \A w \in Threads : at'[w] # NoJob => future'[at'[w]] = "running"
      BY <1>2, <2>2 DEF InFlight, TypeOK
    <2>7. \A j \in Jobs : future'[j] = "running" => \E w \in Threads : at'[w] = j
      BY <1>2 DEF InFlight, TypeOK
    <2>8. \A w, v \in Threads : at'[w] = at'[v] /\ at'[w] # NoJob => w = v
      BY <1>2 DEF InFlight
    <2> QED
      BY <2>3, <2>4, <2>5, <2>6, <2>7, <2>8 DEF InFlight
  <1>7. Submitted'
    BY <1>2 DEF Submitted, TypeOK, Jobs
  <1>8. Shape' /\ Printed' /\ Flagged' /\ Concluded' /\ LinesFollowTheFile'
    BY <1>2 DEF Shape, Printed, Flagged, Concluded, Submitted, LinesFollowTheFile, NoExit
  <1> QED
    BY <1>5, <1>6, <1>7, <1>8

LEMMA AllSubmittedInv == IInv /\ AllSubmitted => IInv'
  <1> SUFFICES ASSUME IInv, AllSubmitted PROVE IInv'
    OBVIOUS
  <1> USE NumUrlsAssumption DEF IInv
  <1>1. /\ main = "submit" /\ next = NumUrls + 1 /\ main' = "emit" /\ next' = 1
        /\ UNCHANGED <<workers, queue, at, future, out, anyFailed, aborted, exit>>
        /\ Pooled /\ Pooled'
    BY DEF AllSubmitted, TypeOK, Shape, Pooled
  <1>2. TypeOK' /\ Shape' /\ InFlight'
    BY <1>1 DEF TypeOK, Shape, InFlight
  <1>3. Submitted'
    BY <1>1 DEF Submitted, Jobs
  <1>4. Printed' /\ Flagged' /\ Concluded' /\ LinesFollowTheFile'
    BY <1>1 DEF Submitted, Printed, Flagged, Concluded, LinesFollowTheFile
  <1> QED
    BY <1>2, <1>3, <1>4

\* What a thread of the pool does to a job that is not printed yet disturbs no line.
LEMMA LinesStay ==
  ASSUME IInv, NEW j \in Jobs, future[j] \notin Printable, NEW state \in States,
         future' = [future EXCEPT ![j] = state], out' = out
  PROVE  LinesFollowTheFile'
  <1>1. \A i \in 1..Len(out) : i \in Jobs /\ out[i] = [job |-> i, kind |-> future[i]]
                               /\ future[i] \in Printable
    <2> SUFFICES ASSUME NEW i \in 1..Len(out)
                 PROVE  i \in Jobs /\ out[i] = [job |-> i, kind |-> future[i]]
                        /\ future[i] \in Printable
      OBVIOUS
    <2>1. out[i] = [job |-> i, kind |-> future[i]]
      BY DEF IInv, LinesFollowTheFile
    <2>2. out[i] \in [job : Jobs, kind : Printable]
      BY QueueFacts DEF IInv
    <2> QED
      BY <2>1, <2>2
  <1>2. \A i \in 1..Len(out) : future'[i] = future[i]
    BY <1>1 DEF IInv, TypeOK
  <1> QED
    BY <1>1, <1>2 DEF LinesFollowTheFile

LEMMA TakeInv == ASSUME NEW w \in Threads, IInv, Take(w) PROVE IInv'
  <1> USE NumUrlsAssumption, MaxWorkersAssumption DEF IInv
  <1> DEFINE j == queue[1]
  <1>1. /\ queue # <<>> /\ at[w] = NoJob
        /\ at' = [at EXCEPT ![w] = j]
        /\ future' = [future EXCEPT ![j] = "running"]
        /\ UNCHANGED <<workers, main, next, out, anyFailed, aborted, exit>>
    BY DEF Take, TypeOK
  <1>2. /\ Len(queue) \in Nat \ {0}
        /\ queue' \in Seq(Jobs)
        /\ Len(queue') = Len(queue) - 1
        /\ \A i \in 1..Len(queue') : queue'[i] = queue[i + 1]
    BY HeadTailProperties, EmptySeq, LenProperties DEF Take, TypeOK
  <1>3. j \in Jobs /\ j # NoJob /\ future[j] = "pending"
    BY <1>2, QueueFacts DEF InFlight, Jobs, NoJob
  <1>4. Pooled /\ Pooled' /\ main # "done"
    BY <1>1 DEF Shape, Concluded, Pooled
  <1>5. TypeOK'
    BY <1>1, <1>2, <1>3 DEF TypeOK, States
  <1>6. InFlight'
    <2>1. \A i \in 2..Len(queue) : queue[i] # j
      BY <1>2 DEF InFlight
    <2>2. \A i \in 1..Len(queue') : i + 1 \in 2..Len(queue) /\ queue[i + 1] \in Jobs
      BY <1>2, QueueFacts
    <2>3. \A i \in 1..Len(queue') : future'[queue'[i]] = "pending"
      BY <1>1, <1>2, <2>1, <2>2 DEF InFlight, TypeOK
    <2>4. \A i, k \in 1..Len(queue') : queue'[i] = queue'[k] => i = k
      BY <1>2, <2>2 DEF InFlight
    <2>5. \A v \in Threads : at[v] # j
      BY <1>3 DEF InFlight
    <2>6. \A v \in Threads : at'[v] # NoJob => future'[at'[v]] = "running"
      BY <1>1, <1>3, <2>5 DEF InFlight, TypeOK
    <2>7. \A v, u \in Threads : at'[v] = at'[u] /\ at'[v] # NoJob => v = u
      BY <1>1, <2>5 DEF InFlight, TypeOK
    <2>8. \A k \in Jobs : future'[k] = "pending" => \E i \in 1..Len(queue') : queue'[i] = k
      <3> SUFFICES ASSUME NEW k \in Jobs, future'[k] = "pending"
                   PROVE  \E i \in 1..Len(queue') : queue'[i] = k
        OBVIOUS
      <3>1. k # j /\ future[k] = "pending"
        BY <1>1, <1>3 DEF TypeOK
      <3>2. PICK i \in 1..Len(queue) : queue[i] = k
        BY <3>1 DEF InFlight
      <3>3. i - 1 \in 1..Len(queue') /\ queue'[i - 1] = k
        BY <1>2, <3>1, <3>2
      <3> QED
        BY <3>3
    <2>9. \A k \in Jobs : future'[k] = "running" => \E v \in Threads : at'[v] = k
      <3> SUFFICES ASSUME NEW k \in Jobs, future'[k] = "running"
                   PROVE  \E v \in Threads : at'[v] = k
        OBVIOUS
      <3>1. CASE k = j
        BY <1>1, <3>1 DEF TypeOK
      <3>2. CASE k # j
        <4>1. future[k] = "running"
          BY <1>1, <3>2 DEF TypeOK
        <4>2. PICK v \in Threads : at[v] = k
          BY <4>1 DEF InFlight
        <4>3. v # w
          BY <1>1, <4>2 DEF Jobs, NoJob
        <4> QED
          BY <1>1, <4>2, <4>3 DEF TypeOK
      <3> QED
        BY <3>1, <3>2
    <2> QED
      BY <2>3, <2>4, <2>6, <2>7, <2>8, <2>9 DEF InFlight
  <1>7. LinesFollowTheFile'
    BY <1>1, <1>3, LinesStay DEF States, Printable
  <1>8. Submitted'
    BY <1>1, <1>3, <1>4 DEF Submitted, TypeOK
  <1>9. Shape' /\ Printed' /\ Flagged' /\ Concluded'
    BY <1>1, <1>4 DEF Shape, Printed, Flagged, Concluded
  <1> QED
    BY <1>5, <1>6, <1>7, <1>8, <1>9

LEMMA SettleInv ==
  ASSUME NEW w \in Threads, NEW outcome \in Settled, IInv, Settle(w, outcome)
  PROVE  IInv'
  <1> USE NumUrlsAssumption, MaxWorkersAssumption DEF IInv
  <1> DEFINE j == at[w]
  <1>1. /\ j # NoJob
        /\ at' = [at EXCEPT ![w] = NoJob]
        /\ future' = [future EXCEPT ![j] = outcome]
        /\ UNCHANGED <<workers, main, next, queue, out, anyFailed, aborted, exit>>
    BY DEF Settle
  <1>2. j \in Jobs /\ future[j] = "running" /\ Pooled /\ Pooled' /\ main # "done"
    BY <1>1 DEF TypeOK, InFlight, Shape, Concluded, Pooled
  <1>3. TypeOK'
    BY <1>1, <1>2 DEF TypeOK, States
  <1>4. InFlight'
    <2>1. \A i \in 1..Len(queue) : queue[i] # j /\ queue[i] \in Jobs
      BY <1>2, QueueFacts DEF InFlight
    <2>2. \A v \in Threads : v # w => at[v] # j
      BY <1>1 DEF InFlight
    <2>3. \A i \in 1..Len(queue') : future'[queue'[i]] = "pending"
      BY <1>1, <2>1 DEF InFlight, TypeOK
    <2>4. \A v \in Threads : at'[v] # NoJob => future'[at'[v]] = "running"
      BY <1>1, <2>2 DEF InFlight, TypeOK
    <2>5. \A v, u \in Threads : at'[v] = at'[u] /\ at'[v] # NoJob => v = u
      BY <1>1 DEF InFlight, TypeOK
    <2>6. \A k \in Jobs : future'[k] = "pending" => \E i \in 1..Len(queue') : queue'[i] = k
      BY <1>1, <1>2 DEF InFlight, TypeOK, Settled, Printable
    <2>7. \A k \in Jobs : future'[k] = "running" => \E v \in Threads : at'[v] = k
      BY <1>1, <1>2 DEF InFlight, TypeOK, Settled, Printable
    <2>8. \A i, k \in 1..Len(queue') : queue'[i] = queue'[k] => i = k
      BY <1>1 DEF InFlight
    <2> QED
      BY <2>3, <2>4, <2>5, <2>6, <2>7, <2>8 DEF InFlight
  <1>5. LinesFollowTheFile'
    BY <1>1, <1>2, LinesStay DEF States, Printable
  <1>6. Submitted'
    BY <1>1, <1>2 DEF Submitted, TypeOK, Settled, Printable
  <1>7. Shape' /\ Printed' /\ Flagged' /\ Concluded'
    BY <1>1, <1>2 DEF Shape, Printed, Flagged, Concluded
  <1> QED
    BY <1>3, <1>4, <1>5, <1>6, <1>7

-----------------------------------------------------------------------------
\* The main thread.

LEMMA RunOneInv == ASSUME NEW outcome \in Settled, IInv, RunOne(outcome) PROVE IInv'
  <1> USE NumUrlsAssumption, MaxWorkersAssumption DEF IInv
  <1>1. /\ main = "run" /\ next \in Jobs /\ main' = "emit"
        /\ future' = [future EXCEPT ![next] = outcome]
        /\ UNCHANGED <<workers, next, queue, at, out, anyFailed, aborted, exit>>
        /\ ~Pooled /\ ~Pooled'
    BY DEF RunOne, Shape, Pooled
  <1>2. TypeOK'
    BY <1>1 DEF TypeOK, States
  <1>3. LinesFollowTheFile'
    <2>1. Len(out) \in Nat /\ Len(out) = next - 1
      BY <1>1, QueueFacts DEF Printed
    <2>2. \A i \in 1..Len(out) : i \in Jobs /\ i # next
      BY <1>1, <2>1 DEF Jobs
    <2>3. \A i \in 1..Len(out) : future'[i] = future[i]
      BY <1>1, <2>2 DEF TypeOK
    <2> QED
      BY <1>1, <2>3 DEF LinesFollowTheFile
  <1>4. InFlight'
    <2>1. Len(queue) = 0 /\ \A w \in Threads : at[w] = NoJob
      BY <1>1, EmptySeq DEF Shape
    <2> QED
      BY <1>1, <2>1 DEF InFlight, TypeOK, Settled, Printable
  <1>5. Shape' /\ Submitted' /\ Printed' /\ Flagged' /\ Concluded'
    BY <1>1 DEF Shape, Submitted, Printed, Flagged, Concluded
  <1> QED
    BY <1>2, <1>3, <1>4, <1>5

LEMMA EmitInv == IInv /\ Emit => IInv'
  <1> SUFFICES ASSUME IInv, Emit PROVE IInv'
    OBVIOUS
  <1> USE NumUrlsAssumption, MaxWorkersAssumption DEF IInv
  <1> DEFINE line == [job |-> next, kind |-> future[next]]
  <1>1. /\ main = "emit" /\ next \in Jobs /\ next' = next + 1 /\ main' = Loop
        /\ future[next] \in Printable
        /\ UNCHANGED <<workers, queue, at, future, aborted, exit>>
        /\ aborted = "no" /\ exit = NoExit
    BY DEF Emit, Printed, Concluded
  <1>2. Len(out) \in Nat /\ Len(out) = next - 1
    BY <1>1, QueueFacts DEF Printed
  <1>3. line \in [job : Jobs, kind : Printable]
    BY <1>1
  <1>4. /\ out' \in Seq([job : Jobs, kind : Printable])
        /\ Len(out') = Len(out) + 1
        /\ out'[Len(out) + 1] = line
        /\ \A i \in 1..Len(out) : out'[i] = out[i]
    BY <1>3, AppendProperties DEF Emit, TypeOK
  <1>5. main' \in {"emit", "run"} /\ (Pooled => main' = "emit") /\ (~Pooled => main' = "run")
        /\ (Pooled <=> Pooled')
    BY <1>1 DEF Loop, Pooled
  <1>6. TypeOK'
    <2>1. anyFailed' \in BOOLEAN
      BY DEF Emit
    <2>2. next' \in 1 .. NumUrls + 1
      BY <1>1 DEF Jobs
    <2> QED
      BY <1>1, <1>4, <1>5, <2>1, <2>2 DEF TypeOK
  <1>7. LinesFollowTheFile'
    <2>1. ASSUME NEW i \in 1..Len(out') PROVE out'[i] = [job |-> i, kind |-> future[i]]
      <3>1. CASE i = Len(out) + 1
        <4>1. i = next
          BY <1>1, <1>2, <3>1 DEF Jobs
        <4> QED
          BY <1>4, <3>1, <4>1
      <3>2. CASE i \in 1..Len(out)
        <4>1. out[i] = [job |-> i, kind |-> future[i]]
          BY <3>2 DEF LinesFollowTheFile
        <4> QED
          BY <1>4, <3>2, <4>1
      <3> QED
        BY <1>2, <1>4, <3>1, <3>2
    <2> QED
      BY <1>1, <2>1 DEF LinesFollowTheFile
  <1>8. Printed'
    <2>1. Len(out') = next' - 1 /\ aborted' = "no"
      BY <1>1, <1>2, <1>4 DEF Jobs
    <2> QED
      BY <1>5, <2>1 DEF Printed
  <1>9. Flagged'
    <2>1. (anyFailed' = TRUE) <=> (anyFailed = TRUE \/ future[next] = "failed")
      BY DEF Emit, TypeOK
    <2>2. (\E i \in 1..Len(out') : out'[i].kind = "failed")
            <=> (\E i \in 1..Len(out) : out[i].kind = "failed") \/ future[next] = "failed"
      BY <1>2, <1>4
    <2> QED
      BY <1>1, <2>1, <2>2 DEF Flagged
  <1>10. Shape' /\ InFlight' /\ Submitted' /\ Concluded'
    BY <1>1, <1>5 DEF Shape, InFlight, Submitted, Concluded
  <1> QED
    BY <1>6, <1>7, <1>8, <1>9, <1>10

\* An exception ends the printing before the last line.
LEMMA AbortInv == IInv /\ (EmitFails \/ ResultRaises) => IInv'
  <1> SUFFICES ASSUME IInv, EmitFails \/ ResultRaises PROVE IInv'
    OBVIOUS
  <1> USE NumUrlsAssumption, MaxWorkersAssumption DEF IInv
  <1>1. /\ main = "emit" /\ next \in Jobs /\ main' = "leave"
        /\ aborted' \in {"result", "output"}
        /\ UNCHANGED <<workers, next, queue, at, future, out, exit>>
        /\ exit = NoExit
    BY DEF EmitFails, ResultRaises, Concluded
  <1>2. anyFailed' \in BOOLEAN
    <2>1. CASE EmitFails
      BY <2>1 DEF EmitFails
    <2>2. CASE ResultRaises
      BY <2>2 DEF ResultRaises, TypeOK
    <2> QED
      BY <2>1, <2>2
  <1>3. Len(out) \in Nat /\ Len(out) = next - 1
    BY <1>1, QueueFacts DEF Printed
  <1>4. TypeOK'
    BY <1>1, <1>2 DEF TypeOK
  <1>5. Printed' /\ Flagged' /\ Concluded' /\ LinesFollowTheFile'
    BY <1>1, <1>3 DEF Printed, Flagged, Concluded, LinesFollowTheFile, Jobs
  <1>6. Shape' /\ InFlight' /\ Submitted'
    BY <1>1 DEF Shape, InFlight, Submitted, Pooled
  <1> QED
    BY <1>4, <1>5, <1>6

LEMMA AllEmittedInv == IInv /\ AllEmitted => IInv'
  <1> SUFFICES ASSUME IInv, AllEmitted PROVE IInv'
    OBVIOUS
  <1> USE NumUrlsAssumption, MaxWorkersAssumption DEF IInv
  <1>1. /\ main \in {"run", "emit"} /\ next = NumUrls + 1 /\ main' = "leave"
        /\ UNCHANGED <<workers, next, queue, at, future, out, anyFailed, aborted, exit>>
        /\ exit = NoExit
    BY DEF AllEmitted, Loop, TypeOK, Concluded
  <1>2. TypeOK' /\ Shape' /\ InFlight' /\ LinesFollowTheFile'
    BY <1>1 DEF TypeOK, Shape, InFlight, LinesFollowTheFile, Pooled
  <1>3. Submitted'
    BY <1>1 DEF Submitted, Pooled
  <1>4. Printed' /\ Flagged' /\ Concluded'
    BY <1>1 DEF Printed, Flagged, Concluded
  <1> QED
    BY <1>2, <1>3, <1>4

LEMMA LeaveInv == IInv /\ Leave => IInv'
  <1> SUFFICES ASSUME IInv, Leave PROVE IInv'
    OBVIOUS
  <1> USE NumUrlsAssumption, MaxWorkersAssumption DEF IInv
  <1>1. /\ main = "leave" /\ main' = "done" /\ queue = <<>>
        /\ \A w \in Threads : at[w] = NoJob
        /\ UNCHANGED <<workers, next, queue, at, future, out, anyFailed, aborted>>
    BY DEF Leave
  <1>2. exit' \in {0, 1} /\ (exit' = 0 <=> aborted = "no" /\ anyFailed = FALSE)
    BY DEF Leave, TypeOK
  <1>3. TypeOK'
    BY <1>1, <1>2 DEF TypeOK
  <1>4. Concluded'
    BY <1>1, <1>2 DEF Concluded, NoExit
  <1>5. Shape' /\ InFlight' /\ Submitted' /\ Printed' /\ Flagged' /\ LinesFollowTheFile'
    BY <1>1 DEF Shape, InFlight, Submitted, Printed, Flagged, LinesFollowTheFile, Pooled
  <1> QED
    BY <1>3, <1>4, <1>5

LEMMA InvStep == IInv /\ [Next]_vars => IInv'
  <1> SUFFICES ASSUME IInv, [Next]_vars PROVE IInv'
    OBVIOUS
  <1>1. CASE Submit
    BY <1>1, SubmitInv
  <1>2. CASE AllSubmitted
    BY <1>2, AllSubmittedInv
  <1>3. ASSUME NEW outcome \in Settled, RunOne(outcome) PROVE IInv'
    BY <1>3, RunOneInv
  <1>4. CASE Emit
    BY <1>4, EmitInv
  <1>5. CASE EmitFails \/ ResultRaises
    BY <1>5, AbortInv
  <1>6. CASE AllEmitted
    BY <1>6, AllEmittedInv
  <1>7. CASE Leave
    BY <1>7, LeaveInv
  <1>8. ASSUME NEW w \in Threads, Take(w) PROVE IInv'
    BY <1>8, TakeInv
  <1>9. ASSUME NEW w \in Threads, NEW outcome \in Settled, Settle(w, outcome) PROVE IInv'
    BY <1>9, SettleInv
  <1>10. CASE UNCHANGED vars
    BY <1>10 DEF vars, IInv, TypeOK, Shape, InFlight, Submitted, LinesFollowTheFile, Printed,
                 Flagged, Concluded, Pooled
  <1> QED
    BY <1>1, <1>2, <1>3, <1>4, <1>5, <1>6, <1>7, <1>8, <1>9, <1>10 DEF Next, Main, Thread

\* The inductive invariant holds in every reachable state.
THEOREM Invariance == Spec => []IInv
  BY InitInv, InvStep, PTL DEF Spec

\* The variables of bulk keep to their types.
THEOREM TypeCorrect == Spec => []TypeOK
  <1>1. IInv => TypeOK
    BY DEF IInv
  <1> QED
    BY <1>1, Invariance, PTL

\* The i-th line is about the i-th url, for any number of threads.
THEOREM Ordered == Spec => []LinesFollowTheFile
  <1>1. IInv => LinesFollowTheFile
    BY DEF IInv
  <1> QED
    BY <1>1, Invariance, PTL

\* Exit code 0 means that every url of the file was fetched and has its line.
THEOREM ExitCode == Spec => []ExitTellsFailures
  <1>1. IInv => ExitTellsFailures
    <2> SUFFICES ASSUME IInv, main = "done"
                 PROVE  exit = 0 <=> Len(out) = NumUrls /\ \A j \in Jobs : future[j] = "ok"
      BY DEF ExitTellsFailures
    <2> USE NumUrlsAssumption DEF IInv
    <2>1. Len(out) = NumUrls <=> aborted = "no"
      BY QueueFacts DEF Printed
    <2>2. \A i \in 1..Len(out) : out[i].kind = future[i] /\ out[i].kind \in Printable
      <3> SUFFICES ASSUME NEW i \in 1..Len(out)
                   PROVE  out[i].kind = future[i] /\ out[i].kind \in Printable
        OBVIOUS
      <3>1. out[i] \in [job : Jobs, kind : Printable]
        BY QueueFacts
      <3>2. out[i] = [job |-> i, kind |-> future[i]]
        BY DEF LinesFollowTheFile
      <3> QED
        BY <3>1, <3>2
    <2>3. aborted = "no" =>
            (anyFailed = FALSE <=> \A j \in Jobs : future[j] = "ok")
      <3> SUFFICES ASSUME aborted = "no"
                   PROVE  anyFailed = FALSE <=> \A j \in Jobs : future[j] = "ok"
        OBVIOUS
      <3>1. Len(out) = NumUrls
        BY <2>1
      <3>2. \A j \in Jobs : future[j] \in {"ok", "failed"} /\ out[j].kind = future[j]
        BY <2>2, <3>1 DEF Jobs, Printable
      <3>3. anyFailed = TRUE <=> \E j \in Jobs : future[j] = "failed"
        BY <3>1, <3>2 DEF Flagged, Jobs
      <3> QED
        BY <3>2, <3>3 DEF TypeOK
    <2>4. exit = 0 <=> aborted = "no" /\ anyFailed = FALSE
      BY DEF Concluded
    <2> QED
      BY <2>1, <2>3, <2>4
  <1> QED
    BY <1>1, Invariance, PTL

\* bulk does not exit before the last fetch it submitted is over.
THEOREM Quiet == Spec => []QuietAtExit
  <1>1. IInv => QuietAtExit
    <2> SUFFICES ASSUME IInv, main = "done"
                 PROVE  /\ queue = <<>>
                        /\ \A w \in Threads : at[w] = NoJob
                        /\ \A j \in Jobs : \/ future[j] \in Settled
                                           \/ ~Pooled /\ future[j] = "none"
      BY DEF QuietAtExit
    <2> USE DEF IInv
    <2>1. queue = <<>> /\ \A w \in Threads : at[w] = NoJob
      BY DEF Concluded
    <2>2. Len(queue) = 0
      BY <2>1, EmptySeq
    <2>3. \A j \in Jobs : future[j] # "pending"
      BY <2>2 DEF InFlight
    <2>4. \A j \in Jobs : future[j] # "running"
      BY <2>1 DEF InFlight, Jobs, NoJob
    <2>5. Pooled => \A j \in Jobs : future[j] # "none"
      BY DEF Submitted
    <2> QED
      BY <2>1, <2>3, <2>4, <2>5 DEF TypeOK, States
  <1> QED
    BY <1>1, Invariance, PTL

-----------------------------------------------------------------------------
\* What each printed line reports.
Kinds == [i \in 1..Len(out) |-> out[i].kind]

Verdict == CASE exit = NoExit -> "none"
             [] exit = 0      -> "ok"
             [] exit = 1      -> "failed"

LEMMA KindsSeq ==
  ASSUME NEW s \in Seq([job : Jobs, kind : Printable])
  PROVE  /\ [i \in 1..Len(s) |-> s[i].kind] \in Seq(Printable)
         /\ Len([i \in 1..Len(s) |-> s[i].kind]) = Len(s)
  <1>1. Len(s) \in Nat
    BY LenProperties
  <1>2. ASSUME NEW i \in 1..Len(s) PROVE s[i].kind \in Printable
    <2>1. s[i] \in [job : Jobs, kind : Printable]
      BY ElementOfSeq
    <2> QED
      BY <2>1
  <1> QED
    BY <1>1, <1>2, IsASeq

LEMMA KindsFacts == TypeOK => Kinds \in Seq(Printable) /\ Len(Kinds) = Len(out)
  BY KindsSeq DEF TypeOK, Kinds

LEMMA InitRefines == Init => Contract!Init
  <1> SUFFICES ASSUME Init PROVE Contract!Init
    OBVIOUS
  <1>1. Kinds = <<>>
    <2>1. Len(out) = 0 /\ TypeOK
      BY InitInv, EmptySeq DEF Init, IInv
    <2> QED
      BY <2>1, KindsFacts, EmptySeq
  <1>2. Verdict = "none"
    BY DEF Init, Verdict, NoExit
  <1> QED
    BY <1>1, <1>2 DEF Contract!Init, Kinds, Verdict

\* A line is printed: it is the next one of the contract.
LEMMA EmitRefines == IInv /\ Emit => Contract!Line
  <1> SUFFICES ASSUME IInv, Emit PROVE Contract!Line
    OBVIOUS
  <1> USE DEF IInv
  <1> DEFINE kind == future[next]
  <1>1. /\ main = "emit" /\ next \in Jobs /\ kind \in Printable /\ exit' = exit
        /\ out' = Append(out, [job |-> next, kind |-> kind])
    BY DEF Emit
  <1>2. TypeOK /\ TypeOK'
    BY EmitInv
  <1>3. exit = NoExit /\ Len(out) < NumUrls
    <2>1. Len(out) = next - 1
      BY <1>1 DEF Printed
    <2>2. exit = NoExit
      BY <1>1 DEF Concluded
    <2> QED
      BY <1>1, <2>1, <2>2, NumUrlsAssumption DEF Jobs
  <1>4. Kinds' = Append(Kinds, kind)
    <2>1. /\ Kinds \in Seq(Printable) /\ Len(Kinds) = Len(out)
          /\ Kinds' \in Seq(Printable) /\ Len(Kinds') = Len(out')
      BY <1>2, KindsFacts, KindsSeq DEF TypeOK, Kinds
    <2>2. [job |-> next, kind |-> kind] \in [job : Jobs, kind : Printable]
      BY <1>1
    <2>3. /\ Len(out') = Len(out) + 1
          /\ out'[Len(out) + 1] = [job |-> next, kind |-> kind]
          /\ \A i \in 1..Len(out) : out'[i] = out[i]
      BY <1>1, <2>2, AppendProperties DEF TypeOK
    <2>4. /\ Append(Kinds, kind) \in Seq(Printable)
          /\ Len(Append(Kinds, kind)) = Len(Kinds) + 1
          /\ Append(Kinds, kind)[Len(Kinds) + 1] = kind
          /\ \A i \in 1..Len(Kinds) : Append(Kinds, kind)[i] = Kinds[i]
      BY <1>1, <2>1, AppendProperties
    <2>5. ASSUME NEW i \in 1..Len(out') PROVE Kinds'[i] = Append(Kinds, kind)[i]
      <3>1. Kinds'[i] = out'[i].kind
        BY DEF Kinds
      <3>2. CASE i = Len(out) + 1
        BY <2>1, <2>3, <2>4, <3>1, <3>2
      <3>3. CASE i \in 1..Len(out)
        <4>1. Kinds[i] = out[i].kind
          BY <3>3 DEF Kinds
        <4> QED
          BY <2>1, <2>3, <2>4, <3>1, <3>3, <4>1
      <3>4. i = Len(out) + 1 \/ i \in 1..Len(out)
        <4>1. Len(out) \in Nat
          BY <1>2, QueueFacts
        <4>2. Len(out') = Len(out) + 1
          BY <2>3
        <4> QED
          BY <4>1, <4>2
      <3> QED
        BY <3>2, <3>3, <3>4
    <2> HIDE DEF kind
    <2> QED
      BY <2>1, <2>3, <2>4, <2>5, SeqEqual
  <1>5. Verdict = "none" /\ Verdict' = Verdict
    BY <1>1, <1>3 DEF Verdict, NoExit
  <1>6. Len(Kinds) < NumUrls
    BY <1>2, <1>3, KindsFacts
  <1> QED
    BY <1>1, <1>4, <1>5, <1>6 DEF Contract!Line, Kinds, Verdict, Printable

\* The exit code is what the contract concludes from the lines.
LEMMA LeaveRefines == IInv /\ Leave => Contract!Conclude
  <1> SUFFICES ASSUME IInv, Leave PROVE Contract!Conclude
    OBVIOUS
  <1> USE DEF IInv
  <1>1. /\ main = "leave" /\ out' = out
        /\ exit' = IF aborted # "no" \/ anyFailed THEN 1 ELSE 0
    BY DEF Leave
  <1>2. exit = NoExit
    BY <1>1 DEF Concluded
  <1>3. Len(out) = NumUrls <=> aborted = "no"
    BY <1>1, QueueFacts, NumUrlsAssumption DEF Printed
  <1>4. \A i \in 1..Len(out) : out[i].kind \in Printable /\ Kinds[i] = out[i].kind
    BY KindsFacts, ElementOfSeq DEF Kinds
  <1>5. aborted = "no" => (anyFailed = FALSE <=> \A i \in 1..Len(out) : Kinds[i] = "ok")
    <2>1. aborted = "no" => (anyFailed = TRUE <=> \E i \in 1..Len(out) : Kinds[i] = "failed")
      BY <1>4 DEF Flagged
    <2>2. \A i \in 1..Len(out) : Kinds[i] = "ok" <=> Kinds[i] # "failed"
      BY <1>4 DEF Printable
    <2> QED
      BY <2>1, <2>2 DEF TypeOK
  <1>6. Len(Kinds) = Len(out)
    BY KindsFacts
  <1>7. exit' = 0 <=> Len(Kinds) = NumUrls /\ \A i \in 1..Len(Kinds) : Kinds[i] = "ok"
    <2>1. anyFailed = TRUE \/ anyFailed = FALSE
      BY DEF TypeOK
    <2> QED
      BY <1>1, <1>3, <1>5, <1>6, <2>1
  <1>8. /\ Verdict = "none" /\ Kinds' = Kinds
        /\ Verdict' = IF exit' = 0 THEN "ok" ELSE "failed"
    BY <1>1, <1>2 DEF Verdict, Kinds, NoExit
  <1> QED
    BY <1>7, <1>8 DEF Contract!Conclude, Contract!Complete, Contract!AllOk, Kinds, Verdict

LEMMA StepRefines == IInv /\ [Next]_vars => [Contract!Next]_(Contract!vars)
  <1> SUFFICES ASSUME IInv, [Next]_vars PROVE [Contract!Next]_(Contract!vars)
    OBVIOUS
  <1>1. CASE Emit
    BY <1>1, EmitRefines DEF Contract!Next
  <1>2. CASE Leave
    BY <1>2, LeaveRefines DEF Contract!Next
  <1>3. ASSUME UNCHANGED <<out, exit>> PROVE UNCHANGED Contract!vars
    BY <1>3 DEF Contract!vars
  <1>4. \/ Emit \/ Leave \/ UNCHANGED <<out, exit>>
    BY DEF Next, Main, Thread, Submit, AllSubmitted, Take, Settle, RunOne, EmitFails,
           ResultRaises, AllEmitted, vars
  <1> QED
    BY <1>1, <1>2, <1>3, <1>4

\* With any number of threads bulk prints what the plain loop over the file may print,
\* and concludes from it what the loop concludes.
THEOREM Implements == Spec => Contract!Safe
  <1>1. Init => Contract!Init
    BY InitRefines
  <1>2. IInv /\ [Next]_vars => [Contract!Next]_(Contract!vars)
    BY StepRefines
  <1> QED
    BY <1>1, <1>2, Invariance, PTL DEF Spec, Contract!Safe

=============================================================================
