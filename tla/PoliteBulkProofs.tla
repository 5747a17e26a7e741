-------------------------- MODULE PoliteBulkProofs --------------------------
(***************************************************************************)
(* For any number of urls, workers and hosts and any --delay: a throttled  *)
(* pool is a pool (BulkPool), its threads use the throttle as its callers  *)
(* do (Throttle), and so the results about either hold of both together.   *)
(* What neither says by itself is that each url that goes out has used up  *)
(* one slot of its own host; the pace of the requests follows from it.     *)
(*                                                                         *)
(* The count rests on the urls in hand: a thread that is inside acquire()  *)
(* is there for the url it took, and for that one's host (Matched).        *)
(***************************************************************************)
EXTENDS PoliteBulk, BulkPoolProofs, FiniteSetTheorems

P == INSTANCE ThrottleProofs WITH Interval <- Delay, MaxCalls <- NumUrls

\* A thread is inside acquire() for the host of its url.
Matched == \A w \in Threads : pc[w] # "idle" => at[w] # NoJob /\ HostOf[at[w]] = host[w]

SentTo(h) == {j \in UrlsOf(h) : Sent(j)}

PoliteInv == Pooled /\ Matched /\ OneSlotPerUrl

-----------------------------------------------------------------------------
\* The pool in it.

LEMMA PoliteStepsArePoolSteps == [PoliteNext]_allVars => [Next]_vars
  BY DEF PoliteNext, MainThread, Time, Worker, StartFetch, StartMalformed, Wait, EndFetch,
         Next, Thread, allVars

\* With a throttle bulk does nothing that it could not do without.
THEOREM IsAPool == PoliteSpec => Spec
  <1>1. PoliteInit => Init
    BY DEF PoliteInit
  <1> QED
    BY <1>1, PoliteStepsArePoolSteps, PTL DEF PoliteSpec, Spec

THEOREM PoolInvariance == PoliteSpec => []IInv
  BY IsAPool, Invariance, PTL

-----------------------------------------------------------------------------
\* The throttle in it.

LEMMA ThrottleAssumptions ==
  /\ NoThread \notin Threads
  /\ Delay \in Nat
  /\ NumUrls \in Nat /\ MaxTime \in Nat
  BY ThreadAssumption, DelayAssumption, NumUrlsAssumption

LEMMA SameAcquire ==
  ASSUME NEW w \in Threads
  PROVE  T!Acquire(w) <=> P!Acquire(w)
  BY DEF T!Acquire, P!Acquire, T!Enter, P!Enter, T!Sample, P!Sample, T!Pick, P!Pick, T!Store,
         P!Store, T!Reserve, P!Reserve, T!Leave, P!Leave, T!Sleep, P!Sleep, T!Wake, P!Wake,
         T!Return, P!Return, T!Goto, P!Goto, T!locals, P!locals, T!Later, P!Later, T!Never,
         P!Never

LEMMA SameCall ==
  ASSUME NEW w \in Threads, NEW h \in Hosts
  PROVE  T!Call(w, h) <=> P!Call(w, h)
  BY DEF T!Call, P!Call, T!Goto, P!Goto

LEMMA SameTick == T!Tick <=> P!Tick
  BY DEF T!Tick, P!Tick, T!Sleeping, P!Sleeping, T!locals, P!locals

LEMMA PoliteStepsAreThrottleSteps == [PoliteNext]_allVars => [P!Next]_(P!vars)
  <1> USE DEF throttle, P!vars, P!locals
  <1>1. ASSUME NEW w \in Threads, Worker(w) PROVE P!Next \/ UNCHANGED P!vars
    <2>1. ASSUME StartFetch(w) PROVE P!Next
      BY <2>1, SameCall DEF StartFetch, P!Next
    <2>2. ASSUME Wait(w) PROVE P!Next
      BY <2>2, SameAcquire DEF Wait, P!Next
    <2> QED
      BY <1>1, <2>1, <2>2 DEF Worker, StartMalformed, EndFetch
  <1>2. ASSUME MainThread PROVE UNCHANGED P!vars
    BY <1>2 DEF MainThread
  <1>3. ASSUME Time PROVE P!Next
    BY <1>3, SameTick DEF Time, P!Next
  <1>4. ASSUME UNCHANGED allVars PROVE UNCHANGED P!vars
    BY <1>4 DEF allVars
  <1> QED
    BY <1>1, <1>2, <1>3, <1>4 DEF PoliteNext

THEOREM PacerInvariance == PoliteSpec => [](P!IInv /\ P!PaceInv)
  <1>1. PoliteInit => P!Init
    BY DEF PoliteInit, T!Init, P!Init
  <1>2. PoliteSpec => P!Spec
    BY <1>1, PoliteStepsAreThrottleSteps, PTL DEF PoliteSpec, P!Spec
  <1>3. P!Spec => []P!IInv /\ []P!PaceInv
    BY P!Invariance, P!PaceInvariance, ThrottleAssumptions
  <1> QED
    BY <1>2, <1>3, PTL

-----------------------------------------------------------------------------
\* What the steps of a thread inside acquire() do to what the pool has in hand.

\* A call of acquire() goes on, or returns; nobody else's call does.
LEMMA AcquireMoves ==
  ASSUME P!TypeOK, NEW w \in Threads, P!Acquire(w)
  PROVE  /\ pc[w] # "idle" /\ UNCHANGED host
         /\ \A v \in Threads : v # w => pc'[v] = pc[v]
         /\ pc'[w] = "idle" <=> P!Return(w)
  <1> USE DEF P!TypeOK, P!Goto, P!locals
  <1>1. CASE P!Enter(w) \/ P!Sample(w) \/ P!Pick(w) \/ P!Store(w)
    BY <1>1 DEF P!Enter, P!Sample, P!Pick, P!Store, P!Reserve, P!Return
  <1>2. CASE P!Leave(w) \/ P!Sleep(w) \/ P!Wake(w)
    BY <1>2 DEF P!Leave, P!Sleep, P!Wake, P!Return
  <1>3. CASE P!Return(w)
    BY <1>3 DEF P!Return
  <1> QED
    BY <1>1, <1>2, <1>3 DEF P!Acquire

\* Only a call that returns has its slot behind it.
LEMMA ReturnsCount ==
  ASSUME P!IInv, P!PaceInv, NEW w \in Threads, P!Acquire(w), NEW h \in Hosts
  PROVE  P!HasReturned(h)' = IF P!Return(w) /\ h = host[w]
                             THEN P!HasReturned(h) \cup {ticket[w]}
                             ELSE P!HasReturned(h)
  <1>1. P!TypeOK /\ P!Locals /\ P!Owned
    BY DEF P!IInv, P!PaceInv
  <1>2. CASE P!Return(w)
    BY <1>1, <1>2, P!ReturnFills, ThrottleAssumptions
  <1>3. CASE P!Store(w)
    <2>1. Len(slots) \in Nat
      BY <1>1, LenProperties DEF P!TypeOK
    <2>2. P!HasReturned(h)' = P!HasReturned(h)
      BY <1>1, <1>3, <2>1, P!StoreGives, ThrottleAssumptions
    <2> QED
      BY <1>3, <2>2 DEF P!Store, P!Return
  <1>4. CASE ~P!Return(w) /\ ~P!Store(w)
    <2>1. UNCHANGED slots
      BY <1>4 DEF P!Acquire, P!Enter, P!Sample, P!Pick, P!Leave, P!Sleep, P!Wake
    <2> QED
      BY <1>4, <2>1 DEF P!HasReturned, P!Never
  <1> QED
    BY <1>2, <1>3, <1>4

LEMMA Finite ==
  ASSUME NEW h \in Hosts, P!TypeOK
  PROVE  IsFiniteSet(SentTo(h)) /\ IsFiniteSet(P!HasReturned(h))
  <1>1. IsFiniteSet(Jobs) /\ SentTo(h) \subseteq Jobs
    BY NumUrlsAssumption, FS_Interval DEF SentTo, UrlsOf, Jobs
  <1>2. IsFiniteSet(1..Len(slots)) /\ P!HasReturned(h) \subseteq 1..Len(slots)
    BY LenProperties, FS_Interval DEF P!TypeOK, P!HasReturned
  <1> QED
    BY <1>1, <1>2, FS_Subset

LEMMA CountsAre ==
  OneSlotPerUrl <=> \A h \in Hosts : Cardinality(P!HasReturned(h)) = Cardinality(SentTo(h))
  BY DEF OneSlotPerUrl, P!HasReturned, SentTo, T!Never, P!Never

\* Where neither side of the count changes.
LEMMA NothingCounted ==
  ASSUME OneSlotPerUrl, UNCHANGED slots, \A h \in Hosts : SentTo(h)' = SentTo(h)
  PROVE  OneSlotPerUrl'
  BY DEF OneSlotPerUrl, SentTo, T!Never

-----------------------------------------------------------------------------
\* The steps, one by one.

LEMMA MainThreadInv ==
  ASSUME IInv, PoliteInv, MainThread
  PROVE  PoliteInv'
  <1> USE DEF IInv, PoliteInv, MainThread, throttle
  <1>1. Pooled' /\ UNCHANGED <<at, pc, host, slots>>
    BY DEF Main, Submit, AllSubmitted, RunOne, Emit, EmitFails, ResultRaises, AllEmitted, Leave,
           Pooled
  <1>2. Matched'
    BY <1>1 DEF Matched
  <1>3. \A j \in Jobs : future'[j] \in Settled <=> future[j] \in Settled
    <2>1. CASE Submit
      <3>1. future[next] = "none" /\ next \in Jobs
        BY <2>1, NumUrlsAssumption DEF Submit, Submitted, Jobs
      <3> QED
        BY <2>1, <3>1 DEF Submit, Settled, Printable, TypeOK
    <2>2. CASE ~Submit
      BY <2>2 DEF Main, AllSubmitted, RunOne, Emit, EmitFails, ResultRaises, AllEmitted, Leave,
                  Shape
    <2> QED
      BY <2>1, <2>2
  <1>4. \A h \in Hosts : SentTo(h)' = SentTo(h)
    BY <1>1, <1>3 DEF SentTo, UrlsOf, Sent
  <1> QED
    BY <1>1, <1>2, <1>4, NothingCounted

\* A url that a thread takes has not gone out, and does not by being taken.
LEMMA TakeFacts ==
  ASSUME IInv, NEW w \in Threads, Take(w)
  PROVE  LET j == Head(queue) IN
         /\ j \in Jobs /\ j # NoJob /\ at[w] = NoJob
         /\ ~Sent(j)
         /\ at' = [at EXCEPT ![w] = j] /\ future' = [future EXCEPT ![j] = "running"]
         /\ \A v \in Threads : at[v] # j
  <1> USE DEF IInv
  <1>1. Len(queue) \in Nat \ {0} /\ Head(queue) = queue[1]
    BY EmptySeq, LenProperties DEF Take, TypeOK
  <1>2. queue[1] \in Jobs /\ queue[1] # NoJob /\ future[queue[1]] = "pending"
    BY <1>1, QueueFacts DEF InFlight, Jobs, NoJob
  <1>3. \A v \in Threads : at[v] # queue[1]
    BY <1>2 DEF InFlight
  <1> QED
    BY <1>1, <1>2, <1>3 DEF Take, Sent, Settled, Printable

LEMMA SentSame ==
  ASSUME NEW k \in Jobs, future'[k] \in Settled <=> future[k] \in Settled,
         \A v \in Threads : at'[v] = k /\ pc'[v] = "idle" <=> at[v] = k /\ pc[v] = "idle"
  PROVE  Sent(k)' <=> Sent(k)
  BY DEF Sent

LEMMA NotAJob == NoJob \notin Jobs
  BY DEF NoJob, Jobs

LEMMA StartFetchInv ==
  ASSUME IInv, P!TypeOK, PoliteInv, NEW w \in Threads, StartFetch(w)
  PROVE  PoliteInv'
  <1> USE DEF PoliteInv
  <1> DEFINE j == Head(queue)
  <1>1. /\ j \in Jobs /\ j # NoJob /\ at[w] = NoJob /\ ~Sent(j)
        /\ at' = [at EXCEPT ![w] = j] /\ future' = [future EXCEPT ![j] = "running"]
        /\ \A v \in Threads : at[v] # j
    BY TakeFacts DEF StartFetch
  <1>2. /\ pc' = [pc EXCEPT ![w] = "enter"] /\ host' = [host EXCEPT ![w] = HostOf[j]]
        /\ UNCHANGED slots
    <2>1. Delay > 0
      BY DelayAssumption
    <2> QED
      BY <2>1 DEF StartFetch, T!Call, T!Goto
  <1>3. /\ at \in [Threads -> {NoJob} \cup Jobs] /\ future \in [Jobs -> States]
        /\ pc \in [Threads -> P!Points] /\ host \in [Threads -> Hosts]
    BY DEF IInv, TypeOK, P!TypeOK
  <1> HIDE DEF j
  <1>4. Matched'
    BY <1>1, <1>2, <1>3 DEF Matched
  <1>5. \A k \in Jobs : Sent(k)' <=> Sent(k)
    <2> SUFFICES ASSUME NEW k \in Jobs PROVE Sent(k)' <=> Sent(k)
      OBVIOUS
    <2>1. future'[k] \in Settled <=> future[k] \in Settled
      BY <1>1, <1>3 DEF Sent, Settled, Printable
    <2>2. at'[w] = j /\ pc'[w] = "enter"
      BY <1>1, <1>2, <1>3
    <2>3. \A v \in Threads : v # w => at'[v] = at[v] /\ pc'[v] = pc[v]
      BY <1>1, <1>2, <1>3
    <2> QED
      BY <1>1, <2>1, <2>2, <2>3, SentSame, NotAJob
  <1>6. \A h \in Hosts : SentTo(h)' = SentTo(h)
    BY <1>5 DEF SentTo, UrlsOf
  <1>7. Pooled'
    BY DEF StartFetch, Take, Pooled
  <1> QED
    BY <1>2, <1>4, <1>6, <1>7, NothingCounted

\* A url without a host is counted for none.
LEMMA StartMalformedInv ==
  ASSUME IInv, P!TypeOK, PoliteInv, NEW w \in Threads, StartMalformed(w)
  PROVE  PoliteInv'
  <1> USE DEF PoliteInv
  <1> DEFINE j == Head(queue)
  <1>1. /\ j \in Jobs /\ j # NoJob /\ at[w] = NoJob /\ ~Sent(j)
        /\ at' = [at EXCEPT ![w] = j] /\ future' = [future EXCEPT ![j] = "running"]
        /\ \A v \in Threads : at[v] # j
    BY TakeFacts DEF StartMalformed
  <1>2. HostOf[j] = NoHost /\ UNCHANGED <<pc, host, slots>>
    BY DEF StartMalformed, throttle
  <1>3. /\ at \in [Threads -> {NoJob} \cup Jobs] /\ future \in [Jobs -> States]
    BY DEF IInv, TypeOK
  <1> HIDE DEF j
  <1>4. Matched'
    BY <1>1, <1>2, <1>3 DEF Matched
  <1>5. \A k \in Jobs : k # j => (Sent(k)' <=> Sent(k))
    <2> SUFFICES ASSUME NEW k \in Jobs, k # j PROVE Sent(k)' <=> Sent(k)
      OBVIOUS
    <2>1. future'[k] \in Settled <=> future[k] \in Settled
      BY <1>1, <1>3
    <2>2. at'[w] = j /\ \A v \in Threads : v # w => at'[v] = at[v]
      BY <1>1, <1>3
    <2> QED
      BY <1>1, <1>2, <2>1, <2>2, SentSame, NotAJob
  <1>6. \A h \in Hosts : SentTo(h)' = SentTo(h)
    BY <1>2, <1>5, HostOfAssumption DEF SentTo, UrlsOf
  <1>7. Pooled'
    BY DEF StartMalformed, Take, Pooled
  <1> QED
    BY <1>2, <1>4, <1>6, <1>7, NothingCounted

\* A fetch ends as one that had gone out.
LEMMA EndFetchInv ==
  ASSUME IInv, PoliteInv, NEW w \in Threads, NEW result \in Settled, EndFetch(w, result)
  PROVE  PoliteInv'
  <1> USE DEF PoliteInv
  <1> DEFINE j == at[w]
  <1>1. /\ j # NoJob /\ pc[w] = "idle" /\ UNCHANGED <<pc, host, slots>>
        /\ at' = [at EXCEPT ![w] = NoJob] /\ future' = [future EXCEPT ![j] = result]
    BY DEF EndFetch, Settle, throttle
  <1>2. /\ at \in [Threads -> {NoJob} \cup Jobs] /\ future \in [Jobs -> States]
        /\ j \in Jobs
    BY <1>1 DEF IInv, TypeOK
  <1>3. NoJob \notin Jobs
    BY DEF Jobs, NoJob
  <1> HIDE DEF j
  <1>4. Matched'
    BY <1>1, <1>2 DEF Matched
  <1>5. \A k \in Jobs : Sent(k)' <=> Sent(k)
    BY <1>1, <1>2, <1>3 DEF Sent, j
  <1>6. \A h \in Hosts : SentTo(h)' = SentTo(h)
    BY <1>5 DEF SentTo, UrlsOf
  <1>7. Pooled'
    BY DEF EndFetch, Settle, Pooled
  <1> QED
    BY <1>1, <1>4, <1>6, <1>7, NothingCounted

\* The url goes out as acquire() returns, for the slot its thread has reserved.
LEMMA WaitInv ==
  ASSUME IInv, P!IInv, P!PaceInv, PoliteInv, NEW w \in Threads, Wait(w)
  PROVE  PoliteInv'
  <1> USE DEF PoliteInv
  <1>1. P!Acquire(w) /\ P!TypeOK /\ UNCHANGED <<workers, at, future>>
    BY SameAcquire DEF Wait, vars, P!IInv
  <1>2. /\ pc[w] # "idle" /\ UNCHANGED host
        /\ \A v \in Threads : v # w => pc'[v] = pc[v]
        /\ pc'[w] = "idle" <=> P!Return(w)
    BY <1>1, AcquireMoves
  <1>3. PICK j \in Jobs : /\ at[w] = j /\ HostOf[j] = host[w] /\ future[j] \notin Settled
                         /\ \A v \in Threads : at[v] = j => v = w
    BY <1>1, <1>2, NotAJob DEF Matched, IInv, TypeOK, InFlight, Settled, Printable
  <1>4. Matched' /\ Pooled'
    BY <1>1, <1>2 DEF Matched, Pooled
  <1>5. ~Sent(j) /\ (Sent(j)' <=> P!Return(w)) /\ \A k \in Jobs : k # j => (Sent(k)' <=> Sent(k))
    BY <1>1, <1>2, <1>3 DEF Sent
  <1>6. ASSUME NEW h \in Hosts
        PROVE  Cardinality(P!HasReturned(h)') = Cardinality(SentTo(h)')
    <2>1. /\ Cardinality(P!HasReturned(h)) = Cardinality(SentTo(h))
          /\ IsFiniteSet(P!HasReturned(h)) /\ IsFiniteSet(SentTo(h))
      BY <1>1, CountsAre, Finite
    <2>2. CASE P!Return(w) /\ h = host[w]
      <3>1. P!HasReturned(h)' = P!HasReturned(h) \cup {ticket[w]}
        BY <1>1, <2>2, ReturnsCount
      <3>2. ticket[w] \notin P!HasReturned(h)
        BY <2>2, P!ReturnFills, ThrottleAssumptions DEF P!IInv, P!PaceInv
      <3>3. SentTo(h)' = SentTo(h) \cup {j} /\ j \notin SentTo(h)
        <4>1. j \in UrlsOf(h)
          BY <1>3, <2>2 DEF UrlsOf
        <4>2. UrlsOf(h) \subseteq Jobs /\ SentTo(h)' = {k \in UrlsOf(h) : Sent(k)'}
          BY DEF UrlsOf, SentTo
        <4> QED
          BY <1>5, <2>2, <4>1, <4>2 DEF SentTo
      <3>4. Cardinality(P!HasReturned(h)') = Cardinality(P!HasReturned(h)) + 1
        BY <2>1, <3>1, <3>2, FS_AddElement
      <3>5. Cardinality(SentTo(h)') = Cardinality(SentTo(h)) + 1
        BY <2>1, <3>3, FS_AddElement
      <3> QED
        BY <2>1, <3>4, <3>5
    <2>3. CASE ~(P!Return(w) /\ h = host[w])
      <3>1. P!HasReturned(h)' = P!HasReturned(h)
        BY <1>1, <2>3, ReturnsCount
      <3>2. SentTo(h)' = SentTo(h)
        <4>1. j \in UrlsOf(h) => ~P!Return(w)
          BY <1>3, <2>3 DEF UrlsOf
        <4>2. UrlsOf(h) \subseteq Jobs /\ SentTo(h)' = {k \in UrlsOf(h) : Sent(k)'}
          BY DEF UrlsOf, SentTo
        <4> QED
          BY <1>5, <4>1, <4>2 DEF SentTo
      <3> QED
        BY <2>1, <3>1, <3>2
    <2> QED
      BY <2>2, <2>3
  <1>7. OneSlotPerUrl'
    BY <1>6 DEF OneSlotPerUrl, P!HasReturned, SentTo, T!Never, P!Never
  <1> QED
    BY <1>4, <1>7

LEMMA PoliteStep ==
  ASSUME IInv, P!IInv, P!PaceInv, PoliteInv, [PoliteNext]_allVars
  PROVE  PoliteInv'
  <1>1. CASE Time \/ UNCHANGED allVars
    <2>1. UNCHANGED <<vars, pc, host, slots>>
      BY <1>1 DEF Time, T!Tick, T!locals, allVars, throttle
    <2>2. \A h \in Hosts : SentTo(h)' = SentTo(h)
      BY <2>1 DEF vars, SentTo, UrlsOf, Sent
    <2> QED
      BY <2>1, <2>2, NothingCounted DEF vars, PoliteInv, Pooled, Matched
  <1>2. CASE MainThread
    BY <1>2, MainThreadInv
  <1>3. ASSUME NEW w \in Threads, Worker(w) PROVE PoliteInv'
    BY <1>3, StartFetchInv, StartMalformedInv, EndFetchInv, WaitInv DEF Worker, P!IInv
  <1> QED
    BY <1>1, <1>2, <1>3 DEF PoliteNext

LEMMA PoliteStart == PoliteInit => PoliteInv
  <1> SUFFICES ASSUME PoliteInit PROVE PoliteInv
    OBVIOUS
  <1>1. Pooled /\ Matched
    BY DEF PoliteInit, T!Init, Matched
  <1>2. ASSUME NEW h \in Hosts PROVE SentTo(h) = {} /\ P!HasReturned(h) = {}
    <2>1. Len(slots) = 0
      BY EmptySeq DEF PoliteInit, T!Init
    <2>2. \A j \in Jobs : ~Sent(j)
      BY DEF PoliteInit, Init, Sent, Settled, Printable, Jobs, NoJob
    <2> QED
      BY <2>1, <2>2 DEF SentTo, UrlsOf, P!HasReturned
  <1>3. OneSlotPerUrl
    BY <1>2, CountsAre
  <1> QED
    BY <1>1, <1>3 DEF PoliteInv

THEOREM PoliteInvariance == PoliteSpec => []PoliteInv
  BY PoliteStart, PoliteStep, PoolInvariance, PacerInvariance, PTL DEF PoliteSpec

\* Per host, as many slots are used up as urls went out.
THEOREM SlotPerUrl == PoliteSpec => []OneSlotPerUrl
  <1>1. PoliteInv => OneSlotPerUrl
    BY DEF PoliteInv
  <1> QED
    BY <1>1, PoliteInvariance, PTL

\* When n urls of a host may be on their way, n - 1 delays have passed.
THEOREM Paced == PoliteSpec => []PaceIsKept
  <1>1. ASSUME P!IInv, P!PaceInv, OneSlotPerUrl PROVE PaceIsKept
    <2>1. P!OnPace
      BY <1>1, P!PaceNow, ThrottleAssumptions
    <2>2. \A h \in Hosts : Cardinality(P!HasReturned(h)) = Cardinality(SentTo(h))
      BY <1>1, CountsAre
    <2>3. \A h \in Hosts : clock >= P!Rows(Cardinality(P!HasReturned(h)) - 1)
      BY <2>1 DEF P!OnPace, P!Cardinality, Cardinality
    <2>4. \A h \in Hosts : clock >= P!Rows(Cardinality(SentTo(h)) - 1)
      BY <2>2, <2>3
    <2> QED
      BY <2>4 DEF PaceIsKept, SentTo, P!Rows
  <1> QED
    BY <1>1, SlotPerUrl, PacerInvariance, PTL

=============================================================================
