-------------------------- MODULE ThrottleProofs --------------------------
(***************************************************************************)
(* For every set of threads and hosts and every min_interval: the slots of *)
(* a host are spaced, and acquire waits for its slot and for nothing else. *)
(*                                                                         *)
(* The spacing is not inductive by itself.  What makes it so is that       *)
(* nextAllowed bounds every slot reserved so far (AllowedAfterSlots), and  *)
(* that the value a thread picked is still the right one when it stores    *)
(* it (Locals), which rests on the lock (Mutex).                           *)
(*                                                                         *)
(* The second half counts: when acquire has returned n times for a host,   *)
(* n - 1 intervals have passed (OnPace).  Each slot lies as many intervals *)
(* from the start as slots of its host were given before it (Paced).       *)
(***************************************************************************)
EXTENDS Throttle, FiniteSetTheorems, SequenceTheorems, TLAPS

\* Only the holder of the lock is between acquiring and releasing it.
Mutex == \A t \in Threads : pc[t] \in Critical => lock = t

Sampled  == {"pick", "store", "leave", "drowsy", "asleep", "return"}
Reserved == {"leave", "drowsy", "asleep", "return"}

\* What a thread's local variables are good for at each point.
LocalsOf(t) ==
  /\ pc[t] \in Sampled => now[t] <= clock
  /\ pc[t] = "store" => nextFree[t] = Later(now[t], nextAllowed[host[t]])
  /\ pc[t] \in Reserved => /\ ticket[t] \in 1..Len(slots)
                           /\ slots[ticket[t]].slot = nextFree[t]
  /\ pc[t] = "asleep" => wake[t] >= nextFree[t]
  /\ pc[t] = "return" => clock >= nextFree[t]

Locals == \A t \in Threads : LocalsOf(t)

\* The next slot of a host is at least an interval behind every slot it has given out,
AllowedAfterSlots ==
  \A i \in 1..Len(slots) : nextAllowed[slots[i].host] >= slots[i].slot + Interval

\* and exactly an interval behind one of them.
AllowedBehindSlot ==
  \A h \in Hosts :
     nextAllowed[h] # 0 => \E i \in 1..Len(slots) : /\ slots[i].host = h
                                                  /\ nextAllowed[h] = slots[i].slot + Interval

IInv == /\ TypeOK
        /\ Mutex
        /\ Locals
        /\ AllowedAfterSlots
        /\ AllowedBehindSlot
        /\ SlotsSpaced
        /\ NeverEarly
        /\ WaitsBehindOwnHost

LEMMA LaterIsMax ==
  ASSUME NEW a \in Nat, NEW b \in Nat
  PROVE  /\ Later(a, b) \in {a, b}
         /\ Later(a, b) >= a
         /\ Later(a, b) >= b
  BY DEF Later

LEMMA InitInv == Init => IInv
  <1> SUFFICES ASSUME Init PROVE IInv
    OBVIOUS
  <1>1. TypeOK
    BY BoundsAssumption DEF Init, TypeOK, Points, Critical
  <1>2. Len(slots) = 0
    BY DEF Init
  <1>3. Mutex /\ Locals
    BY DEF Init, Mutex, Locals, LocalsOf, Critical, Sampled, Reserved
  <1>4. AllowedAfterSlots /\ AllowedBehindSlot
    BY <1>2 DEF Init, AllowedAfterSlots, AllowedBehindSlot
  <1>5. SlotsSpaced /\ NeverEarly /\ WaitsBehindOwnHost
    BY <1>2 DEF SlotsSpaced, NeverEarly, WaitsBehindOwnHost
  <1> QED
    BY <1>1, <1>3, <1>4, <1>5 DEF IInv

LEMMA TypeStep == TypeOK /\ Locals /\ [Next]_vars => TypeOK'
  <1> SUFFICES ASSUME TypeOK, Locals, [Next]_vars
               PROVE  TypeOK'
    OBVIOUS
  <1> USE IntervalAssumption, BoundsAssumption DEF TypeOK, Points, Critical
  <1>1. ASSUME NEW t \in Threads, NEW h \in Hosts, Call(t, h)
        PROVE  TypeOK'
    BY <1>1 DEF Call, Goto
  <1>2. ASSUME NEW t \in Threads, Enter(t)
        PROVE  TypeOK'
    BY <1>2 DEF Enter, Goto, locals
  <1>3. ASSUME NEW t \in Threads, Sample(t)
        PROVE  TypeOK'
    BY <1>3 DEF Sample, Goto
  <1>4. ASSUME NEW t \in Threads, Pick(t)
        PROVE  TypeOK'
    <2>1. now[t] \in Nat /\ nextAllowed[host[t]] \in Nat
      OBVIOUS
    <2>2. Later(now[t], nextAllowed[host[t]]) \in Nat
      BY <2>1 DEF Later
    <2> QED
      BY <1>4, <2>2 DEF Pick, Goto
  <1>5. ASSUME NEW t \in Threads, Store(t)
        PROVE  TypeOK'
    <2>1. [by |-> t, host |-> host[t], asked |-> now[t], slot |-> nextFree[t], at |-> Never]
            \in Slot
      BY DEF Slot, Never
    <2>2. slots' \in Seq(Slot)
      BY <1>5, <2>1 DEF Store, Reserve
    <2>3. nextAllowed' \in [Hosts -> Nat] /\ ticket' \in [Threads -> Nat]
      BY <1>5 DEF Store, Reserve
    <2> QED
      BY <1>5, <2>2, <2>3 DEF Store, Reserve, Goto
  <1>6. ASSUME NEW t \in Threads, Leave(t)
        PROVE  TypeOK'
    BY <1>6 DEF Leave, Goto, locals
  <1>7. ASSUME NEW t \in Threads, Sleep(t)
        PROVE  TypeOK'
    <2>1. clock + (nextFree[t] - now[t]) \in Nat
      BY <1>7 DEF Sleep, Locals, LocalsOf, Sampled
    <2> QED
      BY <1>7, <2>1 DEF Sleep, Goto
  <1>8. ASSUME NEW t \in Threads, Wake(t)
        PROVE  TypeOK'
    BY <1>8 DEF Wake, Goto, locals
  <1>9. ASSUME NEW t \in Threads, Return(t)
        PROVE  TypeOK'
    <2>1. ticket[t] \in 1..Len(slots)
      BY <1>9 DEF Return, Locals, LocalsOf, Reserved
    <2>2. slots[ticket[t]] \in Slot
      BY <2>1, ElementOfSeq
    <2>3. [slots[ticket[t]] EXCEPT !.at = clock] \in Slot
      BY <2>2 DEF Slot
    <2>4. slots' \in Seq(Slot)
      BY <1>9, <2>1, <2>3, ExceptSeq DEF Return
    <2> QED
      BY <1>9, <2>4 DEF Return, Goto, locals
  <1>10. CASE Tick
    BY <1>10 DEF Tick, locals
  <1>11. CASE UNCHANGED vars
    BY <1>11 DEF vars, locals
  <1> QED
    BY <1>1, <1>2, <1>3, <1>4, <1>5, <1>6, <1>7, <1>8, <1>9, <1>10, <1>11 DEF Next, Acquire

\* The two steps that change slots: Store appends one, Return fills in a return time.
LEMMA StoreSlots ==
  ASSUME TypeOK, NEW t \in Threads, Store(t)
  PROVE  /\ Len(slots') = Len(slots) + 1
         /\ \A i \in 1..Len(slots) : slots'[i] = slots[i]
         /\ slots'[Len(slots) + 1].by = t
         /\ slots'[Len(slots) + 1].host = host[t]
         /\ slots'[Len(slots) + 1].asked = now[t]
         /\ slots'[Len(slots) + 1].slot = nextFree[t]
         /\ slots'[Len(slots) + 1].at = Never
  <1> DEFINE s == [by |-> t, host |-> host[t], asked |-> now[t],
                   slot |-> nextFree[t], at |-> Never]
  <1>1. /\ Len(slots') = Len(slots) + 1
        /\ \A i \in 1..Len(slots) : slots'[i] = slots[i]
        /\ slots'[Len(slots) + 1] = s
    BY DEF TypeOK, Store, Reserve
  <1> QED
    BY <1>1

LEMMA ReturnSlots ==
  ASSUME TypeOK, Locals, NEW t \in Threads, Return(t)
  PROVE  /\ Len(slots') = Len(slots)
         /\ \A i \in 1..Len(slots) :
              /\ slots'[i].by = slots[i].by
              /\ slots'[i].host = slots[i].host
              /\ slots'[i].slot = slots[i].slot
              /\ slots'[i].asked = slots[i].asked
              /\ slots'[i].at = IF i = ticket[t] THEN clock ELSE slots[i].at
  <1>1. ticket[t] \in 1..Len(slots)
    BY DEF Return, Locals, LocalsOf, Reserved
  <1>2. slots[ticket[t]] \in Slot
    BY <1>1, ElementOfSeq DEF TypeOK
  <1> DEFINE s == [slots[ticket[t]] EXCEPT !.at = clock]
  <1>3. s \in Slot
    BY <1>2 DEF Slot, TypeOK
  <1>4. slots' = [slots EXCEPT ![ticket[t]] = s]
    BY DEF Return
  <1>5. /\ Len(slots') = Len(slots)
        /\ \A i \in 1..Len(slots) : slots'[i] = IF i = ticket[t] THEN s ELSE slots[i]
    BY <1>1, <1>3, <1>4, ExceptSeq DEF TypeOK
  <1>6. /\ s.by = slots[ticket[t]].by
        /\ s.host = slots[ticket[t]].host
        /\ s.slot = slots[ticket[t]].slot
        /\ s.asked = slots[ticket[t]].asked
        /\ s.at = clock
    BY <1>2 DEF Slot
  <1> QED
    BY <1>5, <1>6

LEMMA SlotTypes ==
  ASSUME TypeOK, NEW i \in 1..Len(slots)
  PROVE  /\ slots[i].host \in Hosts
         /\ slots[i].slot \in Nat
         /\ slots[i].asked \in Nat
         /\ slots[i].at \in Nat \cup {Never}
  <1>1. slots[i] \in Slot
    BY ElementOfSeq DEF TypeOK
  <1> QED
    BY <1>1 DEF Slot

\* What the steps that are neither Store nor Return leave alone.
Quiet == UNCHANGED <<nextAllowed, slots>>

LEMMA QuietSteps ==
  ASSUME [Next]_vars
  PROVE  Quiet \/ \E t \in Threads : Store(t) \/ Return(t)
  BY DEF Next, Acquire, Call, Enter, Sample, Pick, Leave, Sleep, Wake, Tick, Quiet, locals, vars

LEMMA MutexStep == TypeOK /\ Mutex /\ [Next]_vars => Mutex'
  <1> SUFFICES ASSUME TypeOK, Mutex, [Next]_vars
               PROVE  Mutex'
    OBVIOUS
  <1> USE ThreadsAssumption DEF TypeOK, Mutex, Points, Critical
  <1>1. ASSUME NEW t \in Threads, NEW h \in Hosts, Call(t, h)
        PROVE  Mutex'
    BY <1>1 DEF Call, Goto
  <1>2. ASSUME NEW t \in Threads, Enter(t)
        PROVE  Mutex'
    BY <1>2 DEF Enter, Goto
  <1>3. ASSUME NEW t \in Threads, Sample(t) \/ Pick(t) \/ Store(t)
        PROVE  Mutex'
    BY <1>3 DEF Sample, Pick, Store, Reserve, Goto
  <1>4. ASSUME NEW t \in Threads, Leave(t)
        PROVE  Mutex'
    BY <1>4 DEF Leave, Goto
  <1>5. ASSUME NEW t \in Threads, Sleep(t) \/ Wake(t) \/ Return(t)
        PROVE  Mutex'
    BY <1>5 DEF Sleep, Wake, Return, Goto
  <1>6. CASE Tick \/ UNCHANGED vars
    BY <1>6 DEF Tick, vars
  <1> QED
    BY <1>1, <1>2, <1>3, <1>4, <1>5, <1>6 DEF Next, Acquire

LEMMA LocalsStep == TypeOK /\ Mutex /\ Locals /\ [Next]_vars => Locals'
  <1> SUFFICES ASSUME TypeOK, Mutex, Locals, [Next]_vars, NEW u \in Threads
               PROVE  LocalsOf(u)'
    BY DEF Locals
  <1>1. LocalsOf(u)
    BY DEF Locals
  <1> USE IntervalAssumption DEF TypeOK, Points, Critical, Sampled, Reserved, LocalsOf
  <1>2. ASSUME NEW t \in Threads, NEW h \in Hosts, Call(t, h)
        PROVE  LocalsOf(u)'
    BY <1>1, <1>2 DEF Call, Goto
  <1>3. ASSUME NEW t \in Threads, Enter(t)
        PROVE  LocalsOf(u)'
    BY <1>1, <1>3 DEF Enter, Goto, locals
  <1>4. ASSUME NEW t \in Threads, Sample(t)
        PROVE  LocalsOf(u)'
    BY <1>1, <1>4 DEF Sample, Goto
  <1>5. ASSUME NEW t \in Threads, Pick(t)
        PROVE  LocalsOf(u)'
    BY <1>1, <1>5 DEF Pick, Goto
  <1>6. ASSUME NEW t \in Threads, Store(t)
        PROVE  LocalsOf(u)'
    <2>1. /\ Len(slots') = Len(slots) + 1
          /\ \A i \in 1..Len(slots) : slots'[i] = slots[i]
          /\ slots'[Len(slots) + 1].slot = nextFree[t]
      BY <1>6, StoreSlots
    <2>2. Len(slots) \in Nat
      BY LenProperties
    <2>3. CASE u = t
      BY <1>1, <1>6, <2>1, <2>2, <2>3 DEF Store, Reserve, Goto
    <2>4. CASE u # t
      <3>1. pc[u] # "store"
        BY <1>6, <2>4 DEF Store, Mutex
      <3> QED
        BY <1>1, <1>6, <2>1, <2>2, <2>4, <3>1 DEF Store, Reserve, Goto
    <2> QED
      BY <2>3, <2>4
  <1>7. ASSUME NEW t \in Threads, Leave(t)
        PROVE  LocalsOf(u)'
    BY <1>1, <1>7 DEF Leave, Goto, locals
  <1>8. ASSUME NEW t \in Threads, Sleep(t)
        PROVE  LocalsOf(u)'
    BY <1>1, <1>8 DEF Sleep, Goto
  <1>9. ASSUME NEW t \in Threads, Wake(t)
        PROVE  LocalsOf(u)'
    BY <1>1, <1>9 DEF Wake, Goto, locals
  <1>10. ASSUME NEW t \in Threads, Return(t)
        PROVE  LocalsOf(u)'
    <2>1. /\ Len(slots') = Len(slots)
          /\ \A i \in 1..Len(slots) : slots'[i].slot = slots[i].slot
      BY <1>10, ReturnSlots
    <2> QED
      BY <1>1, <1>10, <2>1 DEF Return, Goto, locals
  <1>11. CASE Tick
    BY <1>1, <1>11 DEF Tick, locals
  <1>12. CASE UNCHANGED vars
    BY <1>1, <1>12 DEF vars, locals
  <1> QED
    BY <1>2, <1>3, <1>4, <1>5, <1>6, <1>7, <1>8, <1>9, <1>10, <1>11, <1>12 DEF Next, Acquire

\* What Store reserves: the later of the caller's time and the host's next slot.
LEMMA StoreReserves ==
  ASSUME TypeOK, Locals, NEW t \in Threads, Store(t)
  PROVE  /\ nextFree[t] \in {now[t], nextAllowed[host[t]]}
         /\ nextFree[t] >= now[t]
         /\ nextFree[t] >= nextAllowed[host[t]]
         /\ nextAllowed' = [nextAllowed EXCEPT ![host[t]] = nextFree[t] + Interval]
  <1>1. now[t] \in Nat /\ host[t] \in Hosts /\ nextAllowed[host[t]] \in Nat
    BY DEF TypeOK
  <1>2. nextFree[t] = Later(now[t], nextAllowed[host[t]])
    BY DEF Store, Locals, LocalsOf
  <1> QED
    BY <1>1, <1>2, LaterIsMax DEF Store

AllowedInv == AllowedAfterSlots /\ AllowedBehindSlot

LEMMA AllowedStep == TypeOK /\ Locals /\ AllowedInv /\ [Next]_vars => AllowedInv'
  <1> SUFFICES ASSUME TypeOK, Locals, AllowedInv, [Next]_vars
               PROVE  AllowedInv'
    OBVIOUS
  <1> USE DEF AllowedInv, AllowedAfterSlots, AllowedBehindSlot
  <1>1. CASE Quiet
    BY <1>1 DEF Quiet
  <1>2. ASSUME NEW t \in Threads, Store(t)
        PROVE  AllowedInv'
    <2>1. /\ Len(slots') = Len(slots) + 1
          /\ \A i \in 1..Len(slots) : slots'[i] = slots[i]
          /\ slots'[Len(slots) + 1].slot = nextFree[t]
          /\ slots'[Len(slots) + 1].host = host[t]
      BY <1>2, StoreSlots
    <2>2. Len(slots) \in Nat
      BY LenProperties DEF TypeOK
    <2>3. /\ nextAllowed' = [nextAllowed EXCEPT ![host[t]] = nextFree[t] + Interval]
          /\ nextFree[t] >= nextAllowed[host[t]]
      BY <1>2, StoreReserves
    <2>4. /\ host[t] \in Hosts
          /\ nextAllowed \in [Hosts -> Nat]
          /\ nextFree[t] \in Nat
          /\ Interval \in Nat
      BY IntervalAssumption DEF TypeOK
    <2>5. ASSUME NEW i \in 1..Len(slots')
          PROVE  nextAllowed'[slots'[i].host] >= slots'[i].slot + Interval
      <3>1. CASE i = Len(slots) + 1
        BY <2>1, <2>3, <2>4, <3>1
      <3>2. CASE i \in 1..Len(slots)
        <4>1. slots[i].host \in Hosts /\ slots[i].slot \in Nat
          BY <3>2, SlotTypes
        <4>2. nextAllowed[slots[i].host] >= slots[i].slot + Interval
          BY <3>2
        <4> QED
          BY <2>1, <2>3, <2>4, <3>2, <4>1, <4>2
      <3> QED
        BY <2>1, <2>2, <3>1, <3>2
    <2>6. ASSUME NEW h \in Hosts, nextAllowed'[h] # 0
          PROVE  \E i \in 1..Len(slots') : /\ slots'[i].host = h
                                          /\ nextAllowed'[h] = slots'[i].slot + Interval
      <3>1. CASE h = host[t]
        BY <2>1, <2>2, <2>3, <2>4, <3>1
      <3>2. CASE h # host[t]
        <4>1. nextAllowed'[h] = nextAllowed[h]
          BY <2>3, <2>4, <3>2
        <4>2. PICK i \in 1..Len(slots) : /\ slots[i].host = h
                                         /\ nextAllowed[h] = slots[i].slot + Interval
          BY <2>6, <4>1
        <4> QED
          BY <2>1, <2>2, <4>1, <4>2
      <3> QED
        BY <3>1, <3>2
    <2> QED
      BY <2>5, <2>6
  <1>3. ASSUME NEW t \in Threads, Return(t)
        PROVE  AllowedInv'
    <2>1. nextAllowed' = nextAllowed
      BY <1>3 DEF Return
    <2>2. /\ Len(slots') = Len(slots)
          /\ \A i \in 1..Len(slots) : /\ slots'[i].host = slots[i].host
                                      /\ slots'[i].slot = slots[i].slot
      BY <1>3, ReturnSlots
    <2> QED
      BY <2>1, <2>2
  <1> QED
    BY <1>1, <1>2, <1>3, QuietSteps

LEMMA SpacedStep ==
  TypeOK /\ Locals /\ AllowedInv /\ SlotsSpaced /\ [Next]_vars => SlotsSpaced'
  <1> SUFFICES ASSUME TypeOK, Locals, AllowedInv, SlotsSpaced, [Next]_vars
               PROVE  SlotsSpaced'
    OBVIOUS
  <1> USE DEF SlotsSpaced
  <1>1. CASE Quiet
    BY <1>1 DEF Quiet
  <1>2. ASSUME NEW t \in Threads, Store(t)
        PROVE  SlotsSpaced'
    <2>1. /\ Len(slots') = Len(slots) + 1
          /\ \A i \in 1..Len(slots) : slots'[i] = slots[i]
          /\ slots'[Len(slots) + 1].slot = nextFree[t]
          /\ slots'[Len(slots) + 1].host = host[t]
      BY <1>2, StoreSlots
    <2>2. Len(slots) \in Nat /\ Interval \in Nat /\ host[t] \in Hosts
      BY LenProperties, IntervalAssumption DEF TypeOK
    <2>3. nextFree[t] >= nextAllowed[host[t]]
      BY <1>2, StoreReserves
    <2>4. ASSUME NEW i \in 1..Len(slots'), NEW j \in 1..Len(slots'),
                 i < j, slots'[i].host = slots'[j].host
          PROVE  slots'[j].slot >= slots'[i].slot + Interval
      <3>1. i \in 1..Len(slots)
        BY <2>1, <2>2, <2>4
      <3>2. CASE j \in 1..Len(slots)
        BY <2>1, <2>4, <3>1, <3>2
      <3>3. CASE j = Len(slots) + 1
        <4>1. slots[i].host = host[t]
          BY <2>1, <2>4, <3>1, <3>3
        <4>2. nextAllowed[host[t]] >= slots[i].slot + Interval
          BY <3>1, <4>1 DEF AllowedInv, AllowedAfterSlots
        <4>3. slots[i].slot \in Nat /\ nextAllowed[host[t]] \in Nat /\ nextFree[t] \in Nat
          BY <2>2, <3>1, SlotTypes DEF TypeOK
        <4> QED
          BY <2>1, <2>2, <2>3, <3>1, <3>3, <4>2, <4>3
      <3> QED
        BY <2>1, <2>2, <3>2, <3>3
    <2> QED
      BY <2>4
  <1>3. ASSUME NEW t \in Threads, Return(t)
        PROVE  SlotsSpaced'
    <2>1. /\ Len(slots') = Len(slots)
          /\ \A i \in 1..Len(slots) : /\ slots'[i].host = slots[i].host
                                      /\ slots'[i].slot = slots[i].slot
      BY <1>3, ReturnSlots
    <2> QED
      BY <2>1
  <1> QED
    BY <1>1, <1>2, <1>3, QuietSteps

LEMMA NeverEarlyStep == TypeOK /\ Locals /\ NeverEarly /\ [Next]_vars => NeverEarly'
  <1> SUFFICES ASSUME TypeOK, Locals, NeverEarly, [Next]_vars
               PROVE  NeverEarly'
    OBVIOUS
  <1> USE DEF NeverEarly
  <1>1. CASE Quiet
    BY <1>1 DEF Quiet
  <1>2. ASSUME NEW t \in Threads, Store(t)
        PROVE  NeverEarly'
    <2>1. /\ Len(slots') = Len(slots) + 1
          /\ \A i \in 1..Len(slots) : slots'[i] = slots[i]
          /\ slots'[Len(slots) + 1].slot = nextFree[t]
          /\ slots'[Len(slots) + 1].asked = now[t]
          /\ slots'[Len(slots) + 1].at = Never
      BY <1>2, StoreSlots
    <2>2. nextFree[t] >= now[t]
      BY <1>2, StoreReserves
    <2>3. Len(slots) \in Nat
      BY LenProperties DEF TypeOK
    <2> QED
      BY <2>1, <2>2, <2>3
  <1>3. ASSUME NEW t \in Threads, Return(t)
        PROVE  NeverEarly'
    <2>1. /\ Len(slots') = Len(slots)
          /\ \A i \in 1..Len(slots) :
               /\ slots'[i].slot = slots[i].slot
               /\ slots'[i].asked = slots[i].asked
               /\ slots'[i].at = IF i = ticket[t] THEN clock ELSE slots[i].at
      BY <1>3, ReturnSlots
    <2>2. clock >= slots[ticket[t]].slot
      BY <1>3 DEF Return, Locals, LocalsOf, Reserved
    <2> QED
      BY <2>1, <2>2
  <1> QED
    BY <1>1, <1>2, <1>3, QuietSteps

LEMMA WaitsStep ==
  TypeOK /\ Locals /\ AllowedInv /\ WaitsBehindOwnHost /\ [Next]_vars => WaitsBehindOwnHost'
  <1> SUFFICES ASSUME TypeOK, Locals, AllowedInv, WaitsBehindOwnHost, [Next]_vars
               PROVE  WaitsBehindOwnHost'
    OBVIOUS
  <1> USE DEF WaitsBehindOwnHost
  <1>1. CASE Quiet
    BY <1>1 DEF Quiet
  <1>2. ASSUME NEW t \in Threads, Store(t)
        PROVE  WaitsBehindOwnHost'
    <2>1. /\ Len(slots') = Len(slots) + 1
          /\ \A i \in 1..Len(slots) : slots'[i] = slots[i]
          /\ slots'[Len(slots) + 1].host = host[t]
          /\ slots'[Len(slots) + 1].slot = nextFree[t]
          /\ slots'[Len(slots) + 1].asked = now[t]
      BY <1>2, StoreSlots
    <2>2. Len(slots) \in Nat /\ host[t] \in Hosts /\ now[t] \in Nat
      BY LenProperties DEF TypeOK
    <2>3. ASSUME NEW j \in 1..Len(slots'), slots'[j].slot > slots'[j].asked
          PROVE  \E i \in 1 .. j - 1 : /\ slots'[i].host = slots'[j].host
                                      /\ slots'[j].slot = slots'[i].slot + Interval
      <3>1. CASE j \in 1..Len(slots)
        BY <2>1, <2>2, <2>3, <3>1
      <3>2. CASE j = Len(slots) + 1
        <4>1. nextFree[t] > now[t]
          BY <2>1, <2>3, <3>2
        <4>2. nextFree[t] = nextAllowed[host[t]] /\ nextFree[t] # 0
          BY <1>2, <2>2, <4>1, StoreReserves
        <4>3. PICK i \in 1..Len(slots) : /\ slots[i].host = host[t]
                                         /\ nextFree[t] = slots[i].slot + Interval
          BY <2>2, <4>2 DEF AllowedInv, AllowedBehindSlot
        <4> QED
          BY <2>1, <2>2, <3>2, <4>3
      <3> QED
        BY <2>1, <2>2, <3>1, <3>2
    <2> QED
      BY <2>3
  <1>3. ASSUME NEW t \in Threads, Return(t)
        PROVE  WaitsBehindOwnHost'
    <2>1. /\ Len(slots') = Len(slots)
          /\ \A i \in 1..Len(slots) : /\ slots'[i].host = slots[i].host
                                      /\ slots'[i].slot = slots[i].slot
                                      /\ slots'[i].asked = slots[i].asked
      BY <1>3, ReturnSlots
    <2>2. Len(slots) \in Nat
      BY LenProperties DEF TypeOK
    <2> QED
      BY <2>1, <2>2
  <1> QED
    BY <1>1, <1>2, <1>3, QuietSteps

LEMMA InvStep == IInv /\ [Next]_vars => IInv'
  BY TypeStep, MutexStep, LocalsStep, AllowedStep, SpacedStep, NeverEarlyStep, WaitsStep
     DEF IInv, AllowedInv

\* The inductive invariant holds in every reachable state.
THEOREM Invariance == Spec => []IInv
  BY InitInv, InvStep, PTL DEF Spec

\* The variables of acquire keep to their types.
THEOREM TypeCorrect == Spec => []TypeOK
  <1>1. IInv => TypeOK
    BY DEF IInv
  <1> QED
    BY <1>1, Invariance, PTL

\* Slots of one host are at least min_interval apart, for any number of threads.
THEOREM Spacing == Spec => []SlotsSpaced
  <1>1. IInv => SlotsSpaced
    BY DEF IInv
  <1> QED
    BY <1>1, Invariance, PTL

\* No thread leaves acquire before its slot.
THEOREM Punctual == Spec => []NeverEarly
  <1>1. IInv => NeverEarly
    BY DEF IInv
  <1> QED
    BY <1>1, Invariance, PTL

\* A thread waits only behind a slot of its own host, and only one interval.
THEOREM OnlyOwnHost == Spec => []WaitsBehindOwnHost
  <1>1. IInv => WaitsBehindOwnHost
    BY DEF IInv
  <1> QED
    BY <1>1, Invariance, PTL

-----------------------------------------------------------------------------
(***************************************************************************)
(* The pace of a host: when n callers have their slot behind them, n - 1   *)
(* intervals have passed.  Slots is what remains of the calls; each thread *)
(* fills in the slot of its own (Owned).                                   *)
(***************************************************************************)

\* The slots of h among the first n, and those whose callers have returned.
Given(h, n)    == {k \in 1..n : slots[k].host = h}
HasReturned(h) == {k \in 1..Len(slots) : slots[k].host = h /\ slots[k].at # Never}

Rows(n) == n * Interval

Owned == \A t \in Threads : pc[t] \in Reserved =>
           LET s == slots[ticket[t]] IN s.by = t /\ s.host = host[t] /\ s.at = Never

\* Each slot has those before it behind it, and so has the next one.
Paced ==
  /\ \A h \in Hosts : nextAllowed[h] >= Rows(Cardinality(Given(h, Len(slots))))
  /\ \A i \in 1..Len(slots) :
       slots[i].slot >= Rows(Cardinality(Given(slots[i].host, i)) - 1)

Stamped == \A i \in 1..Len(slots) : slots[i].at # Never => clock >= slots[i].at

Latest == \A h \in Hosts : \/ HasReturned(h) = {}
                           \/ \E i \in HasReturned(h) : HasReturned(h) \subseteq 1..i

PaceInv == Owned /\ Paced /\ Stamped /\ Latest

OnPace == \A h \in Hosts : clock >= Rows(Cardinality(HasReturned(h)) - 1)

LEMMA RowFacts ==
  ASSUME NEW n \in Nat
  PROVE  Rows(n) \in Nat /\ Rows(n + 1) = Rows(n) + Interval
  BY IntervalAssumption DEF Rows

LEMMA RowsGrow ==
  ASSUME NEW n \in Int, NEW m \in Int, n <= m
  PROVE  Rows(n) <= Rows(m) /\ Rows(n) \in Int /\ Rows(m) \in Int
  BY IntervalAssumption DEF Rows

LEMMA GivenFacts ==
  ASSUME NEW h \in Hosts, NEW n \in Nat
  PROVE  /\ IsFiniteSet(Given(h, n)) /\ Cardinality(Given(h, n)) \in Nat
  <1>1. IsFiniteSet(1..n) /\ Given(h, n) \subseteq 1..n
    BY FS_Interval DEF Given
  <1> QED
    BY <1>1, FS_Subset, FS_CardinalityType

\* A slot reserved for h counts for h from then on, and for nobody else.
LEMMA StoreGives ==
  ASSUME TypeOK, NEW t \in Threads, Store(t), NEW h \in Hosts, NEW l \in Nat, l = Len(slots)
  PROVE  /\ \A n \in 0..l : Given(h, n)' = Given(h, n)
         /\ Cardinality(Given(h, l + 1)')
              = IF h = host[t] THEN Cardinality(Given(h, l)) + 1 ELSE Cardinality(Given(h, l))
         /\ HasReturned(h)' = HasReturned(h)
  <1>1. /\ Len(slots') = l + 1
        /\ \A i \in 1..l : slots'[i] = slots[i]
        /\ slots'[l + 1].host = host[t] /\ slots'[l + 1].at = Never
    BY StoreSlots
  <1>2. 1 .. l + 1 = 1..l \cup {l + 1} /\ l + 1 \notin 1..l
    OBVIOUS
  <1>3. \A n \in 0..l : Given(h, n)' = Given(h, n)
    BY <1>1 DEF Given
  <1>4. HasReturned(h)' = HasReturned(h)
    <2>1. HasReturned(h) = {k \in 1..l : slots[k].host = h /\ slots[k].at # Never}
      BY DEF HasReturned
    <2>2. HasReturned(h)' = {k \in 1 .. l + 1 : slots'[k].host = h /\ slots'[k].at # Never}
      BY <1>1 DEF HasReturned, Never
    <2> QED
      BY <1>1, <1>2, <2>1, <2>2
  <1>5. Cardinality(Given(h, l + 1)')
          = IF h = host[t] THEN Cardinality(Given(h, l)) + 1 ELSE Cardinality(Given(h, l))
    <2>1. Given(h, l) = {k \in 1..l : slots[k].host = h}
      BY DEF Given
    <2>2. Given(h, l + 1)' = {k \in 1 .. l + 1 : slots'[k].host = h}
      BY DEF Given
    <2>3. l + 1 \notin Given(h, l)
      BY <1>2, <2>1
    <2>4. CASE h = host[t]
      <3>1. Given(h, l + 1)' = Given(h, l) \cup {l + 1}
        BY <1>1, <1>2, <2>1, <2>2, <2>4
      <3> QED
        BY <2>3, <2>4, <3>1, GivenFacts, FS_AddElement
    <2>5. CASE h # host[t]
      <3>1. Given(h, l + 1)' = Given(h, l)
        BY <1>1, <1>2, <2>1, <2>2, <2>5
      <3> QED
        BY <2>5, <3>1
    <2> QED
      BY <2>4, <2>5
  <1> QED
    BY <1>3, <1>4, <1>5

\* A caller that returns fills in its own slot, which nobody has filled in before.
LEMMA ReturnFills ==
  ASSUME TypeOK, Locals, Owned, NEW t \in Threads, Return(t), NEW h \in Hosts
  PROVE  /\ \A n \in 0..Len(slots) : Given(h, n)' = Given(h, n)
         /\ HasReturned(h)' = IF h = host[t] THEN HasReturned(h) \cup {ticket[t]}
                                            ELSE HasReturned(h)
         /\ ticket[t] \in 1..Len(slots) /\ ticket[t] \notin HasReturned(h)
  <1>1. /\ ticket[t] \in 1..Len(slots)
        /\ slots[ticket[t]].host = host[t] /\ slots[ticket[t]].at = Never
    BY DEF Locals, LocalsOf, Owned, Return, Reserved
  <1>2. /\ Len(slots') = Len(slots) /\ Len(slots) \in Nat
        /\ \A i \in 1..Len(slots) :
             /\ slots'[i].host = slots[i].host
             /\ slots'[i].at = IF i = ticket[t] THEN clock ELSE slots[i].at
    BY ReturnSlots, LenProperties DEF TypeOK
  <1>3. clock # Never
    BY DEF TypeOK, Never
  <1>4. \A n \in 0..Len(slots) : Given(h, n)' = Given(h, n)
    BY <1>2 DEF Given
  <1>5. HasReturned(h)' = {k \in 1..Len(slots) : slots'[k].host = h /\ slots'[k].at # Never}
    BY <1>2 DEF HasReturned, Never
  <1>6. HasReturned(h)' = IF h = host[t] THEN HasReturned(h) \cup {ticket[t]} ELSE HasReturned(h)
    BY <1>1, <1>2, <1>3, <1>5 DEF HasReturned
  <1> QED
    BY <1>1, <1>4, <1>6 DEF HasReturned

LEMMA OwnedStep == TypeOK /\ Locals /\ Owned /\ [Next]_vars => Owned'
  <1> SUFFICES ASSUME TypeOK, Locals, Owned, [Next]_vars, NEW u \in Threads,
                      (pc[u] \in Reserved)'
               PROVE  LET s == slots'[ticket'[u]]
                      IN  s.by = u /\ s.host = host'[u] /\ s.at = Never
    BY DEF Owned, Never
  <1> USE DEF TypeOK, Points, Critical, Reserved
  <1>1. ASSUME NEW t \in Threads, Store(t)
        PROVE  LET s == slots'[ticket'[u]]
               IN  s.by = u /\ s.host = host'[u] /\ s.at = Never
    <2>1. /\ Len(slots) \in Nat
          /\ \A i \in 1..Len(slots) : slots'[i] = slots[i]
          /\ slots'[Len(slots) + 1].by = t /\ slots'[Len(slots) + 1].host = host[t]
          /\ slots'[Len(slots) + 1].at = Never
      BY <1>1, StoreSlots, LenProperties
    <2>2. CASE u = t
      BY <1>1, <2>1, <2>2 DEF Store, Reserve
    <2>3. CASE u # t
      <3>1. pc[u] \in Reserved /\ ticket'[u] = ticket[u] /\ host' = host
        BY <1>1, <2>3 DEF Store, Reserve, Goto
      <3>2. ticket[u] \in 1..Len(slots)
        BY <3>1 DEF Locals, LocalsOf
      <3> QED
        BY <2>1, <3>1, <3>2 DEF Owned
    <2> QED
      BY <2>2, <2>3
  <1>2. ASSUME NEW t \in Threads, Return(t)
        PROVE  LET s == slots'[ticket'[u]]
               IN  s.by = u /\ s.host = host'[u] /\ s.at = Never
    <2>1. u # t /\ pc[u] \in Reserved /\ pc[t] \in Reserved
          /\ ticket' = ticket /\ host' = host
      BY <1>2 DEF Return, Goto, locals
    <2>2. /\ ticket[u] \in 1..Len(slots) /\ slots[ticket[u]].by = u
          /\ ticket[t] \in 1..Len(slots) /\ slots[ticket[t]].by = t
      BY <2>1 DEF Locals, LocalsOf, Owned
    <2> QED
      BY <1>2, <2>1, <2>2, ReturnSlots DEF Owned
  <1>3. ASSUME NEW t \in Threads,
               Enter(t) \/ Sample(t) \/ Pick(t) \/ Leave(t) \/ Sleep(t) \/ Wake(t)
        PROVE  pc[u] \in Reserved /\ UNCHANGED <<slots, ticket, host>>
    BY <1>3 DEF Enter, Sample, Pick, Leave, Sleep, Wake, Goto, locals
  <1>4. ASSUME NEW t \in Threads, NEW h \in Hosts, Call(t, h)
        PROVE  pc[u] \in Reserved /\ UNCHANGED <<slots, ticket, host[u]>>
    BY <1>4 DEF Call, Goto
  <1>5. CASE Tick \/ UNCHANGED vars
    BY <1>5 DEF Tick, vars, locals, Owned
  <1> QED
    BY <1>1, <1>2, <1>3, <1>4, <1>5 DEF Owned, Next, Acquire

LEMMA PacedStep == TypeOK /\ Locals /\ Owned /\ Paced /\ [Next]_vars => Paced'
  <1> SUFFICES ASSUME TypeOK, Locals, Owned, Paced, [Next]_vars PROVE Paced'
    OBVIOUS
  <1>1. CASE Quiet
    BY <1>1 DEF Quiet, Paced, Given
  <1>2. ASSUME NEW t \in Threads, Store(t)
        PROVE  Paced'
    <2>1. PICK l \in Nat : l = Len(slots)
      BY LenProperties DEF TypeOK
    <2>2. /\ Len(slots') = l + 1
          /\ \A i \in 1..l : slots'[i] = slots[i]
          /\ slots'[l + 1].host = host[t] /\ slots'[l + 1].slot = nextFree[t]
      BY <1>2, <2>1, StoreSlots
    <2>3. /\ host[t] \in Hosts /\ nextFree[t] \in Nat /\ nextAllowed \in [Hosts -> Nat]
          /\ nextFree[t] >= nextAllowed[host[t]]
          /\ nextAllowed' = [nextAllowed EXCEPT ![host[t]] = nextFree[t] + Interval]
      BY <1>2, StoreReserves DEF TypeOK
    <2> DEFINE c(h) == Cardinality(Given(h, l))
    <2>4. \A h \in Hosts : /\ c(h) \in Nat /\ Rows(c(h)) \in Nat
                           /\ Rows(c(h) + 1) = Rows(c(h)) + Interval
                           /\ nextAllowed[h] >= Rows(c(h))
      BY <2>1, GivenFacts, RowFacts DEF Paced
    <2>5. \A h \in Hosts : Cardinality(Given(h, l + 1)')
                             = IF h = host[t] THEN c(h) + 1 ELSE c(h)
      BY <1>2, <2>1, StoreGives
    <2> HIDE DEF c
    <2>6. ASSUME NEW h \in Hosts
          PROVE  nextAllowed'[h] >= Rows(Cardinality(Given(h, Len(slots))'))
      <3>1. Given(h, Len(slots))' = Given(h, l + 1)'
        BY <2>2 DEF Given
      <3>2. CASE h = host[t]
        BY <2>3, <2>4, <2>5, <3>1, <3>2, IntervalAssumption
      <3>3. CASE h # host[t]
        BY <2>3, <2>4, <2>5, <3>1, <3>3
      <3> QED
        BY <3>2, <3>3
    <2>7. ASSUME NEW i \in 1 .. l + 1, NEW h \in Hosts, slots'[i].host = h
          PROVE  slots'[i].slot >= Rows(Cardinality(Given(h, i)') - 1)
      <3>1. CASE i \in 1..l
        <4>1. Given(h, i)' = Given(h, i) /\ slots[i].host = h /\ slots'[i].slot = slots[i].slot
          BY <1>2, <2>1, <2>2, <2>7, <3>1, StoreGives
        <4> QED
          BY <2>1, <3>1, <4>1 DEF Paced
      <3>2. CASE i = l + 1
        <4>1. h = host[t] /\ slots'[i].slot = nextFree[t]
          BY <2>2, <2>7, <3>2
        <4>2. Cardinality(Given(h, i)') = c(h) + 1
          BY <2>5, <3>2, <4>1
        <4>3. c(h) \in Nat /\ c(h) + 1 - 1 = c(h)
          BY <2>4
        <4> QED
          BY <2>3, <2>4, <4>1, <4>2, <4>3
      <3> QED
        BY <2>1, <3>1, <3>2
    <2>8. \A i \in 1 .. l + 1 : slots'[i].host \in Hosts
      BY <2>1, <2>2, <2>3, SlotTypes
    <2>9. ASSUME NEW i \in 1 .. l + 1
          PROVE  (slots[i].slot >= Rows(Cardinality(Given(slots[i].host, i)) - 1))'
      <3>1. PICK h \in Hosts : slots'[i].host = h
        BY <2>8
      <3>2. Given(slots[i].host, i)' = Given(h, i)'
        BY <3>1 DEF Given
      <3> QED
        BY <2>7, <3>1, <3>2
    <2> QED
      BY <2>2, <2>6, <2>9 DEF Paced
  <1>3. ASSUME NEW t \in Threads, Return(t)
        PROVE  Paced'
    <2>1. /\ Len(slots') = Len(slots) /\ Len(slots) \in Nat /\ UNCHANGED nextAllowed
          /\ \A i \in 1..Len(slots) : /\ slots'[i].host = slots[i].host
                                     /\ slots'[i].slot = slots[i].slot
      BY <1>3, ReturnSlots, LenProperties DEF TypeOK, Return
    <2>2. \A h \in Hosts : Given(h, Len(slots))' = Given(h, Len(slots))
      BY <2>1 DEF Given
    <2>3. \A i \in 1..Len(slots) : Given(slots[i].host, i)' = Given(slots[i].host, i)
      BY <2>1 DEF Given
    <2> QED
      BY <2>1, <2>2, <2>3 DEF Paced
  <1> QED
    BY <1>1, <1>2, <1>3, QuietSteps

LEMMA StampedStep == TypeOK /\ Locals /\ Stamped /\ [Next]_vars => Stamped'
  <1> SUFFICES ASSUME TypeOK, Locals, Stamped, [Next]_vars, NEW i \in 1..Len(slots'),
                      slots'[i].at # Never
               PROVE  clock' >= slots'[i].at
    BY DEF Stamped, Never
  <1>1. clock \in Nat /\ clock' \in Nat /\ clock' >= clock
    <2>1. clock' = clock \/ clock' = clock + 1
      BY DEF Next, Acquire, Call, Enter, Sample, Pick, Store, Reserve, Leave, Sleep, Wake,
             Return, Tick, vars
    <2> QED
      BY <2>1 DEF TypeOK
  <1>2. CASE Quiet
    BY <1>1, <1>2, SlotTypes DEF Quiet, Stamped, Never
  <1>3. ASSUME NEW t \in Threads, Store(t)
        PROVE  clock' >= slots'[i].at
    <2>1. i \in 1..Len(slots) /\ slots'[i] = slots[i]
      BY <1>3, StoreSlots, LenProperties DEF TypeOK
    <2> QED
      BY <1>1, <2>1, SlotTypes DEF Stamped, Never
  <1>4. ASSUME NEW t \in Threads, Return(t)
        PROVE  clock' >= slots'[i].at
    BY <1>1, <1>4, ReturnSlots, SlotTypes DEF Stamped, Never
  <1> QED
    BY <1>2, <1>3, <1>4, QuietSteps

LEMMA LatestStep == TypeOK /\ Locals /\ Owned /\ Latest /\ [Next]_vars => Latest'
  <1> SUFFICES ASSUME TypeOK, Locals, Owned, Latest, [Next]_vars, NEW h \in Hosts
               PROVE  \/ HasReturned(h)' = {}
                      \/ \E i \in HasReturned(h)' : HasReturned(h)' \subseteq 1..i
    BY DEF Latest
  <1>1. CASE Quiet \/ \E t \in Threads : Store(t)
    <2>1. HasReturned(h)' = HasReturned(h)
      BY <1>1, StoreGives, LenProperties DEF Quiet, HasReturned, TypeOK, Never
    <2> QED
      BY <2>1 DEF Latest
  <1>2. ASSUME NEW t \in Threads, Return(t), h = host[t]
        PROVE  \E i \in HasReturned(h)' : HasReturned(h)' \subseteq 1..i
    <2>1. /\ HasReturned(h)' = HasReturned(h) \cup {ticket[t]}
          /\ ticket[t] \in 1..Len(slots) /\ Len(slots) \in Nat
      BY <1>2, ReturnFills, LenProperties DEF TypeOK
    <2>2. CASE HasReturned(h) = {}
      BY <2>1, <2>2
    <2>3. ASSUME NEW i \in HasReturned(h), HasReturned(h) \subseteq 1..i
          PROVE  \E k \in HasReturned(h)' : HasReturned(h)' \subseteq 1..k
      <3>1. i \in 1..Len(slots)
        BY DEF HasReturned
      <3>2. CASE ticket[t] <= i
        BY <2>1, <2>3, <3>1, <3>2
      <3>3. CASE i <= ticket[t]
        <4>1. HasReturned(h)' \subseteq 1..ticket[t]
          BY <2>1, <2>3, <3>1, <3>3
        <4> QED
          BY <2>1, <4>1
      <3> QED
        BY <2>1, <3>1, <3>2, <3>3
    <2> QED
      BY <2>2, <2>3 DEF Latest
  <1>3. ASSUME NEW t \in Threads, Return(t), h # host[t]
        PROVE  HasReturned(h)' = HasReturned(h)
    BY <1>3, ReturnFills
  <1> QED
    BY <1>1, <1>2, <1>3, QuietSteps DEF Latest

LEMMA PaceStart == Init => PaceInv
  <1> SUFFICES ASSUME Init PROVE PaceInv
    OBVIOUS
  <1>1. Len(slots) = 0 /\ clock = 0
    BY DEF Init
  <1>2. ASSUME NEW h \in Hosts
        PROVE  /\ HasReturned(h) = {}
               /\ nextAllowed[h] >= Rows(Cardinality(Given(h, Len(slots))))
    <2>1. HasReturned(h) = {} /\ Given(h, Len(slots)) = {}
      BY <1>1 DEF HasReturned, Given
    <2>2. Rows(0) = 0 /\ nextAllowed[h] = 0
      BY IntervalAssumption DEF Rows, Init
    <2> QED
      BY <2>1, <2>2, FS_EmptySet
  <1>3. Owned
    BY DEF Init, Owned, Reserved
  <1> QED
    BY <1>1, <1>2, <1>3 DEF PaceInv, Paced, Stamped, Latest

LEMMA PaceStep == IInv /\ PaceInv /\ [Next]_vars => PaceInv'
  BY OwnedStep, PacedStep, StampedStep, LatestStep DEF IInv, PaceInv

THEOREM PaceInvariance == Spec => []PaceInv
  BY Invariance, PaceStart, PaceStep, PTL DEF Spec

\* The latest slot of a host whose caller has returned has all the others behind it.
LEMMA PaceNow == IInv /\ PaceInv => OnPace
  <1> SUFFICES ASSUME IInv, PaceInv, NEW h \in Hosts
               PROVE  clock >= Rows(Cardinality(HasReturned(h)) - 1)
    BY DEF OnPace
  <1>1. Len(slots) \in Nat /\ clock \in Nat
    BY LenProperties DEF IInv, TypeOK
  <1>2. CASE HasReturned(h) = {}
    BY <1>1, <1>2, FS_EmptySet, IntervalAssumption DEF Rows
  <1>3. ASSUME NEW i \in HasReturned(h), HasReturned(h) \subseteq 1..i
        PROVE  clock >= Rows(Cardinality(HasReturned(h)) - 1)
    <2>1. i \in 1..Len(slots) /\ slots[i].host = h /\ slots[i].at # Never
      BY DEF HasReturned
    <2>2. slots[i].slot \in Nat /\ slots[i].at \in Nat
      BY <2>1, SlotTypes DEF IInv
    <2>3. HasReturned(h) \subseteq Given(h, i) /\ i \in Nat
      BY <1>1, <1>3, <2>1 DEF HasReturned, Given
    <2>4. /\ Cardinality(HasReturned(h)) \in Nat /\ Cardinality(Given(h, i)) \in Nat
          /\ Cardinality(HasReturned(h)) <= Cardinality(Given(h, i))
      BY <2>3, GivenFacts, FS_Subset, FS_CardinalityType
    <2>5. /\ Rows(Cardinality(HasReturned(h)) - 1) <= Rows(Cardinality(Given(h, i)) - 1)
          /\ Rows(Cardinality(HasReturned(h)) - 1) \in Int
          /\ Rows(Cardinality(Given(h, i)) - 1) \in Int
      BY <2>4, RowsGrow
    <2>6. /\ slots[i].slot >= Rows(Cardinality(Given(h, i)) - 1)
          /\ slots[i].at >= slots[i].slot /\ clock >= slots[i].at
      BY <2>1 DEF IInv, PaceInv, Paced, NeverEarly, Stamped
    <2> QED
      BY <1>1, <2>2, <2>5, <2>6
  <1> QED
    BY <1>2, <1>3 DEF PaceInv, Latest

\* Requests to a host never run ahead of its pace: the n-th goes out n - 1 intervals after
\* the clock began, or later.
THEOREM Pace == Spec => []OnPace
  BY PaceNow, Invariance, PaceInvariance, PTL

=============================================================================
