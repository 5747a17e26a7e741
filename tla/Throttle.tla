----------------------------- MODULE Throttle -----------------------------
(***************************************************************************)
(* Throttle.acquire (throttle.py) called by several threads that share one *)
(* Throttle: each reserves its host's next slot under the lock, then waits *)
(* for it outside.  Every statement that touches shared state or reads the *)
(* clock is a step of its own, so that threads interleave between any two  *)
(* of them, and the clock may run on at any point.                         *)
(***************************************************************************)
EXTENDS Integers, Sequences

CONSTANTS
  Threads,   \* the threads that share the Throttle
  Hosts,     \* the hosts of their urls, as acquire keys them
  NoThread,  \* nobody holds the lock
  Interval,  \* min_interval
  MaxCalls,  \* bound: the calls of acquire, over all threads
  MaxTime    \* bound: the clock stands still here unless somebody sleeps

ASSUME ThreadsAssumption  == NoThread \notin Threads
ASSUME IntervalAssumption == Interval \in Nat
ASSUME BoundsAssumption   == MaxCalls \in Nat /\ MaxTime \in Nat

VARIABLES
  clock,        \* time.monotonic()
  lock,         \* the thread that holds _lock, or NoThread
  nextAllowed,  \* _next_allowed; 0 for a host that is not in it
  pc,           \* where each thread is in acquire
  host,         \* the host of its call
  now,          \* its local now
  nextFree,     \* its local next_free
  wake,         \* when its sleep ends
  ticket,       \* the index of its slot in slots
  calls,        \* calls made so far
  slots         \* history: the slots, in the order they were reserved

locals == <<host, now, nextFree, wake, ticket>>
vars == <<clock, lock, nextAllowed, pc, locals, calls, slots>>

Never == -1  \* acquire has not returned yet

Slot == [by : Threads, host : Hosts, asked : Nat, slot : Nat, at : Nat \cup {Never}]

Critical == {"sample", "pick", "store", "leave"}
Points   == {"idle", "enter", "drowsy", "asleep", "return"} \cup Critical

Later(a, b) == IF a >= b THEN a ELSE b

Goto(t, point) == pc' = [pc EXCEPT ![t] = point]

Init == /\ clock = 0
        /\ lock = NoThread
        /\ nextAllowed = [h \in Hosts |-> 0]
        /\ pc = [t \in Threads |-> "idle"]
        /\ host \in [Threads -> Hosts]
        /\ now = [t \in Threads |-> 0]
        /\ nextFree = [t \in Threads |-> 0]
        /\ wake = [t \in Threads |-> 0]
        /\ ticket = [t \in Threads |-> 0]
        /\ calls = 0
        /\ slots = <<>>

-----------------------------------------------------------------------------
\* min_interval <= 0 makes acquire a no-op.
Call(t, h) == /\ pc[t] = "idle"
              /\ calls < MaxCalls
              /\ calls' = calls + 1
              /\ host' = [host EXCEPT ![t] = h]
              /\ Goto(t, IF Interval > 0 THEN "enter" ELSE "idle")
              /\ UNCHANGED <<clock, lock, nextAllowed, now, nextFree, wake, ticket, slots>>

Enter(t) == /\ pc[t] = "enter"
            /\ lock = NoThread
            /\ lock' = t
            /\ Goto(t, "sample")
            /\ UNCHANGED <<clock, nextAllowed, locals, calls, slots>>

Sample(t) == /\ pc[t] = "sample"
             /\ now' = [now EXCEPT ![t] = clock]
             /\ Goto(t, "pick")
             /\ UNCHANGED <<clock, lock, nextAllowed, host, nextFree, wake, ticket, calls, slots>>

Pick(t) == /\ pc[t] = "pick"
           /\ nextFree' = [nextFree EXCEPT ![t] = Later(now[t], nextAllowed[host[t]])]
           /\ Goto(t, "store")
           /\ UNCHANGED <<clock, lock, nextAllowed, host, now, wake, ticket, calls, slots>>

Reserve(t) == /\ ticket' = [ticket EXCEPT ![t] = Len(slots) + 1]
              /\ slots' = Append(slots, [by |-> t, host |-> host[t], asked |-> now[t],
                                         slot |-> nextFree[t], at |-> Never])
              /\ Goto(t, "leave")
              /\ UNCHANGED <<clock, lock, host, now, nextFree, wake, calls>>

\* Mutant: the next slot is counted from now, not from the slot just taken.
StoreFromNow(t) ==
  /\ pc[t] = "store"
  /\ nextAllowed' = [nextAllowed EXCEPT ![host[t]] = now[t] + Interval]
  /\ Reserve(t)

\* Mutant: the slot just taken is stored, not the one behind it.
StoreTaken(t) == /\ pc[t] = "store"
                 /\ nextAllowed' = [nextAllowed EXCEPT ![host[t]] = nextFree[t]]
                 /\ Reserve(t)

\* Mutant: one next slot for all hosts.
StoreForAll(t) == /\ pc[t] = "store"
                  /\ nextAllowed' = [h \in Hosts |-> nextFree[t] + Interval]
                  /\ Reserve(t)

Store(t) == /\ pc[t] = "store"
            /\ nextAllowed' = [nextAllowed EXCEPT ![host[t]] = nextFree[t] + Interval]
            /\ Reserve(t)

\* Mutant: a thread that has to wait keeps the lock.
LeaveLocked(t) == /\ pc[t] = "leave"
                  /\ lock' = IF nextFree[t] > now[t] THEN lock ELSE NoThread
                  /\ Goto(t, IF nextFree[t] > now[t] THEN "drowsy" ELSE "return")
                  /\ UNCHANGED <<clock, nextAllowed, locals, calls, slots>>

Leave(t) == /\ pc[t] = "leave"
            /\ lock' = NoThread
            /\ Goto(t, IF nextFree[t] > now[t] THEN "drowsy" ELSE "return")
            /\ UNCHANGED <<clock, nextAllowed, locals, calls, slots>>

\* Mutant: the thread sleeps one interval, however far its slot is.
SleepInterval(t) == /\ pc[t] = "drowsy"
                    /\ wake' = [wake EXCEPT ![t] = clock + Interval]
                    /\ Goto(t, "asleep")
                    /\ UNCHANGED <<clock, lock, nextAllowed, host, now, nextFree, ticket,
                                   calls, slots>>

\* Mutant: the operands of the difference are swapped.
SleepSwapped(t) == /\ pc[t] = "drowsy"
                   /\ wake' = [wake EXCEPT ![t] = clock + (now[t] - nextFree[t])]
                   /\ Goto(t, "asleep")
                   /\ UNCHANGED <<clock, lock, nextAllowed, host, now, nextFree, ticket,
                                  calls, slots>>

\* time.sleep lasts next_free - now from whenever it starts.
Sleep(t) == /\ pc[t] = "drowsy"
            /\ wake' = [wake EXCEPT ![t] = clock + (nextFree[t] - now[t])]
            /\ Goto(t, "asleep")
            /\ UNCHANGED <<clock, lock, nextAllowed, host, now, nextFree, ticket, calls, slots>>

Wake(t) == /\ pc[t] = "asleep"
           /\ clock >= wake[t]
           /\ Goto(t, "return")
           /\ UNCHANGED <<clock, lock, nextAllowed, locals, calls, slots>>

\* acquire returns, and the caller sends its request.
Return(t) == /\ pc[t] = "return"
             /\ slots' = [slots EXCEPT ![ticket[t]].at = clock]
             /\ Goto(t, "idle")
             /\ UNCHANGED <<clock, lock, nextAllowed, locals, calls>>

Acquire(t) == \/ Enter(t) \/ Sample(t) \/ Pick(t) \/ Store(t) \/ Leave(t)
              \/ Sleep(t) \/ Wake(t) \/ Return(t)

Sleeping(t) == pc[t] = "asleep" /\ clock < wake[t]

Tick == /\ clock < MaxTime \/ \E t \in Threads : Sleeping(t)
        /\ clock' = clock + 1
        /\ UNCHANGED <<lock, nextAllowed, pc, locals, calls, slots>>

Next == \/ \E t \in Threads : Acquire(t) \/ \E h \in Hosts : Call(t, h)
        \/ Tick

Spec == Init /\ [][Next]_vars

\* A thread inside acquire is scheduled again and again.
Scheduled == \A t \in Threads : WF_vars(Acquire(t))

\* Threads run, but nothing says that time does.
FrozenSpec == Spec /\ Scheduled

TimePasses == WF_vars(Tick)

-----------------------------------------------------------------------------
\* Every variable keeps to its type.
TypeOK ==
  /\ clock \in Nat
  /\ lock \in Threads \cup {NoThread}
  /\ nextAllowed \in [Hosts -> Nat]
  /\ pc \in [Threads -> Points]
  /\ host \in [Threads -> Hosts]
  /\ now \in [Threads -> Nat]
  /\ nextFree \in [Threads -> Nat]
  /\ wake \in [Threads -> Nat]
  /\ ticket \in [Threads -> Nat]
  /\ calls \in 0..MaxCalls
  /\ slots \in Seq(Slot)

\* Two slots of a host are at least min_interval apart, whoever reserved them and however
\* the threads interleaved.
SlotsSpaced ==
  \A i, j \in 1..Len(slots) :
     i < j /\ slots[i].host = slots[j].host => slots[j].slot >= slots[i].slot + Interval

\* No slot lies before the moment it was asked for, and acquire does not return before
\* the slot it reserved.
NeverEarly ==
  \A i \in 1..Len(slots) :
     /\ slots[i].slot >= slots[i].asked
     /\ slots[i].at # Never => slots[i].at >= slots[i].slot

\* A slot later than the moment it was asked for is right behind an earlier slot of the
\* same host: no caller waits for another host, and none longer than it has to.
WaitsBehindOwnHost ==
  \A j \in 1..Len(slots) :
     slots[j].slot > slots[j].asked =>
       \E i \in 1 .. j - 1 : /\ slots[i].host = slots[j].host
                             /\ slots[j].slot = slots[i].slot + Interval

\* If time goes on, every call returns: no thread keeps the lock, or sleeps, for good.
EveryCallReturns == TimePasses => \A t \in Threads : pc[t] # "idle" ~> pc[t] = "idle"

Visited(t) == \E i \in 1..Len(slots) : slots[i].host = host[t] /\ slots[i].by # t
FirstVisit(t) == /\ pc[t] = "enter"
                 /\ \A i \in 1..Len(slots) : slots[i].host # host[t]

\* Different hosts never block each other: the first caller of a host returns though
\* time stands still and sleepers of other hosts never wake.
FirstVisitorPasses ==
  \A t \in Threads : FirstVisit(t) ~> (pc[t] = "idle" \/ Visited(t))

\* Whoever calls acquire gets through: for anyone it takes no more than time going on, for
\* the first caller of a host not even that.
CallersGetThrough == EveryCallReturns /\ FirstVisitorPasses

=============================================================================
