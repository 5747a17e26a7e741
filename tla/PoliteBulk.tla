----------------------------- MODULE PoliteBulk -----------------------------
(***************************************************************************)
(* bulk --delay: the threads of the pool (BulkPool) share one Throttle     *)
(* (Throttle), and fetch() takes a slot of it before it sends anything     *)
(* (client.py).  A thread of the pool is a thread of the throttle; what    *)
(* follows the slot, the tier chain, is one step to its outcome.           *)
(***************************************************************************)
EXTENDS BulkPool, FiniteSets

CONSTANTS
  Hosts,     \* the hosts of the urls
  HostOf,    \* the host of each url of the file, or NoHost
  NoHost,    \* urlsplit rejects the url
  Delay,     \* --delay
  NoThread,  \* nobody holds the lock of the throttle
  MaxTime    \* bound: the clock stands still here unless somebody sleeps

\* bulk makes no Throttle of a delay that is not positive.
ASSUME DelayAssumption  == Delay \in Nat \ {0} /\ MaxTime \in Nat
ASSUME ThreadAssumption == NoThread \notin Threads
ASSUME HostOfAssumption == NoHost \notin Hosts /\ HostOf \in [Jobs -> Hosts \cup {NoHost}]

VARIABLES clock, lock, nextAllowed, pc, host, now, nextFree, wake, ticket, calls, slots

throttle == <<clock, lock, nextAllowed, pc, host, now, nextFree, wake, ticket, calls, slots>>
allVars  == <<vars, throttle>>

T == INSTANCE Throttle WITH Interval <- Delay, MaxCalls <- NumUrls

\* With a pool: the plain loop has nobody to share the throttle with.
PoliteInit == Init /\ Pooled /\ T!Init

\* _run_one calls fetch(), which calls acquire() once its arguments are checked.
StartFetch(w) == /\ Take(w)
                 /\ HostOf[Head(queue)] \in Hosts
                 /\ T!Call(w, HostOf[Head(queue)])

\* acquire() of a url that cannot be split raises before it touches the throttle.
StartMalformed(w) == /\ Take(w)
                     /\ HostOf[Head(queue)] = NoHost
                     /\ UNCHANGED throttle

\* Mutant: fetch() forgets to wait.
EndFetchUnslotted(w, outcome) == Settle(w, outcome) /\ UNCHANGED throttle

\* The chain runs once acquire() has returned.
EndFetch(w, outcome) == /\ pc[w] = "idle"
                        /\ at[w] # NoJob /\ HostOf[at[w]] = NoHost => outcome = "raw"
                        /\ Settle(w, outcome)
                        /\ UNCHANGED throttle

Wait(w) == T!Acquire(w) /\ UNCHANGED vars

Worker(w) == \/ StartFetch(w)
             \/ StartMalformed(w)
             \/ Wait(w)
             \/ \E outcome \in Settled : EndFetch(w, outcome)

MainThread == Main /\ UNCHANGED throttle

Time == T!Tick /\ UNCHANGED vars

PoliteNext == MainThread \/ Time \/ \E w \in Threads : Worker(w)

PoliteSpec == PoliteInit /\ [][PoliteNext]_allVars

\* Threads are scheduled and time goes on; what BulkPool assumes of a fetch, that it
\* ends, is for the throttle to show.
PoliteFairSpec == /\ PoliteSpec
                  /\ WF_allVars(MainThread)
                  /\ WF_allVars(Time)
                  /\ \A w \in Threads : WF_allVars(Worker(w))

-----------------------------------------------------------------------------
UrlsOf(h) == {j \in Jobs : HostOf[j] = h}

\* Past acquire(): requests of this url may have been sent.
Sent(j) == future[j] \in Settled \/ \E w \in Threads : at[w] = j /\ pc[w] = "idle"

\* A url has had its outcome only after a slot of its own host, and no url has had two:
\* per host, as many slots are used up as urls went out.
OneSlotPerUrl ==
  \A h \in Hosts :
    Cardinality({i \in 1..Len(slots) : slots[i].host = h /\ slots[i].at # T!Never})
      = Cardinality({j \in UrlsOf(h) : Sent(j)})

\* However many workers there are and however late each of them comes out of acquire, the
\* requests of a host never run ahead of its pace: when n of its urls may be on their way,
\* n - 1 delays have passed.
PaceIsKept ==
  \A h \in Hosts : clock >= (Cardinality({j \in UrlsOf(h) : Sent(j)}) - 1) * Delay

\* The throttled pool is a pool whose fetches end, as BulkPool assumes.
ImplementsPool == FairSpec

=============================================================================
