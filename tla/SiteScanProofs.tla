--------------------------- MODULE SiteScanProofs ---------------------------
(***************************************************************************)
(* For any calls, redirects, documents and lists of probes: the guard is   *)
(* kept and never turns on a seed, and what a tool returns is complete,    *)
(* within its limit and true to the status of robots.txt.                  *)
(*                                                                         *)
(* The properties speak of all requests of a call; each request is right   *)
(* when it is sent because the verdict in hand is that on the seed in hand *)
(* (Judged).  The rest says how far the call has come: what is still to be *)
(* fetched, and what that leaves room for (HuntSoFar, Room, RobotsSoFar).  *)
(***************************************************************************)
EXTENDS SiteScan, SequenceTheorems, TLAPS

\* trusted is the verdict on the seed in hand.
Judged ==
  /\ stage = "probe" => at # 0
  /\ at # 0 => (trusted = TRUE <=> HostIsInternal(call.seeds[at].host))

\* A call ends once; before its first seed nothing has happened, and between two seeds
\* nothing is left to be fetched.
Staged ==
  /\ stage = "done" <=> outcome # "pending"
  /\ stage = "seed" => Len(todo) = 0
  /\ at = 0 => Len(log) = 0 /\ Len(found) = 0
  /\ outcome = "returned" => at = Len(call.seeds) /\ Len(todo) = 0

\* Each thing was found in an answer that is on record.
Found == \A i \in 1..Len(found) : found[i][1] \in 1..Len(log)

\* fetch_sitemap_urls() does not ask again once it has what it may report.
Room == call.tool = "sitemap" /\ Len(todo) > 0 /\ call.max > 0 => Len(found) < call.max

\* is_allowed() asks once at most, and has its verdict from that answer.
RobotsSoFar ==
  call.tool = "robots" /\ outcome \in {"pending", "returned"} =>
    /\ Len(log) + Len(todo) <= 1
    /\ outcome = "returned" => verdict # "none"
    /\ Len(log) = 0 => verdict \in {"none", "allowed"}
    /\ Len(log) # 0 =>
         /\ verdict # "none"
         /\ log[1].answer = "absent" =>
              /\ log[1].status \in {NoStatus} \cup 500..599 => verdict = "disallowed"
              /\ log[1].status \in 400..499 => verdict = "allowed"
         /\ log[1].answer \in {"html", "xhtml"} => verdict = "allowed"

\* How many requests hunt() sends for n seeds, and which one is that for path j of seed i.
Due(p, n)      == p * n
Place(p, i, j) == (i - 1) * p + j

\* hunt() has asked for all paths of the seeds before, and for those of the seed in hand that
\* are not to be fetched any more.
HuntSoFar ==
  call.tool = "hunt" /\ outcome \in {"pending", "returned"} =>
    LET p == Len(call.paths) IN
    /\ Len(log) + Len(todo) = Due(p, at)
    /\ Len(todo) <= p
    /\ \A k \in 1..Len(todo) : todo[k] = Join(call.seeds[at], call.paths[p - Len(todo) + k])
    /\ \A i \in 1..at, j \in 1..p :
         i < at \/ j <= p - Len(todo)
           => log[Place(p, i, j)].url = Join(call.seeds[i], call.paths[j])

IInv == /\ TypeOK
        /\ Judged
        /\ Staged
        /\ Found
        /\ GuardHolds
        /\ SeedsAreTrusted
        /\ SitemapLimit /\ Room
        /\ RobotsSoFar
        /\ HuntSoFar


-----------------------------------------------------------------------------
\* Arithmetic: whole rows of p.

LEMMA DueFacts ==
  ASSUME NEW p \in Nat, NEW n \in Nat
  PROVE  Due(p, n) \in Nat /\ Due(p, n + 1) = Due(p, n) + p /\ Due(p, 0) = 0
  BY DEF Due

LEMMA DueGrows ==
  ASSUME NEW p \in Nat, NEW n \in Nat, NEW m \in Nat, n <= m
  PROVE  Due(p, n) <= Due(p, m)
  BY DEF Due

LEMMA PlaceFacts ==
  ASSUME NEW p \in Nat, NEW i \in Nat \ {0}, NEW j \in Nat
  PROVE  Place(p, i, j) = Due(p, i - 1) + j
  BY DEF Place, Due

LEMMA Earlier ==
  ASSUME NEW f \in Nat, NEW i \in Nat, NEW j \in 1..f, 1 <= i, i < j
  PROVE  i \in 1..f
  OBVIOUS

LEMMA LastOfMore ==
  ASSUME NEW f \in Nat, NEW n \in Nat, f < f + n
  PROVE  f + n \in f + 1 .. f + n
  OBVIOUS

-----------------------------------------------------------------------------
\* Calls and their targets.

LEMMA CallFacts ==
  ASSUME TypeOK
  PROVE  /\ call.tool \in Tools
         /\ call.seeds \in Seq(Url) /\ Len(call.seeds) \in Nat
         /\ \A i \in 1..Len(call.seeds) : call.seeds[i] \in Url
         /\ call.paths \in Seq(Reference) /\ Len(call.paths) \in Nat
         /\ \A i \in 1..Len(call.paths) : call.paths[i] \in Reference
         /\ call.max \in Nat
         /\ call.tool # "hunt" => Len(call.seeds) = 1
  <1>1. /\ call.tool \in Tools /\ call.max \in Nat
        /\ call.seeds \in Seq(Url) /\ call.paths \in Seq(Reference)
        /\ call.tool # "hunt" => Len(call.seeds) = 1
    BY CallsAssumption DEF TypeOK
  <1> QED
    BY <1>1, LenProperties, ElementOfSeq

LEMMA JoinType ==
  ASSUME NEW seed \in Url, NEW path \in Reference
  PROVE  Join(seed, path) \in Url
  BY DEF Join, OnSite, Url, Reference

LEMMA OnSiteType ==
  ASSUME NEW seed \in Url, NEW path \in Paths
  PROVE  OnSite(seed, path) \in Url
  BY DEF OnSite, Url

LEMMA AllOnSiteType ==
  ASSUME NEW seed \in Url, NEW paths \in Seq(Paths)
  PROVE  AllOnSite(seed, paths) \in Seq(Url)
  <1>1. Len(paths) \in Nat /\ \A i \in 1..Len(paths) : OnSite(seed, paths[i]) \in Url
    BY LenProperties, ElementOfSeq, OnSiteType
  <1> QED
    BY <1>1, IsASeq DEF AllOnSite

LEMMA OneUrl ==
  ASSUME NEW url \in Url
  PROVE  <<url>> \in Seq(Url) /\ Len(<<url>>) = 1
  OBVIOUS

\* The targets of a seed: one at most for robots.txt, one for a sitemap, one per path for a
\* scan.
LEMMA TargetsFacts ==
  ASSUME TypeOK, NEW seed \in Url
  PROVE  /\ Targets(seed) \in Seq(Url)
         /\ call.tool = "robots" => Len(Targets(seed)) <= 1
         /\ call.tool = "hunt" =>
              /\ Len(Targets(seed)) = Len(call.paths)
              /\ \A k \in 1..Len(call.paths) : Targets(seed)[k] = Join(seed, call.paths[k])
  <1>1. OnSite(seed, Robots) \in Url /\ OnSite(seed, Sitemap) \in Url
    BY OnSiteType, PathsAssumption
  <1>2. /\ <<OnSite(seed, Robots)>> \in Seq(Url) /\ Len(<<OnSite(seed, Robots)>>) = 1
        /\ <<OnSite(seed, Sitemap)>> \in Seq(Url)
        /\ <<seed>> \in Seq(Url)
    BY <1>1, OneUrl
  <1>3. CASE call.tool = "sitemap"
    BY <1>2, <1>3 DEF Targets
  <1>4. CASE call.tool = "robots"
    <2>1. <<>> \in Seq(Url) /\ Len(<<>>) = 0
      BY EmptySeq
    <2>2. Targets(seed) = <<>> \/ Targets(seed) = <<OnSite(seed, Robots)>>
      BY <1>4 DEF Targets
    <2>3. Targets(seed) \in Seq(Url)
      BY <1>2, <2>1, <2>2
    <2>4. Len(Targets(seed)) <= 1
      <3>1. CASE Targets(seed) = <<>>
        BY <2>1, <3>1
      <3>2. CASE Targets(seed) = <<OnSite(seed, Robots)>>
        BY <1>2, <3>2
      <3> QED
        BY <2>2, <3>1, <3>2
    <2> QED
      BY <1>4, <2>3, <2>4
  <1>5. CASE call.tool = "discover"
    <2>1. /\ <<OnSite(seed, Robots)>> \in Seq(Url) /\ <<seed>> \in Seq(Url)
          /\ AllOnSite(seed, SitemapPaths) \in Seq(Url)
          /\ AllOnSite(seed, LlmsPaths) \in Seq(Url)
      BY <1>2, PathsAssumption, AllOnSiteType
    <2>2. Targets(seed) = <<OnSite(seed, Robots)>> \o AllOnSite(seed, SitemapPaths)
                            \o <<seed>> \o AllOnSite(seed, LlmsPaths)
      BY <1>5 DEF Targets
    <2> QED
      BY <1>5, <2>1, <2>2, ConcatProperties
  <1>6. CASE call.tool = "hunt"
    <2>1. Targets(seed) = [i \in 1..Len(call.paths) |-> Join(seed, call.paths[i])]
      BY <1>6 DEF Targets
    <2>2. /\ Len(call.paths) \in Nat
          /\ \A i \in 1..Len(call.paths) : Join(seed, call.paths[i]) \in Url
      BY CallFacts, JoinType
    <2>3. Targets(seed) \in Seq(Url)
      BY <2>1, <2>2, IsASeq
    <2> QED
      BY <1>6, <2>1, <2>2, <2>3
  <1> QED
    BY <1>3, <1>4, <1>5, <1>6, CallFacts DEF Tools

-----------------------------------------------------------------------------
\* The target in hand, and a request for it.

LEMMA TodoFacts ==
  ASSUME TypeOK, Probe
  PROVE  /\ Len(todo) \in Nat /\ Len(todo) > 0
         /\ Head(todo) = todo[1] /\ Head(todo) \in Url
         /\ Tail(todo) \in Seq(Url) /\ Len(Tail(todo)) = Len(todo) - 1
         /\ \A k \in 1 .. Len(todo) - 1 : Tail(todo)[k] = todo[k + 1]
  <1>1. todo \in Seq(Url) /\ todo # <<>>
    BY DEF TypeOK, Probe
  <1> QED
    BY <1>1, HeadTailProperties, EmptySeq, LenProperties, ElementOfSeq

\* What is left to be fetched: nothing, or the tail.
LEMMA RestFacts ==
  ASSUME TypeOK, Probe, NEW n \in Nat
  PROVE  /\ Rest(n) \in Seq(Url)
         /\ Len(Rest(n)) <= Len(todo) - 1
         /\ call.tool # "sitemap" => Rest(n) = Tail(todo)
         /\ call.tool = "sitemap" /\ Len(Rest(n)) > 0 => n < call.max
  <1>1. <<>> \in Seq(Url) /\ Len(<<>>) = 0
    BY EmptySeq
  <1> QED
    BY <1>1, TodoFacts, CallFacts DEF Rest

\* The record of a request.
Entry(redirect, answer, status) ==
  [seed |-> at, url |-> Head(todo), answer |-> answer, status |-> status,
   landed |-> Resolve(Head(todo), redirect.landed),
   permanent |-> Resolve(Head(todo), redirect.permanent)]

Answers == Kinds \cup {"absent", "raw", "refused"}

LEMMA AskFacts ==
  ASSUME TypeOK, Probe, NEW redirect \in [landed : Url, permanent : Url],
         NEW answer \in Answers, NEW status \in Nat, Ask(redirect, answer, status)
  PROVE  /\ Len(log) \in Nat
         /\ log' \in Seq(Request) /\ Len(log') = Len(log) + 1
         /\ \A i \in 1..Len(log) : log'[i] = log[i]
         /\ log'[Len(log) + 1] = Entry(redirect, answer, status)
  <1>1. Entry(redirect, answer, status) \in Request
    <2>1. at \in Nat /\ Head(todo) \in Url
      BY TodoFacts, CallFacts DEF TypeOK
    <2>2. \A target \in Url : Resolve(Head(todo), target) \in Url
      BY <2>1 DEF Resolve
    <2>3. redirect.landed \in Url /\ redirect.permanent \in Url
      OBVIOUS
    <2> QED
      BY <2>1, <2>2, <2>3 DEF Entry, Request, Answers
  <1>2. log \in Seq(Request) /\ log' = Append(log, Entry(redirect, answer, status))
    BY DEF TypeOK, Ask, Entry
  <1> QED
    BY <1>1, <1>2, AppendProperties, LenProperties

LEMMA NowhereType == Nowhere \in [landed : Url, permanent : Url]
  BY PathsAssumption DEF Nowhere, Here, Url


-----------------------------------------------------------------------------
\* Seeds.

LEMMA InitInv == Init => IInv
  <1> SUFFICES ASSUME Init PROVE IInv
    OBVIOUS
  <1>1. Len(todo) = 0 /\ Len(found) = 0 /\ Len(log) = 0
        /\ todo \in Seq(Url) /\ found \in Seq(Nat \X Nat) /\ log \in Seq(Request)
    BY EmptySeq DEF Init
  <1>2. call \in Calls /\ Len(call.seeds) \in Nat /\ call.max \in Nat /\ Len(call.paths) \in Nat
    BY CallsAssumption, LenProperties DEF Init
  <1>3. TypeOK
    <2>1. trusted \in BOOLEAN
      BY DEF Init
    <2>2. at \in 0..Len(call.seeds)
      BY <1>2 DEF Init
    <2> QED
      BY <1>1, <1>2, <2>1, <2>2 DEF Init, TypeOK
  <1>4. Judged /\ Staged /\ Found /\ GuardHolds /\ SeedsAreTrusted
    BY <1>1 DEF Init, Judged, Staged, Found, GuardHolds, SeedsAreTrusted
  <1>5. SitemapLimit /\ Room /\ RobotsSoFar
    BY <1>1, <1>2 DEF Init, SitemapLimit, Room, RobotsSoFar
  <1>6. HuntSoFar
    <2> DEFINE p == Len(call.paths)
    <2>1. p \in Nat /\ Due(p, 0) = 0
      BY <1>2, DueFacts
    <2>2. at = 0
      BY DEF Init
    <2> HIDE DEF p
    <2>3. /\ Len(log) + Len(todo) = Due(p, at) /\ Len(todo) <= p
          /\ 1..at = {} /\ 1..Len(todo) = {}
      BY <1>1, <2>1, <2>2
    <2> QED
      BY <2>3 DEF HuntSoFar, p
  <1> QED
    BY <1>3, <1>4, <1>5, <1>6 DEF IInv

\* Judged is about the new seed from here on, and a scan has all its paths before it.
LEMMA NextSeedInv == IInv /\ NextSeed => IInv'
  <1> SUFFICES ASSUME IInv, NextSeed PROVE IInv'
    OBVIOUS
  <1> USE DEF IInv
  <1> DEFINE seed == call.seeds[at + 1]
  <1>1. /\ stage = "seed" /\ stage' = "probe" /\ outcome = "pending"
        /\ at \in Nat /\ at < Len(call.seeds) /\ at' = at + 1
        /\ trusted' = IsSeedInternal(seed) /\ todo' = Targets(seed)
        /\ UNCHANGED <<call, found, verdict, outcome, log>>
    BY CallFacts DEF NextSeed, Staged, TypeOK
  <1>2. Len(call.seeds) \in Nat /\ seed \in Url
    BY <1>1, CallFacts
  <1>3. TypeOK'
    <2>1. trusted' \in BOOLEAN
      BY <1>1 DEF IsSeedInternal, HostIsInternal
    <2>2. todo' \in Seq(Url)
      BY <1>1, <1>2, TargetsFacts
    <2> QED
      BY <1>1, <1>2, <2>1, <2>2 DEF TypeOK
  <1>4. Judged'
    BY <1>1 DEF Judged, IsSeedInternal
  <1>5. Staged' /\ Found' /\ SeedsAreTrusted'
    BY <1>1 DEF Staged, Found, SeedsAreTrusted
  <1>6. GuardHolds'
    BY <1>1 DEF GuardHolds, External, WasRead
  <1>7. SitemapLimit'
    BY <1>1 DEF SitemapLimit
  <1>8. call.tool # "hunt" => Len(log) = 0 /\ Len(found) = 0
    BY <1>1, CallFacts DEF Staged
  <1>9. Room'
    BY <1>1, <1>8, CallFacts DEF Room
  <1>10. RobotsSoFar'
    <2>1. call.tool = "robots" => Len(todo') <= 1 /\ Len(todo') \in Nat
      BY <1>1, <1>2, TargetsFacts, LenProperties
    <2> QED
      BY <1>1, <1>8, <2>1 DEF RobotsSoFar
  <1>11. HuntSoFar'
    <2> SUFFICES ASSUME call.tool = "hunt" PROVE HuntSoFar'
      BY <1>1 DEF HuntSoFar
    <2> DEFINE p == Len(call.paths)
    <2>1. /\ Len(todo') = p /\ p \in Nat
          /\ \A k \in 1..p : todo'[k] = Join(seed, call.paths[k])
      BY <1>1, <1>2, TargetsFacts, CallFacts
    <2>2. /\ Len(log) + Len(todo) = Due(p, at)
          /\ \A i \in 1..at, j \in 1..p :
               i < at \/ j <= p - Len(todo)
                 => log[Place(p, i, j)].url = Join(call.seeds[i], call.paths[j])
      BY <1>1 DEF HuntSoFar
    <2>3. Len(todo) = 0 /\ Len(log) \in Nat
      BY <1>1, LenProperties DEF Staged, TypeOK
    <2> HIDE DEF p, seed, IInv
    <2>4. Len(log) = Due(p, at) /\ Due(p, at + 1) = Due(p, at) + p
      <3>1. Due(p, at + 1) = Due(p, at) + p
        BY <1>1, <2>1, DueFacts
      <3> QED
        BY <2>2, <2>3, <3>1
    <2>5. \A i \in 1..at, j \in 1..p :
            log[Place(p, i, j)].url = Join(call.seeds[i], call.paths[j])
      BY <2>1, <2>2, <2>3
    <2>6. \A i \in 1 .. at + 1, j \in 1..p : i < at + 1 \/ j <= p - p
            => log[Place(p, i, j)].url = Join(call.seeds[i], call.paths[j])
      BY <1>1, <2>1, <2>5
    <2>7. \A k \in 1..p : p - p + k = k
      BY <2>1
    <2>8. Len(log) + Len(todo') = Due(p, at + 1)
      <3>1. Len(log) \in Nat
        BY <2>3
      <3> QED
        BY <2>1, <2>4, <3>1
    <2>9. \A k \in 1..Len(todo') : todo'[k] = Join(seed, call.paths[p - Len(todo') + k])
      BY <2>1, <2>7
    <2> QED
      BY <1>1, <2>1, <2>6, <2>8, <2>9 DEF HuntSoFar, p, seed
  <1> QED
    BY <1>3, <1>4, <1>5, <1>6, <1>7, <1>9, <1>10, <1>11

LEMMA SeedDoneInv == IInv /\ SeedDone => IInv'
  <1> SUFFICES ASSUME IInv, SeedDone PROVE IInv'
    OBVIOUS
  <1>1. /\ stage = "probe" /\ stage' = "seed" /\ todo = <<>>
        /\ UNCHANGED <<call, at, trusted, todo, found, verdict, outcome, log>>
    BY DEF SeedDone
  <1>2. Len(todo) = 0
    BY <1>1, EmptySeq
  <1>3. TypeOK' /\ Judged' /\ Staged' /\ Found'
    BY <1>1, <1>2 DEF IInv, TypeOK, Judged, Staged, Found
  <1>4. GuardHolds' /\ SeedsAreTrusted' /\ SitemapLimit' /\ Room' /\ RobotsSoFar'
    BY <1>1 DEF IInv, GuardHolds, External, WasRead, SeedsAreTrusted, SitemapLimit, Room,
                RobotsSoFar
  <1>5. HuntSoFar'
    BY <1>1 DEF IInv, HuntSoFar
  <1> QED
    BY <1>3, <1>4, <1>5 DEF IInv

\* A call returns when no seed is left.
LEMMA FinishInv == IInv /\ Finish => IInv'
  <1> SUFFICES ASSUME IInv, Finish PROVE IInv'
    OBVIOUS
  <1> USE DEF IInv
  <1>1. /\ stage = "seed" /\ stage' = "done" /\ outcome' = "returned" /\ outcome = "pending"
        /\ at = Len(call.seeds) /\ Len(todo) = 0
        /\ verdict' = IF call.tool = "robots" /\ log = <<>> THEN "allowed" ELSE verdict
        /\ UNCHANGED <<call, at, trusted, todo, found, log>>
    BY DEF Finish, End, Staged
  <1>2. TypeOK'
    BY <1>1 DEF TypeOK
  <1>3. Judged' /\ Staged' /\ Found' /\ SeedsAreTrusted'
    BY <1>1 DEF Judged, Staged, Found, SeedsAreTrusted
  <1>4. GuardHolds' /\ SitemapLimit' /\ Room'
    BY <1>1 DEF GuardHolds, External, WasRead, SitemapLimit, Room
  <1>5. RobotsSoFar'
    <2>1. log = <<>> <=> Len(log) = 0
      BY EmptySeq DEF TypeOK
    <2> QED
      BY <1>1, <2>1 DEF RobotsSoFar
  <1>6. HuntSoFar'
    BY <1>1 DEF HuntSoFar
  <1> QED
    BY <1>2, <1>3, <1>4, <1>5, <1>6

\* The target is refused for what it is, and that is not what the seed is.
LEMMA RefuseTargetInv == IInv /\ RefuseTarget => IInv'
  <1> SUFFICES ASSUME IInv, RefuseTarget PROVE IInv'
    OBVIOUS
  <1> USE DEF IInv
  <1>1. /\ stage = "probe" /\ Probe /\ stage' = "done" /\ outcome' = "refused"
        /\ trusted = FALSE /\ HostIsInternal(Head(todo).host)
        /\ UNCHANGED <<call, at, trusted, todo, found, verdict, log>>
    BY DEF RefuseTarget, End, Probe, Refused, TypeOK
  <1>2. TypeOK'
    BY <1>1 DEF TypeOK
  <1>3. Judged' /\ Staged' /\ Found' /\ GuardHolds' /\ SitemapLimit' /\ Room'
    BY <1>1 DEF Judged, Staged, Found, GuardHolds, External, WasRead, SitemapLimit, Room
  <1>4. SeedsAreTrusted'
    <2>1. ~HostIsInternal(call.seeds[at].host)
      BY <1>1 DEF Judged
    <2>2. todo[1] # call.seeds[at]
      BY <1>1, <2>1, TodoFacts
    <2> QED
      BY <1>1, <2>1, <2>2 DEF SeedsAreTrusted, External
  <1>5. RobotsSoFar' /\ HuntSoFar'
    BY <1>1 DEF RobotsSoFar, HuntSoFar
  <1> QED
    BY <1>2, <1>3, <1>4, <1>5

\* A url that raises where it is checked ends the call, and nothing is sent.
LEMMA MalformedInv == IInv /\ (SeedRaises \/ CheckRaises) => IInv'
  <1> SUFFICES ASSUME IInv, SeedRaises \/ CheckRaises PROVE IInv'
    OBVIOUS
  <1> USE DEF IInv
  <1>1. /\ stage \in {"seed", "probe"} /\ stage' = "done" /\ outcome' = "raised"
        /\ UNCHANGED <<call, at, trusted, todo, found, verdict, log>>
    BY DEF SeedRaises, CheckRaises, End, Probe
  <1>2. TypeOK'
    BY <1>1 DEF TypeOK
  <1>3. Judged' /\ Staged' /\ Found' /\ GuardHolds' /\ SitemapLimit' /\ Room'
    BY <1>1 DEF Judged, Staged, Found, GuardHolds, External, WasRead, SitemapLimit, Room
  <1>4. SeedsAreTrusted' /\ RobotsSoFar' /\ HuntSoFar'
    BY <1>1 DEF SeedsAreTrusted, RobotsSoFar, HuntSoFar
  <1> QED
    BY <1>2, <1>3, <1>4

-----------------------------------------------------------------------------
\* Requests.

\* A request keeps to the guard, and so does its answer if it is looked at.
LEMMA AskGuard ==
  ASSUME IInv, Probe, ~Refused(Head(todo)), NEW redirect \in [landed : Url, permanent : Url],
         NEW answer \in Answers, NEW status \in Nat, Ask(redirect, answer, status), call' = call,
         answer \in Kinds => ~RedirectRefused(Head(todo), redirect)
  PROVE  GuardHolds'
  <1> USE DEF IInv
  <1>1. /\ Len(log) \in Nat /\ Len(log') = Len(log) + 1
        /\ \A i \in 1..Len(log) : log'[i] = log[i]
        /\ log'[Len(log) + 1] = Entry(redirect, answer, status)
    BY AskFacts
  <1>2. External(at) => trusted = FALSE
    BY DEF Judged, External, Probe, TypeOK
  <1>3. External(at) => /\ ~HostIsInternal(Head(todo).host)
                        /\ answer \in Kinds =>
                             /\ ~HostIsInternal(Resolve(Head(todo), redirect.landed).host)
                             /\ ~HostIsInternal(Resolve(Head(todo), redirect.permanent).host)
    BY <1>2 DEF Refused, RedirectRefused, Resolve
  <1>4. ASSUME NEW i \in 1..Len(log')
        PROVE  External(log'[i].seed) =>
                 /\ ~HostIsInternal(log'[i].url.host)
                 /\ log'[i].answer \in Kinds =>
                      /\ ~HostIsInternal(log'[i].landed.host)
                      /\ ~HostIsInternal(log'[i].permanent.host)
    <2>1. CASE i = Len(log) + 1
      BY <1>1, <1>3, <2>1 DEF Entry
    <2>2. CASE i \in 1..Len(log)
      BY <1>1, <2>2 DEF GuardHolds, WasRead
    <2> QED
      BY <1>1, <2>1, <2>2
  <1> QED
    BY <1>4 DEF GuardHolds, WasRead, External

\* A request with which the call ends: fetch() or the reading raises, or the answer is refused.
LEMMA AskEnds ==
  ASSUME IInv, Probe, ~Refused(Head(todo)), NEW redirect \in [landed : Url, permanent : Url],
         NEW answer \in Answers, NEW what \in {"raised", "refused"},
         Ask(redirect, answer, NoStatus), End(what),
         UNCHANGED <<call, at, trusted, todo, found, verdict>>,
         answer \in Kinds => ~RedirectRefused(Head(todo), redirect),
         what = "refused" => answer = "refused" /\ trusted = FALSE
  PROVE  IInv'
  <1> USE DEF IInv
  <1>1. NoStatus \in Nat
    BY DEF NoStatus
  <1>2. /\ Len(log) \in Nat /\ log' \in Seq(Request) /\ Len(log') = Len(log) + 1
        /\ log'[Len(log) + 1] = Entry(redirect, answer, NoStatus)
    BY <1>1, AskFacts
  <1>3. GuardHolds'
    BY <1>1, AskGuard
  <1>4. TypeOK'
    BY <1>2 DEF TypeOK, End
  <1>5. Judged' /\ Staged'
    BY DEF Judged, Staged, End, Probe
  <1>6. Found'
    BY <1>2 DEF Found
  <1>7. SeedsAreTrusted'
    <2>1. log' # <<>>
      BY <1>2, EmptySeq
    <2>2. what = "refused" => External(at)
      BY DEF Judged, External, Probe
    <2>3. answer = "refused" => log'[Len(log')].answer = "refused"
      BY <1>2 DEF Entry
    <2> QED
      BY <2>1, <2>2, <2>3 DEF SeedsAreTrusted, External, End
  <1>8. SitemapLimit' /\ Room'
    <2>1. call.tool = "sitemap" => ~(Len(found) = call.max /\ call.max > 0)
      BY TodoFacts, CallFacts DEF Room
    <2> QED
      BY <2>1 DEF SitemapLimit, Room
  <1>9. RobotsSoFar' /\ HuntSoFar'
    BY DEF RobotsSoFar, HuntSoFar, End
  <1> QED
    BY <1>3, <1>4, <1>5, <1>6, <1>7, <1>8, <1>9

LEMMA RaisesInv == IInv /\ Raises => IInv'
  BY AskEnds, NowhereType DEF Raises, Answers, Kinds

LEMMA RefuseAnswerInv ==
  ASSUME IInv, NEW redirect \in Redirects, RefuseAnswer(redirect) PROVE IInv'
  <1>1. redirect \in [landed : Url, permanent : Url]
    BY RedirectsAssumption
  <1>2. trusted = FALSE
    BY DEF RefuseAnswer, RedirectRefused, Refused, IInv, TypeOK
  <1> QED
    BY <1>1, <1>2, AskEnds DEF RefuseAnswer, Answers, Kinds

LEMMA DocumentFacts ==
  ASSUME TypeOK, NEW doc \in Documents[call.tool]
  PROVE  doc.kind \in Kinds /\ doc.hits \in Nat /\ doc.children \in Seq(Url)
  BY CallFacts, DocumentsAssumption

LEMMA CannotReadInv ==
  ASSUME IInv, NEW redirect \in Redirects, NEW doc \in Documents[call.tool],
         CannotRead(redirect, doc)
  PROVE  IInv'
  <1>1. redirect \in [landed : Url, permanent : Url]
    BY RedirectsAssumption
  <1>2. doc.kind \in Kinds
    BY DocumentFacts DEF IInv
  <1> QED
    BY <1>1, <1>2, AskEnds DEF CannotRead, Delivered, Answers


-----------------------------------------------------------------------------
\* Requests after which the call goes on.

\* The next path of the seed in hand is asked for.
LEMMA HuntAsk ==
  ASSUME IInv, Probe, NEW redirect \in [landed : Url, permanent : Url],
         NEW answer \in Answers, NEW status \in Nat, Ask(redirect, answer, status),
         UNCHANGED <<call, at, outcome>>, call.tool = "hunt" => todo' = Tail(todo)
  PROVE  HuntSoFar'
  <1> SUFFICES ASSUME call.tool = "hunt" PROVE HuntSoFar'
    BY DEF HuntSoFar
  <1> DEFINE p == Len(call.paths)
             l == Len(log)
             t == Len(todo)
             want(i, j) == Join(call.seeds[i], call.paths[j])
  <1>1. /\ at \in Nat \ {0} /\ outcome = "pending" /\ p \in Nat /\ l \in Nat
        /\ t \in Nat /\ t > 0 /\ todo' = Tail(todo)
    BY CallFacts, TodoFacts, AskFacts DEF IInv, Judged, Staged, Probe, TypeOK
  <1>2. /\ \A k \in 1..t : todo[k] = want(at, p - t + k)
        /\ \A i \in 1..at, j \in 1..p : i < at \/ j <= p - t
             => log[Place(p, i, j)].url = want(i, j)
    BY <1>1 DEF IInv, HuntSoFar
  <1>3. l + t = Due(p, at) /\ t <= p
    BY <1>1 DEF IInv, HuntSoFar
  <1>4. /\ Len(log') = l + 1 /\ log'[l + 1].url = todo[1]
        /\ \A m \in 1..l : log'[m] = log[m]
    <2>1. /\ Len(log') = l + 1 /\ log'[l + 1] = Entry(redirect, answer, status)
          /\ \A m \in 1..l : log'[m] = log[m]
      BY AskFacts DEF IInv
    <2>2. Entry(redirect, answer, status).url = todo[1]
      BY TodoFacts DEF IInv, Entry
    <2> QED
      BY <2>1, <2>2
  <1>5. Len(todo') = t - 1 /\ \A k \in 1 .. t - 1 : todo'[k] = todo[k + 1]
    BY <1>1, TodoFacts DEF IInv
  <1> HIDE DEF p, l, t, want
  <1>6. Due(p, at - 1) \in Nat /\ Due(p, at) = Due(p, at - 1) + p
    <2>1. at - 1 \in Nat /\ at - 1 + 1 = at
      BY <1>1
    <2> QED
      BY <1>1, <2>1, DueFacts
  <1>7. ASSUME NEW i \in 1..at, NEW j \in 1..p, i < at \/ j <= p - (t - 1)
        PROVE  log'[Place(p, i, j)].url = want(i, j)
    <2>1. Place(p, i, j) = Due(p, i - 1) + j
      BY <1>1, PlaceFacts
    <2>2. CASE i = at /\ j = p - t + 1
      <3>1. Place(p, i, j) = l + 1
        BY <1>1, <1>6, <1>3, <2>1, <2>2
      <3>2. todo[1] = want(at, p - t + 1)
        BY <1>1, <1>2, <1>3
      <3> QED
        BY <1>4, <2>2, <3>1, <3>2
    <2>3. CASE i = at /\ j <= p - t
      <3>1. Place(p, i, j) \in 1..l
        BY <1>1, <1>6, <1>3, <2>1, <2>3
      <3>2. log[Place(p, i, j)].url = want(i, j)
        BY <1>2, <2>3
      <3> QED
        BY <1>4, <3>1, <3>2
    <2>4. CASE i < at
      <3>1. /\ i \in Nat /\ i - 1 \in Nat /\ at - 1 \in Nat /\ i <= at - 1
        BY <1>1, <2>4
      <3>2. /\ Due(p, i - 1) \in Nat /\ Due(p, i) = Due(p, i - 1) + p
            /\ Due(p, i) <= Due(p, at - 1)
        <4>1. i - 1 + 1 = i
          BY <3>1
        <4> QED
          BY <1>1, <3>1, <4>1, DueFacts, DueGrows
      <3>3. Place(p, i, j) \in 1..l
        BY <1>1, <1>6, <1>3, <2>1, <3>2
      <3>4. log[Place(p, i, j)].url = want(i, j)
        BY <1>2, <2>4
      <3> QED
        BY <1>4, <3>3, <3>4
    <2>5. i < at \/ (i = at /\ j <= p - t) \/ (i = at /\ j = p - t + 1)
      BY <1>1, <1>7
    <2> QED
      BY <2>2, <2>3, <2>4, <2>5
  <1>8. ASSUME NEW k \in 1 .. t - 1 PROVE todo'[k] = want(at, p - (t - 1) + k)
    <2>1. k + 1 \in 1..t /\ p - t + (k + 1) = p - (t - 1) + k
      BY <1>1
    <2> QED
      BY <1>2, <1>5, <2>1
  <1>9. Len(log') + Len(todo') = Due(p, at) /\ Len(todo') <= p
    <2>1. (l + 1) + (t - 1) = Due(p, at) /\ t - 1 <= p
      BY <1>1, <1>3
    <2> QED
      BY <1>4, <1>5, <2>1
  <1> QED
    BY <1>5, <1>7, <1>8, <1>9 DEF HuntSoFar, p, want

\* The answer to the only request is the verdict.
LEMMA RobotsAsk ==
  ASSUME IInv, Probe, NEW redirect \in [landed : Url, permanent : Url],
         NEW answer \in Answers, NEW status \in Nat, Ask(redirect, answer, status),
         UNCHANGED <<call, at, outcome>>, NEW permitted \in BOOLEAN,
         verdict' = Allowance(permitted),
         call.tool = "robots" => Len(todo') <= Len(todo) - 1 /\ Len(todo') \in Nat,
         answer = "absent" => permitted = ~IsUnreachable(status),
         answer \in {"html", "xhtml"} => permitted = TRUE
  PROVE  RobotsSoFar'
  <1> SUFFICES ASSUME call.tool = "robots" PROVE RobotsSoFar'
    BY DEF RobotsSoFar
  <1>1. Len(log) \in Nat /\ Len(todo) \in Nat /\ Len(todo) > 0 /\ Len(log) + Len(todo) <= 1
    <2>1. outcome = "pending"
      BY DEF IInv, Staged, Probe
    <2>2. Len(log) + Len(todo) <= 1
      BY <2>1 DEF IInv, RobotsSoFar
    <2> QED
      BY <2>2, TodoFacts, AskFacts DEF IInv
  <1>2. Len(log) = 0 /\ Len(todo) = 1
    <2>1. ASSUME NEW l \in Nat, NEW t \in Nat, t > 0, l + t <= 1 PROVE l = 0 /\ t = 1
      BY <2>1
    <2> QED
      BY <1>1, <2>1
  <1>3. Len(log') = 1 /\ log'[1] = Entry(redirect, answer, status)
    BY <1>2, AskFacts DEF IInv
  <1>4. Len(todo') = 0
    BY <1>2
  <1>5. log'[1].answer = answer /\ log'[1].status = status
    BY <1>3 DEF Entry
  <1>6. verdict' = IF permitted THEN "allowed" ELSE "disallowed"
    BY DEF Allowance
  <1>7. answer = "absent" =>
          /\ status \in {NoStatus} \cup 500..599 => verdict' = "disallowed"
          /\ status \in 400..499 => verdict' = "allowed"
    <2>1. CASE IsUnreachable(status)
      <3>1. ~(status \in 400..499)
        BY <2>1 DEF IsUnreachable, NoStatus
      <3>2. answer = "absent" => verdict' = "disallowed"
        BY <1>6, <2>1
      <3> QED
        BY <3>1, <3>2
    <2>2. CASE ~IsUnreachable(status)
      <3>1. ~(status \in {NoStatus} \cup 500..599)
        BY <2>2 DEF IsUnreachable
      <3>2. answer = "absent" => verdict' = "allowed"
        BY <1>6, <2>2
      <3> QED
        BY <3>1, <3>2
    <2> QED
      BY <2>1, <2>2
  <1> QED
    BY <1>3, <1>4, <1>5, <1>6, <1>7 DEF RobotsSoFar

\* fetch() raises a FetchError.
LEMMA AbsentInv == ASSUME IInv, NEW status \in Failures, Absent(status) PROVE IInv'
  <1> USE DEF IInv
  <1>1. status \in Nat /\ "absent" \in Answers /\ "absent" \notin Kinds
    BY FailuresAssumption DEF Answers, Kinds
  <1>2. /\ Probe /\ ~Refused(Head(todo)) /\ Ask(Nowhere, "absent", status)
        /\ todo' = Rest(Len(found)) /\ verdict' = Allowance(~IsUnreachable(status))
        /\ UNCHANGED <<call, stage, at, trusted, found, outcome>>
    BY DEF Absent
  <1>3. Len(found) \in Nat /\ Len(todo) \in Nat /\ Len(todo) > 0
    BY <1>2, TodoFacts, LenProperties DEF TypeOK
  <1>4. /\ todo' \in Seq(Url) /\ Len(todo') \in Nat /\ Len(todo') <= Len(todo) - 1
        /\ call.tool # "sitemap" => todo' = Tail(todo)
        /\ call.tool = "sitemap" /\ Len(todo') > 0 => Len(found) < call.max
    BY <1>2, <1>3, RestFacts, LenProperties
  <1>5. Len(log) \in Nat /\ log' \in Seq(Request) /\ Len(log') = Len(log) + 1
    BY <1>1, <1>2, AskFacts, NowhereType
  <1>6. TypeOK'
    <2>1. verdict' \in {"none", "allowed", "disallowed"}
      BY <1>2 DEF Allowance, TypeOK
    <2> QED
      BY <1>2, <1>4, <1>5, <2>1 DEF TypeOK
  <1>7. GuardHolds'
    BY <1>1, <1>2, AskGuard, NowhereType
  <1>8. Judged' /\ Staged'
    BY <1>2 DEF Judged, Staged, Probe
  <1>9. Found'
    BY <1>2, <1>5 DEF Found
  <1>10. SeedsAreTrusted'
    BY <1>2 DEF SeedsAreTrusted, Staged, Probe
  <1>11. SitemapLimit' /\ Room'
    <2>1. call.tool = "sitemap" => ~(Len(found) = call.max /\ call.max > 0)
      BY <1>3, CallFacts DEF Room
    <2> QED
      BY <1>2, <1>4, <2>1 DEF SitemapLimit, Room
  <1>12. RobotsSoFar'
    <2>1. (~IsUnreachable(status)) \in BOOLEAN
      BY DEF IsUnreachable
    <2> QED
      BY <1>1, <1>2, <1>4, <2>1, RobotsAsk, NowhereType
  <1>13. HuntSoFar'
    BY <1>1, <1>2, <1>4, HuntAsk, NowhereType
  <1> QED
    BY <1>6, <1>7, <1>8, <1>9, <1>10, <1>11, <1>12, <1>13

\* What an answer yields: a number, and for a sitemap no more than there is room for.
LEMMA YieldFacts ==
  ASSUME IInv, Probe, NEW doc \in Documents[call.tool]
  PROVE  /\ Yield(Head(todo), doc) \in Nat
         /\ call.tool = "sitemap" => Len(found) + Yield(Head(todo), doc) <= call.max
  <1> DEFINE n == Yield(Head(todo), doc)
  <1>1. doc.hits \in Nat /\ Len(doc.children) \in Nat
    BY DocumentFacts, LenProperties DEF IInv
  <1>2. Len(found) \in Nat /\ call.max \in Nat
    BY CallFacts, LenProperties DEF IInv, TypeOK
  <1>3. CASE call.tool = "sitemap"
    <2>1. Locs(doc) \in Nat
      BY <1>1 DEF Locs
    <2>2. Len(found) <= call.max
      BY <1>3 DEF IInv, SitemapLimit
    <2>3. Collect(doc) \in Nat /\ Len(found) + Collect(doc) <= call.max
      BY <1>2, <2>1, <2>2 DEF Collect, Smaller
    <2>4. n = 0 \/ n = Collect(doc)
      BY <1>3 DEF Yield
    <2> QED
      BY <1>2, <2>2, <2>3, <2>4
  <1>4. CASE call.tool = "discover"
    <2>1. Entrypoints(Head(todo), doc) \in Nat
      BY <1>1 DEF Entrypoints
    <2> QED
      BY <1>4, <2>1 DEF Yield
  <1>5. CASE call.tool = "robots"
    BY <1>5 DEF Yield
  <1>6. CASE call.tool = "hunt"
    BY <1>1, <1>6 DEF Yield
  <1> QED
    BY <1>3, <1>4, <1>5, <1>6, CallFacts DEF IInv, Tools

\* Things found behind those there are.
LEMMA FoundGrows ==
  ASSUME TypeOK, NEW n \in Nat, NEW l \in Nat,
         found' = found \o [k \in 1..n |-> <<l, k>>]
  PROVE  /\ found' \in Seq(Nat \X Nat) /\ Len(found) \in Nat
         /\ Len(found') = Len(found) + n
         /\ \A i \in 1..Len(found) : found'[i] = found[i]
         /\ \A i \in Len(found) + 1 .. Len(found) + n : found'[i] = <<l, i - Len(found)>>
  <1> DEFINE new == [k \in 1..n |-> <<l, k>>]
  <1>1. new \in Seq(Nat \X Nat)
    <2>1. \A k \in 1..n : <<l, k>> \in Nat \X Nat
      OBVIOUS
    <2> QED
      BY <2>1, IsASeq
  <1>2. found \in Seq(Nat \X Nat) /\ Len(found) \in Nat
    BY LenProperties DEF TypeOK
  <1>3. Len(new) = n /\ \A k \in 1..n : new[k] = <<l, k>>
    OBVIOUS
  <1> HIDE DEF new
  <1>4. /\ found \o new \in Seq(Nat \X Nat) /\ Len(found \o new) = Len(found) + n
        /\ \A i \in 1 .. Len(found) + n :
             (found \o new)[i] = IF i <= Len(found) THEN found[i] ELSE new[i - Len(found)]
    BY <1>1, <1>2, <1>3, ConcatProperties
  <1>5. found' = found \o new
    BY DEF new
  <1>6. ASSUME NEW i \in Len(found) + 1 .. Len(found) + n
        PROVE  found'[i] = <<l, i - Len(found)>>
    <2>1. i \in 1 .. Len(found) + n /\ ~(i <= Len(found)) /\ i - Len(found) \in 1..n
      BY <1>2
    <2> QED
      BY <1>3, <1>4, <1>5, <2>1
  <1>7. \A i \in 1..Len(found) : i \in 1 .. Len(found) + n /\ i <= Len(found)
    BY <1>2
  <1> QED
    BY <1>2, <1>4, <1>5, <1>6, <1>7


\* An answer is read: what it yields is found, and an index names what is fetched next.
LEMMA ReadInv ==
  ASSUME IInv, NEW redirect \in Redirects, NEW doc \in Documents[call.tool],
         Read(redirect, doc)
  PROVE  IInv'
  <1> USE DEF IInv
  <1> DEFINE n == Yield(Head(todo), doc)
             l == Len(log)
             f == Len(found)
             max == call.max
  <1>1. redirect \in [landed : Url, permanent : Url]
    BY RedirectsAssumption
  <1>2. /\ Probe /\ ~Refused(Head(todo)) /\ ~RedirectRefused(Head(todo), redirect)
        /\ Ask(redirect, doc.kind, NoStatus)
        /\ found' = found \o [k \in 1..n |-> <<l + 1, k>>]
        /\ todo' = IF IsIndex(doc) THEN doc.children ELSE Rest(f + n)
        /\ UNCHANGED <<call, stage, at, trusted, outcome>>
    BY DEF Read, Delivered
  <1>3. PICK permitted \in BOOLEAN : /\ LooksLikeHtml(doc) => permitted
                                     /\ verdict' = Allowance(permitted)
    BY DEF Read
  <1>4. /\ doc.kind \in Kinds /\ doc.kind \in Answers /\ doc.kind # "absent"
        /\ doc.children \in Seq(Url) /\ NoStatus \in Nat
    BY DocumentFacts DEF Answers, Kinds, NoStatus
  <1>5. n \in Nat /\ (call.tool = "sitemap" => f + n <= max) /\ max \in Nat
    BY <1>2, YieldFacts, CallFacts
  <1>6. l \in Nat /\ log' \in Seq(Request) /\ Len(log') = l + 1
    BY <1>1, <1>2, <1>4, AskFacts
  <1>7. /\ found' \in Seq(Nat \X Nat) /\ f \in Nat
        /\ Len(found') = f + n
        /\ \A i \in 1..f : found'[i] = found[i]
        /\ \A i \in f + 1 .. f + n : found'[i] = <<l + 1, i - f>>
    <2>1. l + 1 \in Nat
      BY <1>6
    <2> HIDE DEF n, l
    <2> QED
      BY <1>2, <1>5, <2>1, FoundGrows
  <1>8. /\ todo' \in Seq(Url) /\ Len(todo') \in Nat
        /\ ~IsIndex(doc) =>
             /\ Len(todo') <= Len(todo) - 1
             /\ call.tool # "sitemap" => todo' = Tail(todo)
             /\ call.tool = "sitemap" /\ Len(todo') > 0 => f + n < max
    <2>1. f + n \in Nat
      BY <1>5, <1>7
    <2> HIDE DEF n, f
    <2> QED
      BY <1>2, <1>4, <2>1, RestFacts, LenProperties
  <1>9. IsIndex(doc) => call.tool = "sitemap" /\ l = 0 /\ n = 0
    BY EmptySeq DEF IsIndex, Yield
  <1>10. Len(todo) \in Nat /\ Len(todo) > 0 /\ \A i \in 1..f : found[i] \in Nat \X Nat
    BY <1>2, TodoFacts, ElementOfSeq DEF TypeOK
  <1> HIDE DEF n, l, f, max
  <1>11. TypeOK'
    <2>1. verdict' \in {"none", "allowed", "disallowed"}
      BY <1>3 DEF Allowance, TypeOK
    <2> QED
      BY <1>2, <1>6, <1>7, <1>8, <2>1 DEF TypeOK
  <1>12. GuardHolds'
    BY <1>1, <1>2, <1>4, AskGuard
  <1>13. Judged' /\ Staged'
    BY <1>2 DEF Judged, Staged, Probe
  <1>14. Found'
    <2> SUFFICES ASSUME NEW i \in 1..Len(found') PROVE found'[i][1] \in 1..Len(log')
      BY DEF Found
    <2>1. CASE i \in 1..f
      <3>1. found[i][1] \in 1..l
        BY <2>1 DEF Found, f, l
      <3> QED
        BY <1>6, <1>7, <2>1, <3>1
    <2>2. CASE i \in f + 1 .. f + n
      <3>1. found'[i] = <<l + 1, i - f>>
        BY <1>7, <2>2
      <3> QED
        BY <1>6, <3>1
    <2> QED
      BY <1>5, <1>7, <2>1, <2>2
  <1>15. SeedsAreTrusted'
    BY <1>2 DEF SeedsAreTrusted, Staged, Probe
  <1>16. call.tool = "sitemap" /\ max > 0 => f < max
    BY <1>10 DEF Room, f, max
  <1>17. SitemapLimit'
    <2> SUFFICES ASSUME call.tool = "sitemap" PROVE SitemapLimit'
      BY <1>2 DEF SitemapLimit
    <2>1. Len(found') <= max
      BY <1>5, <1>7
    <2>2. ASSUME NEW i \in 1..Len(found'), NEW j \in 1..Len(found'), i < j
          PROVE  \/ found'[i][1] < found'[j][1]
                 \/ found'[i][1] = found'[j][1] /\ found'[i][2] < found'[j][2]
      <3>1. CASE j \in 1..f
        <4>1. i \in 1..f
          <5>1. f + n \in Nat /\ i \in 1 .. f + n
            BY <1>5, <1>7
          <5>2. i \in Nat /\ 1 <= i
            BY <5>1
          <5> QED
            BY <1>7, <2>2, <3>1, <5>2, Earlier
        <4>2. \/ found[i][1] < found[j][1]
              \/ found[i][1] = found[j][1] /\ found[i][2] < found[j][2]
          BY <2>2, <3>1, <4>1 DEF SitemapLimit, f
        <4> QED
          BY <1>7, <3>1, <4>1, <4>2
      <3>2. CASE i \in 1..f /\ j \in f + 1 .. f + n
        <4>1. found'[i][1] \in 1..l
          BY <1>7, <3>2 DEF Found, f, l
        <4>2. found'[j] = <<l + 1, j - f>>
          BY <1>7, <3>2
        <4>3. found'[j][1] = l + 1
          BY <4>2
        <4> QED
          BY <1>6, <4>1, <4>3
      <3>3. CASE i \in f + 1 .. f + n /\ j \in f + 1 .. f + n
        <4>1. found'[i] = <<l + 1, i - f>> /\ found'[j] = <<l + 1, j - f>>
          BY <1>7, <3>3
        <4>2. i - f < j - f
          BY <1>7, <2>2, <3>3
        <4> QED
          BY <4>1, <4>2
      <3>4. \/ j \in 1..f
            \/ i \in 1..f /\ j \in f + 1 .. f + n
            \/ i \in f + 1 .. f + n /\ j \in f + 1 .. f + n
        <4>1. i \in 1 .. f + n /\ j \in 1 .. f + n
          BY <1>7
        <4> QED
          BY <1>5, <1>7, <2>2, <4>1
      <3> QED
        BY <3>1, <3>2, <3>3, <3>4
    <2>3. Len(found') = max /\ max > 0 => found'[Len(found')][1] = Len(log')
      <3> SUFFICES ASSUME f + n = max, max > 0 PROVE found'[f + n][1] = l + 1
        BY <1>6, <1>7
      <3>1. f + n \in f + 1 .. f + n
        <4>1. f < f + n
          BY <1>16
        <4> QED
          BY <1>5, <1>7, <4>1, LastOfMore
      <3>2. found'[f + n] = <<l + 1, (f + n) - f>>
        <4> DEFINE top == f + n
        <4>1. top \in f + 1 .. f + n
          BY <3>1
        <4> HIDE DEF top
        <4>2. found'[top] = <<l + 1, top - f>>
          BY <1>7, <4>1
        <4> QED
          BY <4>2 DEF top
      <3> QED
        BY <3>2
    <2> QED
      BY <1>2, <2>1, <2>2, <2>3 DEF SitemapLimit, max
  <1>18. Room'
    <2>1. CASE IsIndex(doc)
      BY <1>2, <1>5, <1>7, <1>9, <1>16, <2>1 DEF Room, max
    <2>2. CASE ~IsIndex(doc)
      BY <1>2, <1>7, <1>8, <2>2 DEF Room, max
    <2> QED
      BY <2>1, <2>2
  <1>19. RobotsSoFar'
    <2>1. call.tool = "robots" => Len(todo') <= Len(todo) - 1 /\ Len(todo') \in Nat
      BY <1>8, <1>9
    <2>2. doc.kind \in {"html", "xhtml"} => permitted = TRUE
      BY <1>3 DEF LooksLikeHtml
    <2> QED
      BY <1>1, <1>2, <1>3, <1>4, <2>1, <2>2, RobotsAsk
  <1>20. HuntSoFar'
    <2>1. call.tool = "hunt" => todo' = Tail(todo)
      BY <1>8, <1>9
    <2> QED
      BY <1>1, <1>2, <1>4, <2>1, HuntAsk
  <1> QED
    BY <1>11, <1>12, <1>13, <1>14, <1>15, <1>17, <1>18, <1>19, <1>20

-----------------------------------------------------------------------------
LEMMA InvStep == IInv /\ [Next]_vars => IInv'
  <1>1. IInv /\ UNCHANGED vars => IInv'
    <2> SUFFICES ASSUME IInv, UNCHANGED vars PROVE IInv'
      OBVIOUS
    <2>1. UNCHANGED <<call, stage, at, trusted, todo, found, verdict, outcome, log>>
      BY DEF vars
    <2>2. TypeOK' /\ Judged' /\ Staged'
      BY <2>1 DEF IInv, TypeOK, Judged, Staged
    <2>3. Found'
      <3>1. Found
        BY DEF IInv
      <3> QED
        BY <2>1, <3>1 DEF Found
    <2>4. GuardHolds' /\ SeedsAreTrusted'
      BY <2>1 DEF IInv, GuardHolds, External, WasRead, SeedsAreTrusted
    <2>5. SitemapLimit'
      <3>1. SitemapLimit
        BY DEF IInv
      <3> QED
        BY <2>1, <3>1 DEF SitemapLimit
    <2>6. Room' /\ RobotsSoFar'
      BY <2>1 DEF IInv, Room, RobotsSoFar
    <2>7. HuntSoFar'
      BY <2>1 DEF IInv, HuntSoFar
    <2> QED
      BY <2>2, <2>3, <2>4, <2>7, <2>5, <2>6 DEF IInv
  <1>2. IInv /\ Next => IInv'
    BY NextSeedInv, SeedDoneInv, FinishInv, RefuseTargetInv, MalformedInv, AbsentInv,
       RaisesInv, RefuseAnswerInv, CannotReadInv, ReadInv DEF Next
  <1> QED
    BY <1>1, <1>2

\* The inductive invariant is one.
THEOREM Invariance == Spec => []IInv
  BY InitInv, InvStep, PTL DEF Spec

\* The variables of the tools keep to their types.
THEOREM TypeCorrect == Spec => []TypeOK
  <1>1. IInv => TypeOK
    BY DEF IInv
  <1> QED
    BY <1>1, Invariance, PTL

\* What an external seed leads to is neither fetched from an internal address nor looked at
\* when it came from one, whatever the other seeds of the call are.
THEOREM Guarded == Spec => []GuardHolds
  <1>1. IInv => GuardHolds
    BY DEF IInv
  <1> QED
    BY <1>1, Invariance, PTL

\* No call is refused for an internal seed, or for the seed itself.
THEOREM Trusted == Spec => []SeedsAreTrusted
  <1>1. IInv => SeedsAreTrusted
    BY DEF IInv
  <1> QED
    BY <1>1, Invariance, PTL

\* A sitemap's urls are within the limit and in order, and no child is fetched for nothing.
THEOREM Limited == Spec => []SitemapLimit
  <1>1. IInv => SitemapLimit
    BY DEF IInv
  <1> QED
    BY <1>1, Invariance, PTL

\* A scan that returns has asked for every path of every seed, in order, once.
THEOREM Complete == Spec => []HuntIsComplete
  <1>1. IInv => HuntIsComplete
    <2> SUFFICES ASSUME IInv, call.tool = "hunt", outcome = "returned" PROVE HuntIsComplete
      BY DEF HuntIsComplete
    <2> DEFINE p == Len(call.paths)
    <2>1. at = Len(call.seeds) /\ Len(todo) = 0
      BY DEF IInv, Staged
    <2>2. p \in Nat /\ Len(log) \in Nat
      BY CallFacts, LenProperties DEF IInv, TypeOK
    <2>3. /\ Len(log) + Len(todo) = Due(p, at)
          /\ \A i \in 1..at, j \in 1..p : i < at \/ j <= p - Len(todo)
               => log[Place(p, i, j)].url = Join(call.seeds[i], call.paths[j])
      BY DEF IInv, HuntSoFar
    <2> HIDE DEF p
    <2>4. Len(log) = Due(p, at)
      BY <2>1, <2>2, <2>3
    <2>5. \A i \in 1..at, j \in 1..p :
            log[Place(p, i, j)].url = Join(call.seeds[i], call.paths[j])
      BY <2>1, <2>2, <2>3
    <2> QED
      BY <2>1, <2>4, <2>5 DEF HuntIsComplete, Due, Place, p
  <1> QED
    BY <1>1, Invariance, PTL

\* is_allowed() decides by the status of robots.txt as RFC 9309 says.
THEOREM Verdicts == Spec => []RobotsFollowsStatus
  <1>1. IInv => RobotsFollowsStatus
    <2>1. IInv => Len(log) \in Nat /\ (log = <<>> <=> Len(log) = 0)
      BY EmptySeq, LenProperties DEF IInv, TypeOK
    <2>2. IInv /\ call.tool = "robots" /\ outcome = "returned" /\ Len(log) = 0
            => verdict = "allowed"
      BY DEF IInv, RobotsSoFar
    <2>3. IInv /\ call.tool = "robots" /\ outcome = "returned" /\ Len(log) # 0 =>
            /\ verdict # "none"
            /\ log[1].answer = "absent" =>
                 /\ log[1].status \in {NoStatus} \cup 500..599 => verdict = "disallowed"
                 /\ log[1].status \in 400..499 => verdict = "allowed"
            /\ log[1].answer \in {"html", "xhtml"} => verdict = "allowed"
      BY DEF IInv, RobotsSoFar
    <2> QED
      BY <2>1, <2>2, <2>3 DEF RobotsFollowsStatus
  <1> QED
    BY <1>1, Invariance, PTL

=============================================================================
