------------------------- MODULE FetchChainProofs -------------------------
(***************************************************************************)
(* For every policy, every set of statuses and every argument combination: *)
(* fetch() escalates on a fingerprint signal only, retries transient       *)
(* failures only and at most max_attempts times, sends nothing the         *)
(* arguments forbid, reports the last exchange, sleeps no longer than the  *)
(* policy and the cap say, and keeps FetchContract.                        *)
(*                                                                         *)
(* These facts speak of the whole history of requests.  The inductive      *)
(* invariant adds what the control point knows of its end: which tier the  *)
(* last request went to, whether it brought a signal (LastExchange), and   *)
(* that the requests of the tier in charge are the last ones, counted by   *)
(* idx (TierIsLast).                                                       *)
(***************************************************************************)
EXTENDS FetchChain, SequenceTheorems, TLAPS

Looping == {"try", "sleep", "conclude"}

\* Where the call is: the range it resolved, the tier in charge, what it has returned.
Placed ==
  /\ phase = "start" => tier = NoTier /\ range.hi = NoTier
  /\ phase = "done" \/ tier # NoTier \/ phase = "start"
  /\ tier = NoTier => wire = <<>>
  /\ tier # NoTier => /\ ~BadArguments
                      /\ range = ResolveTierRange
                      /\ range.lo <= tier
                      /\ tier <= range.hi
  /\ phase \in Looping /\ tier = Patchright => ~BrowserRefuses
  /\ result.kind = "none" <=> phase # "done"
  /\ phase # "done" => result.status = NoStatus

\* The loop is entered only with an attempt left.
AttemptLeft == /\ phase = "try" => idx < call.attempts
               /\ phase = "sleep" => idx + 1 < call.attempts

\* The requests of the tier in charge are the last ones; their number is known.
TierIsLast ==
  \A i \in 1..Len(wire) :
     /\ wire[i].tier <= tier
     /\ phase = "dispatch" => wire[i].tier < tier
     /\ phase = "try" /\ wire[i].tier = tier => i > Len(wire) - idx
     /\ phase \in {"sleep", "conclude"} /\ wire[i].tier = tier => i > Len(wire) - (idx + 1)

Latest == wire[Len(wire)]
Fresh  == phase = "dispatch" \/ (phase = "try" /\ idx = 0)
Again  == phase = "sleep" \/ (phase = "try" /\ idx > 0)

\* The statuses that settle a call when the policy does not list them: refused for good, or
\* answered.
Final    == {401, 404, 407, 410, 451} \ RetryOn
Answered == 200..399 \ RetryOn

\* An exchange that leaves the call undecided: if there was an answer, it looked like a block.
Undecided(x) == /\ x.status \notin Final
                /\ x.status \in Answered => FingerprintSignal(x)

\* What the last exchange was, wherever the call is.
LastExchange ==
  /\ Fresh /\ wire # <<>> => Latest.tier + 1 = tier /\ FingerprintSignal(Latest)
  /\ Again => wire # <<>> /\ Latest.tier = tier /\ TransientFailure(Latest)
  /\ phase = "conclude" =>
       IF call.attempts > 0
       THEN /\ wire # <<>>
            /\ Latest.tier = tier
            /\ last.status = Latest.status
            /\ IsBlock(tier, last) <=> FingerprintSignal(Latest)
            /\ Undecided(Latest)
       ELSE wire = <<>> /\ last = NoAttempt
  /\ call.attempts <= 0 => wire = <<>>

IInv == /\ TypeOK
        /\ Placed
        /\ AttemptLeft
        /\ TierIsLast
        /\ LastExchange
        /\ EscalationIsFingerprintOnly
        /\ RetriesOnlyTransient
        /\ AttemptsBounded
        /\ RequestsAreAllowed
        /\ ResultMatchesLastExchange

LEMMA Types == TierOrder = {Httpx, Curl, Patchright} /\ NoTier \notin TierOrder
  BY DEF TierOrder, Httpx, Curl, Patchright, NoTier

LEMMA CallTypes ==
  ASSUME TypeOK
  PROVE  /\ call.pinned \in {NoTier} \cup TierOrder
         /\ call.min \in {NoTier} \cup TierOrder
         /\ call.max \in {NoTier} \cup TierOrder
         /\ call.attempts \in Attempts
         /\ call.attempts \in Int
  BY CallsAssumption, AttemptsAssumption DEF TypeOK, CallType

LEMMA RangeTypes ==
  ASSUME TypeOK
  PROVE  /\ ResolveTierRange \in [lo : TierOrder, hi : TierOrder]
         /\ ~BadArguments => ResolveTierRange.lo <= ResolveTierRange.hi
  <1>1. ResolveTierRange \in [lo : TierOrder, hi : TierOrder]
    BY CallTypes DEF ResolveTierRange, TierOrder, NoTier, Httpx, Patchright
  <1>2. ResolveTierRange.lo \in Int /\ ResolveTierRange.hi \in Int
    BY <1>1 DEF TierOrder
  <1> QED
    BY <1>1, <1>2 DEF BadArguments

LEMMA DelayType ==
  ASSUME TypeOK, NEW r \in RetryAfters \cup {NoRetryAfter}, NEW i \in 0..call.attempts
  PROVE  NextDelay(r, i) \in Nat
  <1>1. Backoff(i) \in Nat /\ RetryAfterCap \in Nat
    BY CallTypes, DelayAssumption
  <1>2. r \in Nat \cup {NoRetryAfter}
    BY DelayAssumption
  <1> QED
    BY <1>1, <1>2 DEF NextDelay, NoRetryAfter

Replies == {"answer"} \cup HttpFailures \cup BrowserFailures \cup Escapes

\* What an attempt that leaves the call undecided remembers of its exchange x.
AttemptFits(attempt, x) == /\ attempt.status = x.status
                           /\ Undecided(x)
                           /\ IsBlock(x.tier, attempt) <=> FingerprintSignal(x)
                           /\ ~attempt.soft => TransientFailure(x)

\* What fetch() returns or raises when the exchange x decides the call.
KindFits(kind, backend, x) ==
  /\ kind \in {"Response", "raw", "FetchError", "AuthRequired", "GoneError", "LegalBlock"}
  /\ ~FingerprintSignal(x)
  /\ backend \in {NoTier, x.tier}
  /\ kind = "Response" => backend = x.tier
  /\ kind = "Response" <=> x.status \in 200..399 \ RetryOn
  /\ kind = "AuthRequired" <=> x.status \in {401, 407} \ RetryOn
  /\ kind = "GoneError" <=> x.status \in {404, 410} \ RetryOn
  /\ kind = "LegalBlock" <=> x.status \in {451} \ RetryOn

\* One round of a retry loop: the exchange x is appended to the history, and either ends
\* the attempt or the call.
Appends(x) == /\ x \in Exchange
              /\ x.tier = tier
              /\ wire' = Append(wire, x)

Continues(x) == \E attempt \in Attempt : EndAttempt(attempt) /\ AttemptFits(attempt, x)

Decides(x) == \E kind, backend : /\ Finish(kind, backend, x.status)
                                /\ KindFits(kind, backend, x)
                                /\ EndCall

Round(x) == Appends(x) /\ (Continues(x) \/ Decides(x))

X(reply, status, page) == [tier |-> tier, reply |-> reply, status |-> status, page |-> page]

LEMMA SendAppends ==
  ASSUME TypeOK, tier # NoTier, NEW reply \in Replies, NEW status \in Nat, NEW page \in Pages,
         Send(reply, status, page)
  PROVE  Appends(X(reply, status, page))
  BY DEF TypeOK, Exchange, Replies, Send, Appends, X

LEMMA Rounds ==
  ASSUME TypeOK, Placed, AttemptOnce
  PROVE  phase = "try" /\ \E x \in Exchange : Round(x)
  <1> USE DEF Round, X, Continues, Decides
  <1>a. phase = "try" => tier # NoTier
    BY DEF Placed
  <1>b. /\ HttpFailures \cup BrowserFailures \subseteq Replies
        /\ {"answer", "raw", "unreadable"} \subseteq Replies
    BY DEF Replies, Escapes
  <1>c. Statuses \subseteq Nat /\ NoStatus \in Nat /\ "full" \in Pages
    BY StatusAssumption DEF NoStatus, Pages
  <1>1. NoAttempt \in Attempt
    BY DEF NoAttempt, Attempt, NoStatus
  <1>2. ASSUME NEW failure \in HttpFailures \cup BrowserFailures, NoAnswer(failure)
        PROVE  phase = "try" /\ Round(X(failure, NoStatus, "full"))
    <2> DEFINE attempt == [NoAttempt EXCEPT !.failure = failure]
    <2>1. attempt \in Attempt
      BY <1>1 DEF Attempt
    <2>2. IsBlock(tier, attempt) <=> FingerprintSignal(X(failure, NoStatus, "full"))
      BY DEF IsBlock, FingerprintSignal, NoAttempt, NoStatus, FingerprintStatuses
    <2>3. TransientFailure(X(failure, NoStatus, "full"))
      BY DEF TransientFailure
    <2>4. AttemptFits(attempt, X(failure, NoStatus, "full"))
      BY <2>2, <2>3 DEF AttemptFits, NoAttempt, Undecided, Final, Answered, NoStatus
    <2>5. Appends(X(failure, NoStatus, "full"))
      BY <1>a, <1>b, <1>c, <1>2, SendAppends DEF NoAnswer
    <2> QED
      BY <1>2, <2>1, <2>4, <2>5 DEF NoAnswer
  <1>3. ASSUME RawError
        PROVE  phase = "try" /\ Round(X("raw", NoStatus, "full"))
    <2>1. KindFits("raw", NoTier, X("raw", NoStatus, "full"))
      BY DEF KindFits, FingerprintSignal, NoStatus
    <2>2. Appends(X("raw", NoStatus, "full"))
      BY <1>a, <1>b, <1>c, <1>3, SendAppends DEF RawError
    <2> QED
      BY <1>3, <2>1, <2>2 DEF RawError, Raise
  <1>4. ASSUME UnreadablePage
        PROVE  phase = "try" /\ Round(X("unreadable", NoStatus, "full"))
    <2>1. KindFits("FetchError", NoTier, X("unreadable", NoStatus, "full"))
      BY DEF KindFits, FingerprintSignal, NoStatus
    <2>2. Appends(X("unreadable", NoStatus, "full"))
      BY <1>a, <1>b, <1>c, <1>4, SendAppends DEF UnreadablePage
    <2> QED
      BY <1>4, <2>1, <2>2 DEF UnreadablePage, Raise
  <1>5. ASSUME NEW status \in Statuses, NEW page \in Pages, NEW retryAfter \in RetryAfters,
               TransientStatus(status, page, retryAfter)
        PROVE  phase = "try" /\ Round(X("answer", status, page))
    <2> DEFINE attempt == [NoAttempt EXCEPT !.status = status, !.retryAfter = retryAfter]
    <2>1. attempt \in Attempt
      BY <1>1, StatusAssumption DEF Attempt
    <2>2. attempt.status = status /\ ~attempt.soft /\ attempt.failure = "none"
      BY DEF NoAttempt
    <2>3. status \in RetryOn \cup {403}
      BY <1>5 DEF TransientStatus, IsTransient, ShouldRetry, FingerprintStatuses
    <2>4. AttemptFits(attempt, X("answer", status, page))
      BY <2>2, <2>3 DEF AttemptFits, IsBlock, FingerprintSignal, TransientFailure,
                        FingerprintStatuses, Undecided, Final, Answered
    <2>5. Appends(X("answer", status, page))
      BY <1>a, <1>b, <1>c, <1>5, SendAppends DEF TransientStatus
    <2> QED
      BY <1>5, <2>1, <2>4, <2>5 DEF TransientStatus
  <1>6. ASSUME NEW status \in Statuses, NEW page \in Pages, TerminalStatus(status, page)
        PROVE  phase = "try" /\ Round(X("answer", status, page))
    <2>1. status \in {401, 404, 407, 410, 451} \ RetryOn
      BY <1>6 DEF TerminalStatus, Terminal, IsTransient, ShouldRetry
    <2>2. KindFits(Terminal[status], NoTier, X("answer", status, page))
      BY <2>1 DEF KindFits, FingerprintSignal, Terminal
    <2>3. Appends(X("answer", status, page))
      BY <1>a, <1>b, <1>c, <1>6, SendAppends DEF TerminalStatus
    <2> QED
      BY <1>6, <2>2, <2>3 DEF TerminalStatus, Raise
  <1>7. ASSUME NEW status \in Statuses, NEW page \in Pages, UnsuccessfulStatus(status, page)
        PROVE  phase = "try" /\ Round(X("answer", status, page))
    <2>1. status # 403 /\ status \notin Final \cup Answered
      BY <1>7 DEF UnsuccessfulStatus, IsTransient, FingerprintStatuses, IsSuccessStatus, Terminal,
                  Final, Answered
    <2>2. KindFits("FetchError", NoTier, X("answer", status, page))
      BY <2>1, StatusAssumption DEF KindFits, FingerprintSignal, Final, Answered
    <2>3. Appends(X("answer", status, page))
      BY <1>a, <1>b, <1>c, <1>7, SendAppends DEF UnsuccessfulStatus
    <2> QED
      BY <1>7, <2>2, <2>3 DEF UnsuccessfulStatus, Raise
  <1>8. ASSUME NEW status \in Statuses, NEW page \in Pages, SoftBlock(status, page)
        PROVE  phase = "try" /\ Round(X("answer", status, page))
    <2> DEFINE attempt == [NoAttempt EXCEPT !.status = status, !.soft = TRUE]
    <2>1. attempt \in Attempt
      BY <1>1, StatusAssumption DEF Attempt
    <2>2. attempt.status = status /\ attempt.soft /\ status \in 200..299
      BY <1>8 DEF NoAttempt, SoftBlock, IsSuspectedSoftBlock
    <2>3. FingerprintSignal(X("answer", status, page))
      BY <1>8 DEF SoftBlock, IsSuspectedSoftBlock, IsTransient, ShouldRetry, FingerprintSignal
    <2>4. AttemptFits(attempt, X("answer", status, page))
      BY <2>2, <2>3 DEF AttemptFits, IsBlock, Undecided, Final
    <2>5. Appends(X("answer", status, page))
      BY <1>a, <1>b, <1>c, <1>8, SendAppends DEF SoftBlock
    <2> QED
      BY <1>8, <2>1, <2>4, <2>5 DEF SoftBlock
  <1>9. ASSUME NEW status \in Statuses, NEW page \in Pages, Success(status, page)
        PROVE  phase = "try" /\ Round(X("answer", status, page))
    <2>1. /\ status # 403
          /\ status \in 200..399 \ RetryOn
          /\ ~(call.method = "GET" /\ status \in 200..299 \ {204} /\ page = "blank")
      BY <1>9 DEF Success, IsTransient, ShouldRetry, FingerprintStatuses, IsSuccessStatus,
                  IsSuspectedSoftBlock
    <2>2. KindFits("Response", tier, X("answer", status, page))
      BY <2>1 DEF KindFits, FingerprintSignal
    <2>3. Appends(X("answer", status, page))
      BY <1>a, <1>b, <1>c, <1>9, SendAppends DEF Success
    <2> QED
      BY <1>9, <2>2, <2>3 DEF Success
  <1> QED
    <2> HIDE DEF Round, X
    <2>1. \A x : Round(x) => x \in Exchange
      BY DEF Round, Appends
    <2> QED
      BY <1>2, <1>3, <1>4, <1>5, <1>6, <1>7, <1>8, <1>9, <2>1 DEF AttemptOnce

LEMMA AppendFacts ==
  ASSUME TypeOK, NEW x, Appends(x)
  PROVE  /\ Len(wire) \in Nat
         /\ wire' \in Seq(Exchange)
         /\ wire' # <<>>
         /\ Len(wire') = Len(wire) + 1
         /\ \A i \in 1..Len(wire) : wire'[i] = wire[i]
         /\ Latest' = x
  BY DEF TypeOK, Appends, Latest

LEMMA EntryTypes ==
  ASSUME TypeOK
  PROVE  /\ Len(wire) \in Nat
         /\ wire # <<>> => Len(wire) \in 1..Len(wire)
         /\ \A i \in 1..Len(wire) : wire[i] \in Exchange /\ wire[i].tier \in Int
  <1>1. \A i \in 1..Len(wire) : wire[i] \in Exchange
    BY ElementOfSeq DEF TypeOK
  <1>2. \A i \in 1..Len(wire) : wire[i].tier \in Int
    BY <1>1 DEF Exchange, TierOrder
  <1>3. Len(wire) \in Nat /\ (wire # <<>> => Len(wire) > 0)
    BY EmptySeq, LenProperties DEF TypeOK
  <1> QED
    BY <1>1, <1>2, <1>3

\* The steps that send nothing.
Dispatched == DispatchHttp \/ DispatchBrowser
Refused    == RejectArguments \/ RefuseBrowser \/ LaunchFails

LEMMA Steps ==
  ASSUME TypeOK, Placed, [Next]_vars
  PROVE  \/ AcceptArguments \/ Dispatched \/ Refused \/ Sleep
         \/ Escalate \/ SurfaceBlock \/ Exhausted \/ UNCHANGED vars
         \/ phase = "try" /\ \E x \in Exchange : Round(x)
  BY Rounds DEF Next, Dispatched, Refused

LEMMA TypeStep == TypeOK /\ Placed /\ AttemptLeft /\ [Next]_vars => TypeOK'
  <1> SUFFICES ASSUME TypeOK, Placed, AttemptLeft, [Next]_vars
               PROVE  TypeOK'
    OBVIOUS
  <1> USE DEF TypeOK, Phases
  <1>1. CASE AcceptArguments
    <2>1. range' \in [lo : TierOrder, hi : TierOrder] /\ tier' \in TierOrder
      BY <1>1, RangeTypes DEF AcceptArguments
    <2> QED
      BY <1>1, <2>1 DEF AcceptArguments
  <1>2. CASE Dispatched
    <2>1. NoAttempt \in Attempt
      BY DEF NoAttempt, Attempt, NoStatus
    <2>2. StartLoop
      BY <1>2 DEF Dispatched, DispatchHttp, DispatchBrowser
    <2> QED
      BY <2>1, <2>2 DEF StartLoop
  <1>3. CASE Refused
    BY <1>3 DEF Refused, RejectArguments, RefuseBrowser, LaunchFails, Raise, Finish, Result,
                Errors, NoStatus
  <1>4. CASE Sleep
    <2>1. idx \in 0..call.attempts
      BY <1>4, CallTypes DEF Sleep, AttemptLeft
    <2>2. NextDelay(last.retryAfter, idx) \in Nat
      BY <2>1, DelayType DEF Attempt
    <2> QED
      BY <1>4, <2>2 DEF Sleep
  <1>5. CASE Escalate
    <2>1. tier + 1 \in TierOrder
      BY <1>5 DEF Escalate, TierOrder, NoTier
    <2> QED
      BY <1>5, <2>1 DEF Escalate
  <1>6. CASE SurfaceBlock \/ Exhausted
    BY <1>6 DEF SurfaceBlock, Exhausted, Raise, Finish, Result, Errors, Attempt
  <1>7. ASSUME NEW x \in Exchange, Round(x)
        PROVE  TypeOK'
    <2>1. wire' \in Seq(Exchange)
      BY <1>7, AppendFacts DEF Round
    <2>2. CASE Continues(x)
      BY <2>1, <2>2 DEF Continues, EndAttempt
    <2>3. CASE Decides(x)
      <3>1. PICK kind, backend : /\ Finish(kind, backend, x.status)
                                /\ KindFits(kind, backend, x)
                                /\ EndCall
        BY <2>3 DEF Decides
      <3>2. result' \in Result
        BY <3>1 DEF Finish, KindFits, Result, Errors, Exchange
      <3> QED
        BY <2>1, <3>1, <3>2 DEF Finish, EndCall
    <2> QED
      BY <1>7, <2>2, <2>3 DEF Round
  <1>8. CASE UNCHANGED vars
    BY <1>8 DEF vars
  <1> QED
    BY <1>1, <1>2, <1>3, <1>4, <1>5, <1>6, <1>7, <1>8, Steps

LEMMA PlacedStep == TypeOK /\ Placed /\ AttemptLeft /\ [Next]_vars => Placed' /\ AttemptLeft'
  <1> SUFFICES ASSUME TypeOK, Placed, AttemptLeft, [Next]_vars
               PROVE  Placed' /\ AttemptLeft'
    OBVIOUS
  <1> USE DEF Placed, AttemptLeft, Looping
  <1>1. CASE AcceptArguments
    <2>1. /\ ResolveTierRange.lo # NoTier
          /\ ResolveTierRange.lo \in Int
          /\ ResolveTierRange.lo <= ResolveTierRange.hi
      BY <1>1, RangeTypes, Types DEF AcceptArguments, TierOrder
    <2> QED
      BY <1>1, <2>1 DEF AcceptArguments, BadArguments, TwoBodies, ResolveTierRange
  <1>2. CASE Dispatched
    BY <1>2, CallTypes DEF Dispatched, DispatchHttp, DispatchBrowser, StartLoop, BadArguments,
                           TwoBodies, ResolveTierRange, BrowserRefuses
  <1>3. CASE Refused
    BY <1>3 DEF Refused, RejectArguments, RefuseBrowser, LaunchFails, Raise, Finish,
                BadArguments, TwoBodies, ResolveTierRange
  <1>4. CASE Sleep
    BY <1>4 DEF Sleep, BadArguments, TwoBodies, ResolveTierRange, BrowserRefuses
  <1>5. CASE Escalate
    <2>1. /\ tier + 1 <= range.hi
          /\ range.lo <= tier + 1
          /\ tier + 1 # NoTier
      BY <1>5 DEF Escalate, TypeOK, TierOrder, NoTier
    <2> QED
      BY <1>5, <2>1 DEF Escalate, BadArguments, TwoBodies, ResolveTierRange
  <1>6. CASE SurfaceBlock \/ Exhausted
    BY <1>6 DEF SurfaceBlock, Exhausted, Raise, Finish, BadArguments, TwoBodies, ResolveTierRange
  <1>7. ASSUME NEW x \in Exchange, phase = "try", Round(x)
        PROVE  Placed' /\ AttemptLeft'
    <2>1. CASE Continues(x)
      BY <1>7, <2>1 DEF Continues, EndAttempt, BadArguments, TwoBodies, ResolveTierRange,
                          BrowserRefuses
    <2>2. CASE Decides(x)
      <3>1. phase' = "done" /\ result'.kind # "none"
        BY <2>2 DEF Decides, Finish, KindFits
      <3> QED
        BY <1>7, <2>2, <3>1 DEF Decides, EndCall, BadArguments, TwoBodies, ResolveTierRange
    <2> QED
      BY <1>7, <2>1, <2>2 DEF Round
  <1>8. CASE UNCHANGED vars
    BY <1>8 DEF vars, BadArguments, TwoBodies, ResolveTierRange, BrowserRefuses
  <1> QED
    BY <1>1, <1>2, <1>3, <1>4, <1>5, <1>6, <1>7, <1>8, Steps

LEMMA TierIsLastStep ==
  TypeOK /\ Placed /\ AttemptLeft /\ TierIsLast /\ [Next]_vars => TierIsLast'
  <1> SUFFICES ASSUME TypeOK, Placed, AttemptLeft, TierIsLast, [Next]_vars
               PROVE  TierIsLast'
    OBVIOUS
  <1> USE DEF TierIsLast
  <1>1. /\ Len(wire) \in Nat
        /\ \A i \in 1..Len(wire) : wire[i].tier \in Int
        /\ tier \in Int
        /\ idx \in Nat
    BY EntryTypes DEF TypeOK, TierOrder, NoTier
  <1>2. CASE AcceptArguments
    <2>1. Len(wire) = 0
      BY <1>2 DEF AcceptArguments, Placed
    <2> QED
      BY <1>2, <2>1 DEF AcceptArguments
  <1>3. CASE Dispatched
    BY <1>1, <1>3 DEF Dispatched, DispatchHttp, DispatchBrowser, StartLoop
  <1>4. CASE Refused
    BY <1>4 DEF Refused, RejectArguments, RefuseBrowser, LaunchFails, Raise, Finish
  <1>5. CASE Sleep
    BY <1>5 DEF Sleep
  <1>6. CASE Escalate
    BY <1>1, <1>6 DEF Escalate
  <1>7. CASE SurfaceBlock \/ Exhausted
    BY <1>7 DEF SurfaceBlock, Exhausted, Raise, Finish
  <1>8. ASSUME NEW x \in Exchange, phase = "try", Round(x)
        PROVE  TierIsLast'
    <2>1. /\ Len(wire') = Len(wire) + 1
          /\ \A i \in 1..Len(wire) : wire'[i] = wire[i]
          /\ wire'[Len(wire) + 1].tier = tier
      BY <1>8, AppendFacts DEF Round, Appends, Latest
    <2>2. tier' = tier /\ idx' = idx
      BY <1>8 DEF Round, Continues, Decides, EndAttempt, EndCall
    <2>3. phase' \in {"sleep", "conclude", "done"}
      BY <1>8 DEF Round, Continues, Decides, EndAttempt, Finish
    <2>4. ASSUME NEW i \in 1..Len(wire')
          PROVE  /\ wire'[i].tier <= tier
                 /\ wire'[i].tier = tier => i > Len(wire') - (idx + 1)
      <3>1. CASE i = Len(wire) + 1
        BY <1>1, <2>1, <3>1
      <3>2. CASE i \in 1..Len(wire)
        BY <1>1, <1>8, <2>1, <3>2
      <3> QED
        BY <1>1, <2>1, <3>1, <3>2
    <2> QED
      BY <2>2, <2>3, <2>4
  <1>9. CASE UNCHANGED vars
    BY <1>9 DEF vars
  <1> QED
    BY <1>2, <1>3, <1>4, <1>5, <1>6, <1>7, <1>8, <1>9, Steps

LEMMA LastExchangeStep ==
  TypeOK /\ Placed /\ AttemptLeft /\ LastExchange /\ [Next]_vars => LastExchange'
  <1> SUFFICES ASSUME TypeOK, Placed, AttemptLeft, LastExchange, [Next]_vars
               PROVE  LastExchange'
    OBVIOUS
  <1> USE DEF LastExchange, Fresh, Again, Latest, FingerprintSignal, TransientFailure, Undecided
  <1>1. call.attempts \in Int /\ idx \in Nat /\ tier \in Int
    BY CallTypes DEF TypeOK, TierOrder, NoTier
  <1>2. CASE AcceptArguments
    <2>1. wire = <<>>
      BY <1>2 DEF AcceptArguments, Placed
    <2> QED
      BY <1>2, <2>1 DEF AcceptArguments
  <1>3. CASE Dispatched
    <2>1. phase = "dispatch" /\ StartLoop
      BY <1>3 DEF Dispatched, DispatchHttp, DispatchBrowser
    <2> QED
      BY <1>1, <2>1 DEF StartLoop
  <1>4. CASE Refused
    BY <1>4 DEF Refused, RejectArguments, RefuseBrowser, LaunchFails, Raise, Finish
  <1>5. CASE Sleep
    BY <1>1, <1>5 DEF Sleep
  <1>6. CASE Escalate
    <2>1. call.attempts > 0
      BY <1>6 DEF Escalate, IsBlock, NoAttempt, NoStatus, FingerprintStatuses
    <2> QED
      BY <1>1, <1>6, <2>1 DEF Escalate
  <1>7. CASE SurfaceBlock \/ Exhausted
    BY <1>7 DEF SurfaceBlock, Exhausted, Raise, Finish
  <1>8. ASSUME NEW x \in Exchange, phase = "try", Round(x)
        PROVE  LastExchange'
    <2>1. /\ wire' # <<>>
          /\ Latest' = x
          /\ x.tier = tier
      BY <1>8, AppendFacts DEF Round, Appends
    <2>2. call.attempts > 0
      BY <1>1, <1>8 DEF AttemptLeft
    <2>3. CASE Continues(x)
      <3>1. PICK attempt \in Attempt : EndAttempt(attempt) /\ AttemptFits(attempt, x)
        BY <2>3 DEF Continues
      <3>2. /\ phase' \in {"sleep", "conclude"}
            /\ phase' = "sleep" => TransientFailure(x)
            /\ call' = call /\ tier' = tier /\ last' = attempt
        BY <3>1 DEF EndAttempt, AttemptFits
      <3>3. /\ attempt.status = x.status
            /\ IsBlock(tier, attempt) <=> FingerprintSignal(x)
            /\ Undecided(x)
        BY <2>1, <3>1 DEF AttemptFits
      <3> QED
        BY <1>1, <2>1, <2>2, <3>2, <3>3 DEF IsBlock
    <2>4. CASE Decides(x)
      <3>1. phase' = "done" /\ call' = call
        BY <2>4 DEF Decides, Finish, EndCall
      <3> QED
        BY <1>1, <2>1, <2>2, <3>1
    <2> QED
      BY <1>8, <2>3, <2>4 DEF Round
  <1>9. CASE UNCHANGED vars
    BY <1>9 DEF vars
  <1> QED
    BY <1>2, <1>3, <1>4, <1>5, <1>6, <1>7, <1>8, <1>9, Steps

\* A request that follows another one: a new tier is asked after a signal, the same tier
\* after a transient failure.
LEMMA NextRequest ==
  ASSUME TypeOK, Placed, LastExchange, phase = "try", wire # <<>>
  PROVE  \/ Latest.tier + 1 = tier /\ FingerprintSignal(Latest)
         \/ Latest.tier = tier /\ TransientFailure(Latest)
  BY DEF TypeOK, LastExchange, Fresh, Again

\* The history grows by rounds only.
LEMMA WireGrows ==
  ASSUME TypeOK, Placed, [Next]_vars
  PROVE  /\ call' = call
         /\ \/ wire' = wire
            \/ phase = "try" /\ \E x \in Exchange : Round(x)
  <1>1. CASE AcceptArguments \/ Dispatched \/ Refused \/ Sleep
    BY <1>1 DEF AcceptArguments, Dispatched, DispatchHttp, DispatchBrowser, StartLoop, Refused,
                RejectArguments, RefuseBrowser, LaunchFails, Sleep
  <1>2. CASE Escalate \/ SurfaceBlock \/ Exhausted \/ UNCHANGED vars
    BY <1>2 DEF Escalate, SurfaceBlock, Exhausted, vars
  <1>3. ASSUME NEW x \in Exchange, Round(x)
        PROVE  call' = call
    BY <1>3 DEF Round, Continues, Decides, EndAttempt, EndCall
  <1> QED
    BY <1>1, <1>2, <1>3, Steps

History == EscalationIsFingerprintOnly /\ RetriesOnlyTransient

LEMMA HistoryStep ==
  TypeOK /\ Placed /\ LastExchange /\ History /\ [Next]_vars => History'
  <1> SUFFICES ASSUME TypeOK, Placed, LastExchange, History, [Next]_vars
               PROVE  History'
    OBVIOUS
  <1> USE DEF History, EscalationIsFingerprintOnly, RetriesOnlyTransient, SameTier,
              FingerprintSignal, TransientFailure
  <1>1. CASE wire' = wire
    BY <1>1, WireGrows
  <1>2. ASSUME NEW x \in Exchange, phase = "try", Round(x)
        PROVE  History'
    <2>1. /\ Len(wire') = Len(wire) + 1
          /\ Len(wire) \in Nat
          /\ \A i \in 1..Len(wire) : wire'[i] = wire[i]
          /\ wire'[Len(wire) + 1].tier = tier
      BY <1>2, AppendFacts DEF Round, Appends, Latest
    <2>2. ASSUME NEW i \in 1 .. Len(wire') - 1
          PROVE  \/ /\ ~SameTier(i, i + 1)'
                    /\ wire'[i + 1].tier = wire'[i].tier + 1
                    /\ FingerprintSignal(wire'[i])
                 \/ SameTier(i, i + 1)' /\ TransientFailure(wire'[i])
      <3>1. CASE i < Len(wire)
        <4>1. wire'[i] = wire[i] /\ wire'[i + 1] = wire[i + 1]
          BY <2>1, <3>1
        <4>2. i \in 1 .. Len(wire) - 1
          BY <2>1, <3>1
        <4>3. \/ /\ ~SameTier(i, i + 1)
                 /\ wire[i + 1].tier = wire[i].tier + 1
                 /\ FingerprintSignal(wire[i])
              \/ SameTier(i, i + 1) /\ TransientFailure(wire[i])
          BY <4>2
        <4> HIDE DEF FingerprintSignal, TransientFailure
        <4> QED
          BY <4>1, <4>3
      <3>2. CASE i = Len(wire)
        <4>1. /\ wire # <<>>
              /\ wire'[i] = Latest
              /\ wire'[i + 1].tier = tier
          BY <2>1, <3>2 DEF Latest
        <4>2. tier \in Int /\ Latest.tier \in Int
          BY <4>1, EntryTypes DEF TypeOK, TierOrder, NoTier, Latest
        <4> QED
          BY <1>2, <4>1, <4>2, NextRequest
      <3> QED
        BY <2>1, <3>1, <3>2
    <2>3. call' = call
      BY WireGrows
    <2> QED
      BY <2>2, <2>3
  <1> QED
    BY <1>1, <1>2, WireGrows

LEMMA AttemptsBoundedStep ==
  TypeOK /\ Placed /\ AttemptLeft /\ TierIsLast /\ AttemptsBounded /\ [Next]_vars
    => AttemptsBounded'
  <1> SUFFICES ASSUME TypeOK, Placed, AttemptLeft, TierIsLast, AttemptsBounded, [Next]_vars
               PROVE  AttemptsBounded'
    OBVIOUS
  <1> USE DEF AttemptsBounded, SameTier
  <1>1. CASE wire' = wire
    BY <1>1, WireGrows
  <1>2. ASSUME NEW x \in Exchange, phase = "try", Round(x)
        PROVE  AttemptsBounded'
    <2>1. /\ Len(wire') = Len(wire) + 1
          /\ Len(wire) \in Nat
          /\ \A i \in 1..Len(wire) : wire'[i] = wire[i]
          /\ wire'[Len(wire) + 1].tier = tier
      BY <1>2, AppendFacts DEF Round, Appends, Latest
    <2>2. idx < call.attempts /\ idx \in Nat /\ call.attempts \in Int
      BY <1>2, CallTypes DEF AttemptLeft, TypeOK
    <2>3. ASSUME NEW i \in 1..Len(wire'), NEW j \in 1..Len(wire'), SameTier(i, j)'
          PROVE  j - i < call.attempts
      <3>1. CASE i \in 1..Len(wire) /\ j \in 1..Len(wire)
        BY <2>1, <2>3, <3>1
      <3>2. CASE i = Len(wire) + 1
        BY <2>1, <2>2, <3>2
      <3>3. CASE i \in 1..Len(wire) /\ j = Len(wire) + 1
        <4>1. wire[i].tier = tier
          BY <2>1, <2>3, <3>3
        <4>2. i > Len(wire) - idx
          BY <1>2, <3>3, <4>1 DEF TierIsLast
        <4> QED
          BY <2>1, <2>2, <3>3, <4>2
      <3> QED
        BY <2>1, <3>1, <3>2, <3>3
    <2> QED
      BY <2>3, WireGrows
  <1> QED
    BY <1>1, <1>2, WireGrows

LEMMA RequestsAreAllowedStep ==
  TypeOK /\ Placed /\ RequestsAreAllowed /\ [Next]_vars => RequestsAreAllowed'
  <1> SUFFICES ASSUME TypeOK, Placed, RequestsAreAllowed, [Next]_vars
               PROVE  RequestsAreAllowed'
    OBVIOUS
  <1> USE DEF RequestsAreAllowed
  <1>1. CASE wire' = wire
    BY <1>1, WireGrows
  <1>2. ASSUME NEW x \in Exchange, phase = "try", Round(x)
        PROVE  RequestsAreAllowed'
    <2>1. /\ Len(wire') = Len(wire) + 1
          /\ Len(wire) \in Nat
          /\ \A i \in 1..Len(wire) : wire'[i] = wire[i]
          /\ wire'[Len(wire) + 1].tier = tier
      BY <1>2, AppendFacts DEF Round, Appends, Latest
    <2>2. tier # NoTier
      BY <1>2 DEF Placed
    <2>3. /\ ~BadArguments
          /\ ResolveTierRange.lo <= tier
          /\ tier <= ResolveTierRange.hi
          /\ tier = Patchright => ~BrowserRefuses
      BY <1>2, <2>2 DEF Placed, Looping
    <2>4. tier \in Int
      BY DEF TypeOK, TierOrder, NoTier
    <2>5. /\ call.body # "both"
          /\ call.pinned # NoTier => tier = call.pinned
          /\ call.min # NoTier => tier >= call.min
          /\ call.max # NoTier => tier <= call.max
          /\ tier = Patchright => call.body = "none" /\ call.method = "GET"
      BY <2>3, <2>4, CallTypes DEF BadArguments, TwoBodies, ResolveTierRange, BrowserRefuses,
                                   TierOrder, NoTier
    <2>6. ASSUME NEW i \in 1..Len(wire')
          PROVE  wire'[i].tier = tier \/ i \in 1..Len(wire)
      BY <2>1
    <2> QED
      BY <2>1, <2>5, <2>6, WireGrows
  <1> QED
    BY <1>1, <1>2, WireGrows

LEMMA ResultStep ==
  TypeOK /\ Placed /\ AttemptLeft /\ LastExchange /\ ResultMatchesLastExchange /\ [Next]_vars
    => ResultMatchesLastExchange'
  <1> SUFFICES ASSUME TypeOK, Placed, AttemptLeft, LastExchange, ResultMatchesLastExchange,
                      [Next]_vars
               PROVE  ResultMatchesLastExchange'
    OBVIOUS
  <1> USE DEF ResultMatchesLastExchange, Latest, FingerprintSignal
  <1>1. CASE AcceptArguments \/ Dispatched \/ Sleep \/ Escalate
    <2>1. phase' # "done"
      BY <1>1 DEF AcceptArguments, Dispatched, DispatchHttp, DispatchBrowser, StartLoop, Sleep,
                  Escalate
    <2> QED
      BY <2>1
  <1>2. CASE Refused
    <2>1. /\ result'.kind \in {"FetchError", "raw"}
          /\ result'.status = NoStatus
          /\ wire' = wire
          /\ tier' = tier
      BY <1>2 DEF Refused, RejectArguments, RefuseBrowser, LaunchFails, Raise, Finish
    <2>2. wire = <<>> \/ wire[Len(wire)].tier # tier
      <3>1. CASE phase = "start"
        BY <3>1 DEF Placed
      <3>2. CASE phase = "dispatch"
        <4>1. tier \in Int
          BY DEF TypeOK, TierOrder, NoTier
        <4> QED
          BY <3>2, <4>1, EntryTypes DEF LastExchange, Fresh
      <3> QED
        BY <1>2, <3>1, <3>2 DEF Refused, RejectArguments, RefuseBrowser, LaunchFails
    <2> QED
      BY <2>1, <2>2
  <1>3. CASE SurfaceBlock \/ Exhausted
    <2>1. phase = "conclude" /\ wire' = wire /\ tier' = tier /\ call' = call
      BY <1>3 DEF SurfaceBlock, Exhausted
    <2>2. result'.status = last.status
      BY <1>3 DEF SurfaceBlock, Exhausted, Raise, Finish
    <2>3. /\ IsBlock(tier, last) => result'.kind = "FingerprintBlock"
          /\ ~IsBlock(tier, last) => result'.kind = "FetchError"
      BY <1>3 DEF SurfaceBlock, Exhausted, Raise, Finish
    <2>4. CASE call.attempts > 0
      <3> DEFINE x == wire[Len(wire)]
      <3>1. /\ wire # <<>> /\ x.tier = tier
            /\ last.status = x.status
            /\ IsBlock(tier, last) <=> FingerprintSignal(x)
            /\ Undecided(x)
        BY <2>1, <2>4 DEF LastExchange
      <3>2. /\ x.status \notin {401, 407} \ RetryOn
            /\ x.status \notin {404, 410} \ RetryOn
            /\ x.status \notin {451} \ RetryOn
            /\ ~(x.status \in 200..399 \ RetryOn /\ ~FingerprintSignal(x))
        BY <3>1 DEF Undecided, Final, Answered
      <3>3. x' = x /\ wire' # <<>> /\ x'.tier = tier'
        BY <2>1, <3>1
      <3>4. FingerprintSignal(x)' <=> FingerprintSignal(x)
        BY <2>1
      <3>5. /\ result'.kind = "FingerprintBlock" <=> FingerprintSignal(x)
            /\ result'.kind \in {"FingerprintBlock", "FetchError"}
            /\ result'.status = x.status
        BY <2>2, <2>3, <3>1
      <3> HIDE DEF x, FingerprintSignal
      <3> QED
        BY <3>2, <3>3, <3>4, <3>5 DEF x
    <2>5. CASE ~(call.attempts > 0)
      <3>1. wire = <<>> /\ last = NoAttempt
        BY <2>1, <2>5 DEF LastExchange
      <3>2. ~IsBlock(tier, last) /\ last.status = NoStatus
        BY <3>1 DEF IsBlock, NoAttempt, NoStatus, FingerprintStatuses
      <3> QED
        BY <2>1, <2>2, <2>3, <3>1, <3>2
    <2> QED
      BY <2>4, <2>5
  <1>4. ASSUME NEW x \in Exchange, phase = "try", Round(x)
        PROVE  ResultMatchesLastExchange'
    <2>1. CASE Continues(x)
      BY <2>1 DEF Continues, EndAttempt
    <2>2. CASE Decides(x)
      <3>1. PICK kind, backend : /\ Finish(kind, backend, x.status)
                                /\ KindFits(kind, backend, x)
                                /\ EndCall
        BY <2>2 DEF Decides
      <3>2. wire' # <<>> /\ wire'[Len(wire')] = x /\ x.tier = tier'
        BY <1>4, <3>1, AppendFacts DEF Round, Appends, EndCall
      <3>3. result'.kind = kind /\ result'.backend = backend /\ result'.status = x.status
        BY <3>1 DEF Finish
      <3> QED
        BY <3>1, <3>2, <3>3 DEF KindFits, EndCall
    <2> QED
      BY <1>4, <2>1, <2>2 DEF Round
  <1>5. CASE UNCHANGED vars
    BY <1>5 DEF vars
  <1> QED
    BY <1>1, <1>2, <1>3, <1>4, <1>5, Steps

LEMMA InitInv == Init => IInv
  <1> SUFFICES ASSUME Init
               PROVE  IInv
    OBVIOUS
  <1>1. TypeOK
    <2>1. NoAttempt \in Attempt /\ Pending \in Result
      BY DEF NoAttempt, Attempt, Pending, Result, NoStatus
    <2>2. wire \in Seq(Exchange)
      BY DEF Init
    <2> QED
      BY <2>1, <2>2 DEF Init, TypeOK, Phases
  <1>2. Len(wire) = 0 /\ wire = <<>> /\ phase = "start"
    BY DEF Init
  <1>3. Placed /\ AttemptLeft /\ TierIsLast /\ LastExchange
    BY <1>2 DEF Init, Placed, AttemptLeft, TierIsLast, LastExchange, Looping, Fresh, Again, Pending
  <1>4. EscalationIsFingerprintOnly /\ RetriesOnlyTransient /\ AttemptsBounded /\ RequestsAreAllowed
    BY <1>2 DEF EscalationIsFingerprintOnly, RetriesOnlyTransient, AttemptsBounded,
                RequestsAreAllowed
  <1>5. ResultMatchesLastExchange
    BY <1>2 DEF ResultMatchesLastExchange
  <1> QED
    BY <1>1, <1>3, <1>4, <1>5 DEF IInv

LEMMA InvStep == IInv /\ [Next]_vars => IInv'
  BY TypeStep, PlacedStep, TierIsLastStep, LastExchangeStep, HistoryStep, AttemptsBoundedStep,
     RequestsAreAllowedStep, ResultStep DEF IInv, History

\* The inductive invariant holds in every reachable state.
THEOREM Invariance == Spec => []IInv
  <1>1. Init => IInv
    BY InitInv
  <1>2. IInv /\ [Next]_vars => IInv'
    BY InvStep
  <1> QED
    BY <1>1, <1>2, PTL DEF Spec

\* Every variable of the call keeps to its type.
THEOREM TypeCorrect == Spec => []TypeOK
  <1>1. IInv => TypeOK
    BY DEF IInv
  <1> QED
    BY <1>1, Invariance, PTL

\* fetch() goes from one tier to the next on a fingerprint signal only.
THEOREM Escalation == Spec => []EscalationIsFingerprintOnly
  <1>1. IInv => EscalationIsFingerprintOnly
    BY DEF IInv
  <1> QED
    BY <1>1, Invariance, PTL

\* The retry loops keep to the policy: a tier repeats a request after a transient failure
\* only, and never sends more than max_attempts.
THEOREM Retries == Spec => []RetriesKeepToPolicy
  <1>1. IInv => RetriesKeepToPolicy
    BY DEF IInv, RetriesKeepToPolicy
  <1> QED
    BY <1>1, Invariance, PTL

\* No request leaves the range of tiers, and no body reaches the browser.
THEOREM Allowed == Spec => []RequestsAreAllowed
  <1>1. IInv => RequestsAreAllowed
    BY DEF IInv
  <1> QED
    BY <1>1, Invariance, PTL

\* What fetch() returns or raises is what the last exchange brought.
THEOREM Reported == Spec => []ResultMatchesLastExchange
  <1>1. IInv => ResultMatchesLastExchange
    BY DEF IInv
  <1> QED
    BY <1>1, Invariance, PTL

-----------------------------------------------------------------------------
\* How long a call has slept: as often as its loops went round, and never longer than the
\* longest pause.  Before the tier in charge each tier has used up its attempts; in it the
\* loop went round as often as idx says.

Longest(pause) == pause \in Pauses /\ \A p \in Pauses : p <= pause

PausesHere == CASE phase = "dispatch"         -> 0
                [] phase \in {"try", "sleep"} -> idx
                [] OTHER                      -> call.attempts - 1

PausesSoFar == (tier - range.lo) * (call.attempts - 1) + PausesHere

SleptSoFar ==
  /\ tier = NoTier => range.lo = NoTier /\ slept = 0
  /\ tier # NoTier /\ call.attempts > 0 =>
       \A pause : Longest(pause) => slept <= PausesSoFar * pause

LEMMA Products ==
  ASSUME NEW n \in Nat, NEW m \in Nat, NEW p \in Nat
  PROVE  /\ n * p \in Nat
         /\ n <= m => n * p <= m * p
         /\ (n + 1) * p = n * p + p
  <1>1. n * p \in Nat /\ (n + 1) * p = n * p + p
    OBVIOUS
  <1>2. ASSUME n <= m PROVE n * p <= m * p
    <2>1. (m - n) * p >= 0
      BY <1>2
    <2>2. (m - n) * p = m * p - n * p
      OBVIOUS
    <2> QED
      BY <2>1, <2>2
  <1> QED
    BY <1>1, <1>2

LEMMA PauseTypes ==
  ASSUME TypeOK, NEW pause \in Pauses
  PROVE  pause \in Nat
  <1>1. RetryAfterCap \in Nat
    BY DelayAssumption
  <1>2. ASSUME NEW i \in 0 .. call.attempts - 2
        PROVE  Backoff(i) \in Nat
    BY CallTypes, DelayAssumption
  <1> QED
    BY <1>1, <1>2 DEF Pauses

\* The server's Retry-After counts up to the cap only.
LEMMA PausesAreBounded ==
  ASSUME TypeOK, AttemptLeft, phase = "sleep", NEW pause, Longest(pause)
  PROVE  NextDelay(last.retryAfter, idx) <= pause
  <1>1. idx \in 0 .. call.attempts - 2
    BY CallTypes DEF TypeOK, AttemptLeft
  <1>2. Backoff(idx) \in Pauses /\ RetryAfterCap \in Pauses
    BY <1>1 DEF Pauses
  <1>3. Backoff(idx) <= pause /\ RetryAfterCap <= pause
    BY <1>2 DEF Longest
  <1>4. pause \in Nat /\ RetryAfterCap \in Nat
    BY PauseTypes, DelayAssumption DEF Longest
  <1>5. last.retryAfter \in Nat \cup {NoRetryAfter}
    BY DelayAssumption DEF TypeOK, Attempt
  <1> QED
    BY <1>3, <1>4, <1>5 DEF NextDelay, NoRetryAfter

LEMMA CallStays == TypeOK /\ Placed /\ [Next]_vars => call' = call
  BY Steps DEF AcceptArguments, Dispatched, DispatchHttp, DispatchBrowser, StartLoop, Refused,
     RejectArguments, RefuseBrowser, LaunchFails, Sleep, Escalate, SurfaceBlock, Exhausted,
     Round, Continues, Decides, EndAttempt, EndCall, vars

\* The pauses that are accounted for: those of a loop are fewer than its attempts.
LEMMA PausesCount ==
  ASSUME TypeOK, Placed, tier # NoTier, AttemptLeft, call.attempts > 0
  PROVE  /\ tier - range.lo \in Nat
         /\ PausesHere \in 0 .. call.attempts - 1
         /\ PausesSoFar \in Nat
  <1>1. tier \in Int /\ range.lo \in Int /\ range.lo <= tier
    BY DEF TypeOK, Placed, TierOrder, NoTier
  <1>2. call.attempts \in Int /\ idx \in Nat
    BY CallTypes DEF TypeOK
  <1>3. PausesHere \in 0 .. call.attempts - 1
    BY <1>2 DEF PausesHere, AttemptLeft
  <1>4. (tier - range.lo) * (call.attempts - 1) \in Nat
    BY <1>1, <1>2, Products
  <1> QED
    BY <1>1, <1>2, <1>3, <1>4 DEF PausesSoFar

LEMMA SleptStep ==
  TypeOK /\ Placed /\ AttemptLeft /\ SleptSoFar /\ [Next]_vars => SleptSoFar'
  <1> SUFFICES ASSUME TypeOK, Placed, AttemptLeft, SleptSoFar, [Next]_vars
               PROVE  SleptSoFar'
    OBVIOUS
  <1>1. /\ call' = call /\ call.attempts \in Int /\ idx \in Nat /\ slept \in Nat
        /\ tier \in Nat
        /\ \A pause : Longest(pause)' <=> Longest(pause)
        /\ \A pause : Longest(pause) => pause \in Nat
    <2>1. call' = call
      BY CallStays
    <2> QED
      BY <2>1, CallTypes, PauseTypes DEF TypeOK, TierOrder, NoTier, Longest, Pauses
  \* A step that does not sleep and has at least as many pauses accounted for.
  <1>a. ASSUME tier # NoTier, tier' # NoTier, slept' = slept,
               call.attempts > 0 => PausesSoFar' \in Nat /\ PausesSoFar <= PausesSoFar'
        PROVE  SleptSoFar'
    <2> SUFFICES ASSUME call.attempts > 0, NEW pause, Longest(pause)
                 PROVE  slept <= PausesSoFar' * pause
      BY <1>1, <1>a DEF SleptSoFar
    <2>1. pause \in Nat /\ PausesSoFar \in Nat /\ slept <= PausesSoFar * pause
      BY <1>1, <1>a, PausesCount DEF SleptSoFar
    <2>2. PausesSoFar * pause \in Nat /\ PausesSoFar' * pause \in Nat
          /\ PausesSoFar * pause <= PausesSoFar' * pause
      BY <1>a, <2>1, Products
    <2> QED
      BY <1>1, <2>1, <2>2
  <1>2. CASE AcceptArguments
    <2>1. /\ tier = NoTier /\ slept' = 0
          /\ tier' # NoTier /\ tier' = range'.lo /\ range'.lo \in Int /\ phase' = "dispatch"
      BY <1>2, RangeTypes DEF AcceptArguments, Placed, SleptSoFar, TierOrder, NoTier
    <2>2. PausesSoFar' = 0 \/ call.attempts <= 0
      <3>1. tier' - range'.lo = 0 /\ PausesHere' = 0
        BY <2>1 DEF PausesHere
      <3> QED
        BY <1>1, <3>1 DEF PausesSoFar
    <2> QED
      BY <1>1, <2>1, <2>2 DEF SleptSoFar
  <1>3. CASE Dispatched
    <2>1. /\ tier # NoTier /\ UNCHANGED <<call, tier, range, slept>>
          /\ call.attempts > 0 => PausesHere' = PausesHere
      BY <1>3 DEF Dispatched, DispatchHttp, DispatchBrowser, StartLoop, Placed, PausesHere
    <2> QED
      BY <1>a, <2>1, PausesCount DEF PausesSoFar
  <1>4. CASE Refused
    <2>1. /\ UNCHANGED <<call, tier, range, slept>>
          /\ tier # NoTier => PausesHere = 0 /\ PausesHere' = call.attempts - 1
      BY <1>4 DEF Refused, RejectArguments, RefuseBrowser, LaunchFails, Raise, Finish, Placed,
                  PausesHere
    <2>2. CASE tier = NoTier
      BY <2>1, <2>2 DEF SleptSoFar
    <2>3. CASE tier # NoTier
      BY <1>a, <1>1, <2>1, <2>3, PausesCount DEF PausesSoFar
    <2> QED
      BY <2>2, <2>3
  <1>5. CASE Sleep
    <2>1. /\ phase = "sleep" /\ phase' = "try" /\ tier # NoTier
          /\ UNCHANGED <<call, tier, range>> /\ idx' = idx + 1
          /\ slept' = slept + NextDelay(last.retryAfter, idx)
      BY <1>5 DEF Sleep, Placed
    <2> SUFFICES ASSUME call.attempts > 0, NEW pause, Longest(pause)
                 PROVE  slept' <= PausesSoFar' * pause
      BY <1>1, <2>1 DEF SleptSoFar
    <2>2. PausesSoFar \in Nat /\ PausesSoFar' = PausesSoFar + 1
      <3>1. PausesHere = idx /\ PausesHere' = idx + 1
        BY <2>1 DEF PausesHere
      <3>2. (tier - range.lo) * (call.attempts - 1) \in Nat
        BY <1>1, <2>1, PausesCount, Products
      <3> QED
        BY <1>1, <2>1, <3>1, <3>2, PausesCount DEF PausesSoFar
    <2>3. pause \in Nat /\ slept <= PausesSoFar * pause
      BY <1>1, <2>1 DEF SleptSoFar
    <2>4. NextDelay(last.retryAfter, idx) \in Nat /\ NextDelay(last.retryAfter, idx) <= pause
      <3>1. idx \in 0..call.attempts /\ last.retryAfter \in RetryAfters \cup {NoRetryAfter}
        BY <1>1, <2>1 DEF AttemptLeft, TypeOK, Attempt
      <3> QED
        BY <2>1, <3>1, DelayType, PausesAreBounded
    <2>5. PausesSoFar * pause \in Nat /\ PausesSoFar' * pause = PausesSoFar * pause + pause
      BY <2>2, <2>3, Products
    <2> QED
      BY <1>1, <2>1, <2>3, <2>4, <2>5
  <1>6. CASE Escalate
    <2>1. /\ phase = "conclude" /\ phase' = "dispatch" /\ tier # NoTier
          /\ UNCHANGED <<call, range, slept>> /\ tier' = tier + 1
      BY <1>6 DEF Escalate, Placed
    <2>2. PausesHere = call.attempts - 1 /\ PausesHere' = 0
      BY <2>1 DEF PausesHere
    <2>3. ASSUME call.attempts > 0
          PROVE  PausesSoFar \in Nat /\ PausesSoFar' = PausesSoFar
      <3>1. tier - range.lo \in Nat /\ PausesSoFar \in Nat /\ range.lo \in Int
        BY <2>1, <2>3, PausesCount DEF TypeOK, TierOrder, NoTier
      <3>2. (tier - range.lo + 1) * (call.attempts - 1)
              = (tier - range.lo) * (call.attempts - 1) + (call.attempts - 1)
        BY <1>1, <2>3, <3>1, Products
      <3>3. tier' - range.lo' = tier - range.lo + 1
        BY <1>1, <2>1, <3>1
      <3> QED
        BY <1>1, <2>1, <2>2, <3>1, <3>2, <3>3, Products DEF PausesSoFar
    <2> QED
      BY <1>a, <1>1, <2>1, <2>3 DEF NoTier
  <1>7. CASE SurfaceBlock \/ Exhausted
    <2>1. /\ phase = "conclude" /\ phase' = "done" /\ tier # NoTier
          /\ UNCHANGED <<call, tier, range, slept>>
      BY <1>7 DEF SurfaceBlock, Exhausted, Raise, Finish, Placed
    <2>2. PausesHere' = PausesHere
      BY <2>1 DEF PausesHere
    <2> QED
      BY <1>a, <2>1, <2>2, PausesCount DEF PausesSoFar
  <1>8. ASSUME NEW x \in Exchange, phase = "try", Round(x)
        PROVE  SleptSoFar'
    <2>1. /\ tier # NoTier /\ UNCHANGED <<call, tier, range, idx, slept>>
          /\ phase' \in {"sleep", "conclude", "done"}
      BY <1>8 DEF Round, Continues, Decides, EndAttempt, EndCall, Finish, Placed
    <2>2. PausesHere = idx /\ PausesHere' \in {idx, call.attempts - 1}
      BY <1>8, <2>1 DEF PausesHere
    <2>3. ASSUME call.attempts > 0
          PROVE  PausesSoFar' \in Nat /\ PausesSoFar <= PausesSoFar'
      <3>1. (tier - range.lo) * (call.attempts - 1) \in Nat
        BY <1>1, <2>1, <2>3, PausesCount, Products
      <3>2. idx <= call.attempts - 1
        BY <1>1, <1>8 DEF AttemptLeft
      <3> QED
        BY <1>1, <2>1, <2>2, <3>1, <3>2 DEF PausesSoFar
    <2> QED
      BY <1>a, <2>1, <2>3
  <1>9. CASE UNCHANGED vars
    BY <1>9, <1>1 DEF vars, SleptSoFar, PausesSoFar, PausesHere
  <1> QED
    BY <1>2, <1>3, <1>4, <1>5, <1>6, <1>7, <1>8, <1>9, Steps

\* No server and no reply makes fetch() sleep longer than its policy and the cap allow.
THEOREM Rested == Spec => []SleepBounded
  <1>1. Init => SleptSoFar
    BY DEF Init, SleptSoFar
  <1>2. IInv /\ SleptSoFar /\ [Next]_vars => SleptSoFar'
    BY SleptStep DEF IInv
  <1>3. IInv /\ SleptSoFar => SleepBounded
    <2> SUFFICES ASSUME IInv, SleptSoFar, phase \notin {"start", "dispatch"}, call.attempts > 0,
                        NEW longest \in Pauses, Longest(longest)
                 PROVE  slept <= (tier - range.lo + 1) * (call.attempts - 1) * longest
      BY DEF SleepBounded, Longest
    <2>1. TypeOK /\ Placed /\ AttemptLeft /\ longest \in Nat /\ slept \in Nat
      BY PauseTypes DEF IInv, TypeOK
    <2>2. call.attempts - 1 \in Nat
      BY <2>1, CallTypes
    <2>3. CASE tier = NoTier
      <3>1. slept = 0 /\ tier - range.lo + 1 = 1
        BY <2>3 DEF SleptSoFar, NoTier
      <3>2. (call.attempts - 1) * longest \in Nat
        BY <2>1, <2>2, Products
      <3> QED
        BY <2>2, <3>1, <3>2
    <2>4. CASE tier # NoTier
      <3> DEFINE whole == (tier - range.lo + 1) * (call.attempts - 1)
      <3>1. /\ tier - range.lo \in Nat /\ PausesHere <= call.attempts - 1
            /\ PausesSoFar \in Nat /\ PausesHere \in Int
        BY <2>1, <2>2, <2>4, PausesCount
      <3>2. /\ (tier - range.lo) * (call.attempts - 1) \in Nat
            /\ whole = (tier - range.lo) * (call.attempts - 1) + (call.attempts - 1)
        BY <2>2, <3>1, Products
      <3> HIDE DEF whole
      <3>3. whole \in Nat /\ PausesSoFar <= whole
        BY <2>2, <3>1, <3>2 DEF PausesSoFar
      <3>4. slept <= PausesSoFar * longest
        BY <2>4 DEF SleptSoFar
      <3>5. /\ PausesSoFar * longest \in Nat /\ whole * longest \in Nat
            /\ PausesSoFar * longest <= whole * longest
        BY <2>1, <3>1, <3>3, Products
      <3>6. slept <= whole * longest
        BY <2>1, <3>4, <3>5
      <3> QED
        BY <3>6 DEF whole
    <2> QED
      BY <2>3, <2>4
  <1> QED
    BY <1>1, <1>2, <1>3, Invariance, PTL DEF Spec

-----------------------------------------------------------------------------
\* The chain implements FetchContract: each step is a step of the contract or none of it.

LEMMA OutcomeOf ==
  /\ result.kind = "none" => Outcome = "pending"
  /\ result.kind = "Response" => Outcome = "response"
  /\ result.kind = "raw" => Outcome = "raw"
  /\ result.kind = "FingerprintBlock" => Outcome = "block"
  /\ result.kind \in {"FetchError", "AuthRequired", "GoneError", "LegalBlock"}
       => Outcome = "error"
  BY DEF Outcome

LEMMA InitRefines == Init => Contract!Init
  BY OutcomeOf DEF Init, Contract!Init, Evidence, Pending, NoTier

LEMMA StepRefines ==
  IInv /\ [Next]_vars => [Contract!Next]_(Contract!vars)
  <1> SUFFICES ASSUME IInv, [Next]_vars
               PROVE  Contract!Next \/ UNCHANGED Contract!vars
    BY DEF Contract!vars
  <1> USE DEF IInv, Contract!Next, Contract!vars, NoTier
  <1>1. /\ tier \in Int
        /\ phase # "done" => result.kind = "none" /\ Outcome = "pending"
    BY OutcomeOf DEF TypeOK, TierOrder, Placed
  <1>2. CASE AcceptArguments
    <2>1. Contract!Open
      <3>1. wire = <<>> /\ wire' = <<>>
        BY <1>2 DEF AcceptArguments, Placed
      <3>2. Evidence' = Evidence
        BY <3>1 DEF Evidence
      <3>3. Outcome' = Outcome
        BY <1>2 DEF AcceptArguments, Outcome
      <3>4. /\ range'.hi \in TierOrder /\ tier' \in TierOrder
            /\ tier' <= range'.hi
        BY <1>2, RangeTypes DEF AcceptArguments
      <3> QED
        BY <1>1, <1>2, <3>2, <3>3, <3>4 DEF AcceptArguments, Contract!Open, Placed
    <2> QED
      BY <2>1
  <1>3. CASE Dispatched \/ Sleep
    <2>1. UNCHANGED <<call, range, tier, wire, result>>
      BY <1>3 DEF Dispatched, DispatchHttp, DispatchBrowser, StartLoop, Sleep
    <2> QED
      BY <2>1 DEF Evidence, Outcome, FingerprintSignal
  <1>4. CASE Refused
    <2>1. /\ UNCHANGED <<call, range, tier, wire>>
          /\ result'.kind \in {"FetchError", "raw"}
      BY <1>4 DEF Refused, RejectArguments, RefuseBrowser, LaunchFails, Raise, Finish
    <2>2. Outcome' \in {"error", "raw"} /\ (phase = "start" => Outcome' = "error")
      <3>1. phase = "start" => result'.kind = "FetchError"
        BY <1>4 DEF Refused, RejectArguments, RefuseBrowser, LaunchFails, Raise, Finish
      <3> QED
        BY <2>1, <3>1 DEF Outcome
    <2>3. Evidence = FALSE /\ Evidence' = FALSE
      <3>1. wire = <<>> \/ Latest.tier # tier
        <4>1. CASE phase = "start"
          BY <4>1 DEF Placed
        <4>2. CASE phase = "dispatch"
          BY <1>1, <4>2, EntryTypes DEF LastExchange, Fresh, Latest
        <4> QED
          BY <1>4, <4>1, <4>2 DEF Refused, RejectArguments, RefuseBrowser, LaunchFails
      <3> QED
        BY <2>1, <3>1 DEF Evidence, Latest
    <2>4. CASE phase = "start"
      BY <1>1, <2>1, <2>2, <2>3, <2>4 DEF Contract!Refuse, Placed
    <2>5. CASE phase # "start"
      <3>1. tier # 0 /\ phase # "done"
        BY <1>4, <2>5 DEF Refused, RejectArguments, RefuseBrowser, LaunchFails, Patchright
      <3> QED
        BY <1>1, <2>1, <2>2, <2>3, <3>1
           DEF Contract!Settle, Contract!InCharge, Contract!Failures
    <2> QED
      BY <2>4, <2>5
  <1>5. CASE Escalate
    <2>1. call.attempts > 0
      BY <1>5 DEF Escalate, LastExchange, IsBlock, NoAttempt, NoStatus, FingerprintStatuses
    <2>2. wire # <<>> /\ Latest.tier = tier /\ FingerprintSignal(Latest)
      BY <1>5, <2>1 DEF Escalate, LastExchange
    <2>3. Evidence = TRUE
      BY <2>2 DEF Evidence, Latest
    <2>4. wire' = wire /\ tier' = tier + 1 /\ tier < range.hi /\ result' = result
      BY <1>5 DEF Escalate
    <2>5. Evidence' = FALSE /\ Outcome' = Outcome
      BY <1>1, <2>2, <2>4 DEF Evidence, Latest, Outcome
    <2>6. tier # 0
      BY <1>5 DEF Escalate, Placed
    <2> QED
      BY <1>1, <1>5, <2>3, <2>4, <2>5, <2>6 DEF Escalate, Contract!Escalate, Contract!InCharge
  <1>6. CASE SurfaceBlock \/ Exhausted
    <2>1. /\ phase = "conclude"
          /\ tier # 0
          /\ UNCHANGED <<call, range, tier, wire>>
      BY <1>6 DEF SurfaceBlock, Exhausted, Placed
    <2>2. Evidence' = Evidence
      BY <2>1 DEF Evidence, FingerprintSignal
    <2>3. Evidence <=> IsBlock(tier, last)
      <3>1. CASE call.attempts > 0
        BY <2>1, <3>1 DEF LastExchange, Evidence, Latest
      <3>2. CASE ~(call.attempts > 0)
        BY <2>1, <3>2 DEF LastExchange, Evidence, IsBlock, NoAttempt, NoStatus, FingerprintStatuses
      <3> QED
        BY <3>1, <3>2
    <2>4. CASE SurfaceBlock
      <3>1. Outcome' = "block"
        BY <2>4 DEF SurfaceBlock, Raise, Finish, Outcome
      <3> QED
        BY <1>1, <2>1, <2>2, <2>3, <2>4, <3>1
           DEF SurfaceBlock, Contract!GiveUpBlocked, Contract!InCharge
    <2>5. CASE Exhausted
      <3>1. Outcome' = "error"
        BY <2>5 DEF Exhausted, Raise, Finish, Outcome
      <3>2. Evidence' = FALSE
        BY <2>2, <2>3, <2>5 DEF Exhausted, Evidence
      <3> QED
        BY <1>1, <2>1, <3>1, <3>2
           DEF Contract!Settle, Contract!InCharge, Contract!Failures
    <2> QED
      BY <1>6, <2>4, <2>5
  <1>7. ASSUME NEW x \in Exchange, phase = "try", Round(x)
        PROVE  Contract!Next \/ UNCHANGED Contract!vars
    <2>1. tier # 0
      BY <1>7 DEF Placed
    <2>2. wire' # <<>> /\ wire'[Len(wire')] = x /\ x.tier = tier
      BY <1>7, AppendFacts DEF Round, Appends, Latest
    <2>3. CASE Continues(x)
      <3>1. UNCHANGED <<call, range, tier, result>>
        BY <2>3 DEF Continues, EndAttempt
      <3>2. Outcome' = Outcome /\ Evidence' \in BOOLEAN
        BY <3>1 DEF Outcome, Evidence
      <3> QED
        BY <1>1, <1>7, <2>1, <3>1, <3>2 DEF Contract!Learn, Contract!InCharge
    <2>4. CASE Decides(x)
      <3>1. PICK kind, backend : /\ Finish(kind, backend, x.status)
                                /\ KindFits(kind, backend, x)
                                /\ EndCall
        BY <2>4 DEF Decides
      <3>2. UNCHANGED <<call, range, tier>> /\ ~FingerprintSignal(x)
        BY <3>1 DEF EndCall, KindFits
      <3>3. Evidence' = FALSE
        BY <2>2, <3>2 DEF Evidence, FingerprintSignal
      <3>4. Outcome' \in {"response", "error", "raw"}
        BY <3>1 DEF Finish, KindFits, Outcome
      <3> QED
        BY <1>1, <1>7, <2>1, <3>2, <3>3, <3>4
           DEF Contract!Settle, Contract!InCharge, Contract!Failures
    <2> QED
      BY <1>7, <2>3, <2>4 DEF Round
  <1>8. CASE UNCHANGED vars
    BY <1>8 DEF vars, Evidence, Outcome, FingerprintSignal
  <1> QED
    BY <1>2, <1>3, <1>4, <1>5, <1>6, <1>7, <1>8, Steps

\* Every behaviour of the chain is one FetchContract allows, its liveness aside.
THEOREM Implements == Spec => Contract!Safe
  <1>1. Init => Contract!Init
    BY InitRefines
  <1>2. IInv /\ [Next]_vars => [Contract!Next]_(Contract!vars)
    BY StepRefines
  <1> QED
    BY <1>1, <1>2, Invariance, PTL DEF Spec, Contract!Safe

=============================================================================
