---------------------------- MODULE FetchChain ----------------------------
(***************************************************************************)
(* One call of fetch() (client.py) through the tier chain, with the retry  *)
(* loop of each backend (_backends/).  The call is synchronous, so there   *)
(* is one control point, phase; everything the servers, the network and    *)
(* the browser can do to it is a choice of the actions that exchange a     *)
(* request for a reply.                                                    *)
(*                                                                         *)
(* A request and its reply are one step.  Headers, urls and bodies are     *)
(* abstracted to what the control flow tests: the status, the page (empty  *)
(* or not, HTML or not) and Retry-After.                                   *)
(***************************************************************************)
EXTENDS Integers, Sequences

CONSTANTS
  Calls,           \* the argument combinations fetch() is called with
  Attempts,        \* values of RetryPolicy.max_attempts
  RetryOn,         \* RetryPolicy.retry_on_status
  Statuses,        \* the statuses servers answer with
  RetryAfters,     \* parsed Retry-After values in seconds, NoRetryAfter if absent
  BackoffInitial,  \* RetryPolicy.backoff_initial, in whole seconds
  BackoffFactor,   \* RetryPolicy.backoff_factor
  RetryAfterCap    \* RETRY_AFTER_CAP_S

Httpx      == 1
Curl       == 2
Patchright == 3
TierOrder  == 1..3         \* _TIER_ORDER, by index
NoTier     == 0            \* None

NoStatus     == 0
NoRetryAfter == -1

\* page: full, empty and HTML (or untyped), empty and of another type
Pages   == {"full", "blank", "blank_data"}
Methods == {"GET", "HEAD", "POST"}
Bodies  == {"none", "json", "content", "both"}

CallType == [pinned : {NoTier} \cup TierOrder, min : {NoTier} \cup TierOrder,
             max : {NoTier} \cup TierOrder, method : Methods, body : Bodies,
             attempts : Attempts]

Backoff(i) == BackoffInitial * BackoffFactor ^ i

ASSUME CallsAssumption   == Calls \subseteq CallType
ASSUME AttemptsAssumption == Attempts \subseteq Int
ASSUME StatusAssumption  == Statuses \subseteq Nat \ {NoStatus} /\ RetryOn \subseteq Nat
ASSUME DelayAssumption   == /\ RetryAfters \subseteq Nat \cup {NoRetryAfter}
                            /\ RetryAfterCap \in Nat
                            /\ \A n \in Attempts : \A i \in 0..n : Backoff(i) \in Nat

VARIABLES
  call,     \* the arguments
  phase,    \* where the call is
  range,    \* [lo, hi], the resolved tier range
  tier,     \* the tier being tried
  idx,      \* attempt_idx of its retry loop
  last,     \* the last _Attempt of that loop
  result,   \* what fetch() returned or raised
  slept,    \* history: seconds slept between attempts
  wire      \* history: every request with the reply it got

vars == <<call, phase, range, tier, idx, last, result, slept, wire>>

Phases == {"start", "dispatch", "try", "sleep", "conclude", "done"}

\* Why no answer came: a transport error, one whose text names TLS, a navigation
\* that timed out, or a browser that reported no response object.
HttpFailures    == {"transport", "tls"}
BrowserFailures == {"timeout", "no_response"}
\* An exception that leaves the attempt as it is; a FetchError for a page that
\* cannot be read because it keeps navigating.
Escapes         == {"raw", "unreadable"}

Attempt   == [status : Nat, failure : {"none"} \cup HttpFailures \cup BrowserFailures,
              retryAfter : RetryAfters \cup {NoRetryAfter}, soft : BOOLEAN]
NoAttempt == [status |-> NoStatus, failure |-> "none", retryAfter |-> NoRetryAfter,
              soft |-> FALSE]

Errors == {"FetchError", "FingerprintBlock", "AuthRequired", "GoneError", "LegalBlock"}
Result == [kind : {"none", "Response", "raw"} \cup Errors, backend : {NoTier} \cup TierOrder,
           status : Nat]
Pending == [kind |-> "none", backend |-> NoTier, status |-> NoStatus]

Exchange == [tier : TierOrder,
             reply : {"answer"} \cup HttpFailures \cup BrowserFailures \cup Escapes,
             status : Nat, page : Pages]

-----------------------------------------------------------------------------
\* The helpers of the backends.

ShouldRetry(status) == status \in RetryOn

FingerprintStatuses == {403}

Terminal == [s \in {401, 404, 407, 410, 451} |->
               CASE s \in {401, 407} -> "AuthRequired"
                 [] s \in {404, 410} -> "GoneError"
                 [] s = 451          -> "LegalBlock"]

IsSuccessStatus(status) == status \in 200..399

IsSuspectedSoftBlock(method, status, page) ==
  /\ method = "GET"
  /\ status \in 200..299 \ {204}
  /\ page = "blank"

\* Mutant: the server's Retry-After is obeyed without the cap.
UncappedDelay(retryAfter, i) == IF retryAfter # NoRetryAfter THEN retryAfter ELSE Backoff(i)

NextDelay(retryAfter, i) ==
  IF retryAfter # NoRetryAfter
  THEN IF retryAfter < RetryAfterCap THEN retryAfter ELSE RetryAfterCap
  ELSE Backoff(i)

\* Mutant: running out of attempts on a throttled status also counts as a block.
BlockOnExhaustion(t, attempt) == \/ attempt.soft
                                 \/ attempt.status \in FingerprintStatuses \cup RetryOn
                                 \/ t = Httpx /\ attempt.failure = "tls"

\* Mutant: every backend treats any transport error as a block.
BlockOnFailure(t, attempt) == attempt.soft \/ attempt.failure # "none"
                              \/ attempt.status \in FingerprintStatuses

\* What the end of a backend's loop takes for a fingerprint block: only the
\* last attempt counts, and only httpx reads the text of a transport error.
IsBlock(t, attempt) == \/ attempt.soft
                       \/ attempt.status \in FingerprintStatuses
                       \/ t = Httpx /\ attempt.failure = "tls"

-----------------------------------------------------------------------------
Init == /\ call \in Calls
        /\ phase = "start"
        /\ range = [lo |-> NoTier, hi |-> NoTier]
        /\ tier = NoTier
        /\ idx = 0
        /\ last = NoAttempt
        /\ result = Pending
        /\ slept = 0
        /\ wire = <<>>

Finish(kind, backend, status) ==
  /\ phase' = "done"
  /\ result' = [kind |-> kind, backend |-> backend, status |-> status]

Raise(kind, status) == Finish(kind, NoTier, status)

\* Mutant: max_tier is ignored.
RangeWithoutMax == IF call.pinned # NoTier
                   THEN [lo |-> call.pinned, hi |-> call.pinned]
                   ELSE [lo |-> IF call.min # NoTier THEN call.min ELSE Httpx,
                         hi |-> Patchright]

\* fetch(): the argument checks, then the range the arguments ask for.
ResolveTierRange == IF call.pinned # NoTier
                    THEN [lo |-> call.pinned, hi |-> call.pinned]
                    ELSE [lo |-> IF call.min # NoTier THEN call.min ELSE Httpx,
                          hi |-> IF call.max # NoTier THEN call.max ELSE Patchright]

TwoBodies == call.body = "both"

BadArguments == \/ TwoBodies
                \/ call.pinned # NoTier /\ (call.min # NoTier \/ call.max # NoTier)
                \/ ResolveTierRange.lo > ResolveTierRange.hi

RejectArguments == /\ phase = "start"
                   /\ BadArguments
                   /\ Raise("FetchError", NoStatus)
                   /\ UNCHANGED <<call, range, tier, idx, last, slept, wire>>

AcceptArguments == /\ phase = "start"
                   /\ ~BadArguments
                   /\ range' = ResolveTierRange
                   /\ tier' = ResolveTierRange.lo
                   /\ phase' = "dispatch"
                   /\ UNCHANGED <<call, idx, last, result, slept, wire>>

\* A backend starts its loop; range(max_attempts) is empty when that is not positive.
StartLoop == /\ idx' = 0
             /\ last' = NoAttempt
             /\ phase' = IF call.attempts > 0 THEN "try" ELSE "conclude"
             /\ UNCHANGED <<call, range, tier, result, slept, wire>>

DispatchHttp == phase = "dispatch" /\ tier # Patchright /\ StartLoop

\* The browser tier carries no body and supports GET only.
BrowserRefuses == call.body # "none" \/ call.method # "GET"

DispatchBrowser == phase = "dispatch" /\ tier = Patchright /\ ~BrowserRefuses /\ StartLoop

\* It also refuses on musl, where there is no browser to drive.
RefuseBrowser == /\ phase = "dispatch"
                 /\ tier = Patchright
                 /\ Raise("FetchError", NoStatus)
                 /\ UNCHANGED <<call, range, tier, idx, last, slept, wire>>

\* An unknown device preset, or a Chromium that does not start.
LaunchFails == /\ phase = "dispatch"
               /\ tier = Patchright
               /\ ~BrowserRefuses
               /\ Raise("raw", NoStatus)
               /\ UNCHANGED <<call, range, tier, idx, last, slept, wire>>

-----------------------------------------------------------------------------
\* One round of the retry loop: _attempt_once and what the loop does with it.

Send(reply, status, page) ==
  wire' = Append(wire, [tier |-> tier, reply |-> reply, status |-> status, page |-> page])

\* Mutant: the loop does not break on a soft block.
EndAttemptSoftly(attempt) ==
  /\ last' = attempt
  /\ phase' = IF idx + 1 < call.attempts THEN "sleep" ELSE "conclude"
  /\ UNCHANGED <<call, range, tier, idx, result, slept>>

EndAttempt(attempt) ==
  /\ last' = attempt
  /\ phase' = IF ~attempt.soft /\ idx + 1 < call.attempts THEN "sleep" ELSE "conclude"
  /\ UNCHANGED <<call, range, tier, idx, result, slept>>

EndCall == UNCHANGED <<call, range, tier, idx, last, slept>>

\* Mutant: a failed attempt keeps the status of the attempt before it.
NoAnswerStale(failure) ==
  /\ phase = "try"
  /\ failure \in IF tier = Patchright THEN BrowserFailures ELSE HttpFailures
  /\ Send(failure, NoStatus, "full")
  /\ EndAttempt([last EXCEPT !.failure = failure])

NoAnswer(failure) ==
  /\ phase = "try"
  /\ failure \in IF tier = Patchright THEN BrowserFailures ELSE HttpFailures
  /\ Send(failure, NoStatus, "full")
  /\ EndAttempt([NoAttempt EXCEPT !.failure = failure])

\* httpx catches TransportError only, curl_cffi everything its request raises, the browser
\* the timeout of the navigation; and parse_retry_after raises on a few odd values.
RawError == /\ phase = "try"
            /\ Send("raw", NoStatus, "full")
            /\ Raise("raw", NoStatus)
            /\ EndCall

UnreadablePage == /\ phase = "try"
                  /\ tier = Patchright
                  /\ Send("unreadable", NoStatus, "full")
                  /\ Raise("FetchError", NoStatus)
                  /\ EndCall

\* Mutant: a terminal status is raised before the policy is asked.
TerminalFirst(status) == /\ status \notin DOMAIN Terminal
                         /\ ShouldRetry(status) \/ status \in FingerprintStatuses

IsTransient(status) == ShouldRetry(status) \/ status \in FingerprintStatuses

TransientStatus(status, page, retryAfter) ==
  /\ phase = "try"
  /\ IsTransient(status)
  /\ Send("answer", status, page)
  /\ EndAttempt([NoAttempt EXCEPT !.status = status, !.retryAfter = retryAfter])

TerminalStatus(status, page) ==
  /\ phase = "try"
  /\ ~IsTransient(status)
  /\ status \in DOMAIN Terminal
  /\ Send("answer", status, page)
  /\ Raise(Terminal[status], status)
  /\ EndCall

UnsuccessfulStatus(status, page) ==
  /\ phase = "try"
  /\ ~IsTransient(status)
  /\ status \notin DOMAIN Terminal
  /\ ~IsSuccessStatus(status)
  /\ Send("answer", status, page)
  /\ Raise("FetchError", status)
  /\ EndCall

SoftBlock(status, page) ==
  /\ phase = "try"
  /\ ~IsTransient(status)
  /\ IsSuccessStatus(status)
  /\ IsSuspectedSoftBlock(call.method, status, page)
  /\ Send("answer", status, page)
  /\ EndAttempt([NoAttempt EXCEPT !.status = status, !.soft = TRUE])

Success(status, page) ==
  /\ phase = "try"
  /\ ~IsTransient(status)
  /\ IsSuccessStatus(status)
  /\ ~IsSuspectedSoftBlock(call.method, status, page)
  /\ Send("answer", status, page)
  /\ Finish("Response", tier, status)
  /\ EndCall

AttemptOnce ==
  \/ \E failure \in HttpFailures \cup BrowserFailures : NoAnswer(failure)
  \/ RawError
  \/ UnreadablePage
  \/ \E status \in Statuses, page \in Pages :
       \/ \E retryAfter \in RetryAfters : TransientStatus(status, page, retryAfter)
       \/ TerminalStatus(status, page)
       \/ UnsuccessfulStatus(status, page)
       \/ SoftBlock(status, page)
       \/ Success(status, page)

Sleep == /\ phase = "sleep"
         /\ slept' = slept + NextDelay(last.retryAfter, idx)
         /\ idx' = idx + 1
         /\ phase' = "try"
         /\ UNCHANGED <<call, range, tier, last, result, wire>>

-----------------------------------------------------------------------------
\* The end of a backend's attempt() and what _run_chain makes of its exception.

\* Mutant: the active tiers are cut off one too late.
EscalatePastEnd == /\ phase = "conclude"
                   /\ IsBlock(tier, last)
                   /\ tier <= range.hi
                   /\ tier' = tier + 1
                   /\ phase' = "dispatch"
                   /\ UNCHANGED <<call, range, idx, last, result, slept, wire>>

Escalate == /\ phase = "conclude"
            /\ IsBlock(tier, last)
            /\ tier < range.hi
            /\ tier' = tier + 1
            /\ phase' = "dispatch"
            /\ UNCHANGED <<call, range, idx, last, result, slept, wire>>

SurfaceBlock == /\ phase = "conclude"
                /\ IsBlock(tier, last)
                /\ tier = range.hi
                /\ Raise("FingerprintBlock", last.status)
                /\ UNCHANGED <<call, range, tier, idx, last, slept, wire>>

Exhausted == /\ phase = "conclude"
             /\ ~IsBlock(tier, last)
             /\ Raise("FetchError", last.status)
             /\ UNCHANGED <<call, range, tier, idx, last, slept, wire>>

Next == \/ RejectArguments \/ AcceptArguments
        \/ DispatchHttp \/ DispatchBrowser \/ RefuseBrowser \/ LaunchFails
        \/ AttemptOnce \/ Sleep
        \/ Escalate \/ SurfaceBlock \/ Exhausted

Spec == Init /\ [][Next]_vars

\* Every request has a timeout and every sleep an end, so the call keeps moving.
FairSpec == Spec /\ WF_vars(Next)

-----------------------------------------------------------------------------
\* Every variable keeps to its type, and a range is known once a tier is in charge.
TypeOK ==
  /\ call \in Calls
  /\ phase \in Phases
  /\ range \in [lo : {NoTier} \cup TierOrder, hi : {NoTier} \cup TierOrder]
  /\ tier \in {NoTier} \cup TierOrder
  /\ idx \in Nat
  /\ last \in Attempt
  /\ result \in Result
  /\ slept \in Nat
  /\ wire \in Seq(Exchange)

\* What docs/architecture.md calls a fingerprint block, read off one exchange: a 403,
\* a TLS error of the httpx tier, a GET answered by an empty HTML page.
FingerprintSignal(x) ==
  \/ x.status = 403
  \/ x.tier = Httpx /\ x.reply = "tls"
  \/ /\ call.method = "GET"
     /\ x.status \in 200..299 \ ({204} \cup RetryOn)
     /\ x.page = "blank"

TransientFailure(x) == \/ x.reply \in HttpFailures \cup BrowserFailures
                       \/ x.status \in RetryOn \cup {403}

SameTier(i, j) == wire[i].tier = wire[j].tier

\* A request to the next tier is sent only after a fingerprint signal, which must be the
\* last thing the tier before it saw, and no tier is skipped or gone back to.
EscalationIsFingerprintOnly ==
  \A i \in 1 .. Len(wire) - 1 :
     ~SameTier(i, i + 1) => /\ FingerprintSignal(wire[i])
                           /\ wire[i + 1].tier = wire[i].tier + 1

\* A tier is asked again only after a transient failure: never after a page, a terminal
\* status or an empty page, which asking again would not fill.
RetriesOnlyTransient ==
  \A i \in 1 .. Len(wire) - 1 : SameTier(i, i + 1) => TransientFailure(wire[i])

\* No tier sends more than max_attempts requests, so a body that is not idempotent
\* reaches the server at most that often per tier.
AttemptsBounded ==
  \A i, j \in 1 .. Len(wire) : SameTier(i, j) => j - i < call.attempts

\* The retry loops keep to the policy: what is not transient is not asked again, and a request
\* that may already have been carried out reaches the server max_attempts times per tier
\* at the most.
RetriesKeepToPolicy == RetriesOnlyTransient /\ AttemptsBounded

\* Every request goes to a tier the caller's arguments allow: inside the range asked
\* for, and never into the browser with a body or a method other than GET.
RequestsAreAllowed ==
  \A i \in 1 .. Len(wire) :
     LET t == wire[i].tier IN
     /\ call.body # "both"
     /\ call.pinned # NoTier => t = call.pinned
     /\ call.min # NoTier => t >= call.min
     /\ call.max # NoTier => t <= call.max
     /\ t = Patchright => call.body = "none" /\ call.method = "GET"

\* What fetch() reports is about the last exchange: the status is the one it brought, a
\* Response names its tier, and its kind is what the status calls for, read in the order
\* retry, terminal, soft block, success: a status that the policy lists is never a Response
\* or a typed error, any other always is the one it stands for.  A tier that refused
\* without sending anything reports no status.
ResultMatchesLastExchange ==
  phase = "done" =>
    IF wire = <<>> \/ wire[Len(wire)].tier # tier
    THEN result.kind \in {"FetchError", "raw"} /\ result.status = NoStatus
    ELSE LET x == wire[Len(wire)] IN
         /\ result.status = x.status
         /\ result.kind = "Response" <=> /\ x.status \in 200..399 \ RetryOn
                                         /\ ~FingerprintSignal(x)
         /\ result.kind = "Response" => result.backend = x.tier
         /\ result.kind = "FingerprintBlock" <=> FingerprintSignal(x)
         /\ result.kind = "AuthRequired" <=> x.status \in {401, 407} \ RetryOn
         /\ result.kind = "GoneError" <=> x.status \in {404, 410} \ RetryOn
         /\ result.kind = "LegalBlock" <=> x.status \in {451} \ RetryOn

\* What the pauses between the attempts of a tier may be: the cap, or a backoff that the
\* policy asks for.
Pauses == {RetryAfterCap} \cup {Backoff(i) : i \in 0 .. call.attempts - 2}

\* A call sleeps only between two attempts of a tier, and no server can make one of these
\* pauses longer than the longest of them, whether backoffs grow or shrink.
SleepBounded ==
  phase \notin {"start", "dispatch"} /\ call.attempts > 0 =>
    \A longest \in Pauses :
      (\A pause \in Pauses : pause <= longest) =>
        slept <= (tier - range.lo + 1) * (call.attempts - 1) * longest

\* The last exchange of the tier in charge is a fingerprint signal.
Evidence == /\ wire # <<>>
            /\ wire[Len(wire)].tier = tier
            /\ FingerprintSignal(wire[Len(wire)])

Outcome == CASE result.kind = "none"             -> "pending"
             [] result.kind = "Response"         -> "response"
             [] result.kind = "raw"              -> "raw"
             [] result.kind = "FingerprintBlock" -> "block"
             [] OTHER                            -> "error"

Contract == INSTANCE FetchContract
              WITH Tiers <- TierOrder, high <- range.hi, evidence <- Evidence,
                   outcome <- Outcome

\* The chain with its retry loops keeps the contract of fetch(), and every call ends.
KeepsContract == Contract!Spec

-----------------------------------------------------------------------------
\* What the documentation says and the code does not do.

\* _backends/__init__.py:3-6: each backend raises FingerprintBlock on a TLS error.
TlsErrorIsABlock ==
  phase = "done" /\ wire # <<>> /\ wire[Len(wire)].reply = "tls"
    => result.kind = "FingerprintBlock"

=============================================================================
