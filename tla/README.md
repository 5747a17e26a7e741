# A verification of polyfetch-scrape in TLA+

polyfetch-scrape answers one question: "give me this url, with the cheapest means that
gets through". These modules model the parts of it where the answer depends on order,
failure or concurrency, check them with TLC on small instances, and prove the most
important facts with TLAPS for every value of their constants. Paths below are relative to
`src/polyfetch_scrape/`, lines are those of the commit beside this project.

## 1. Inventory

| Part | State | Operations |
|---|---|---|
| `fetch()`, `client.py` | the arguments, the active tiers, the tier in charge | check the arguments, resolve the range, wait for a slot, try tier after tier |
| HTTP backends, `_backends/httpx_backend.py`, `curl_backend.py` | `attempt_idx`, `last` | one attempt, classify its reply, sleep, verdict after the loop |
| Browser backend, `_backends/patchright_backend.py` | driver, browser, context, page; recordings on disk; console messages; `attempt_idx`, `last` | launch, one attempt in a context of its own, navigate, act, wait, read, shoot, keep or discard recordings, close |
| Retry policy, `retry.py` | none | `should_retry`, `next_delay`, `parse_retry_after` |
| `Throttle`, `throttle.py` | `_next_allowed` per host, `_lock`, the clock | `acquire` |
| `bulk`, `cli.py` | queue and futures of a thread pool, the next line, `any_failed` | submit, fetch, print in order, leave, exit |
| `render_session`, `render_session.py` | driver, browser, context, page, recordings, screenshots | enter, act, shoot, leave, tear down |
| Derived-url checks, `utils/_ssrf.py` | none; asks the resolver | `is_seed_internal`, `check_ssrf`, `check_redirect` |
| Discovery, sitemap, robots, `utils/*.py` | what was found so far | probe, follow an index, read robots.txt by status |
| easter_hunt, `contrib/easter_hunt/` | the findings so far | scan seeds x paths with detectors |
| The other commands, `cli.py` | output directories, the exit code | check the command line, one call, print, exit |

**Interaction.** `bulk` calls `fetch()` from the threads of a pool; the threads share one
`Throttle`; `fetch()` takes a slot of it, then calls one backend's `attempt()` after the
other, which report by returning a `Response` or by the type of the exception they raise;
`FingerprintBlock` is the one the chain catches. Discovery, sitemap, robots and the scan
call `fetch()` one url at a time and treat every `FetchError` as absence.

**What is hard, and what would make each part correct.**

- *The chain.* Three near-copies of one loop, a sleep in each, and a jump between them that
  depends on the last attempt only. Correct: a tier is left only on a fingerprint signal;
  only transient failures are retried, at most `max_attempts` times; nothing is sent that the
  arguments forbid; what the caller gets is about the last exchange; no server makes a call
  sleep longer than the cap allows; every call ends.
- *The throttle.* Any interleaving of its callers, and a clock that runs on between any two
  statements. Correct: slots of a host are `min_interval` apart, nobody returns before its
  slot, nobody waits for another host's.
- *bulk.* Fetches end in any order, some with an exception nobody expects, and the reader of
  the output may go away. Correct: lines in the order of the file, each about its own url; an
  exit code that speaks for all urls; no fetch left behind; it ends.
- *bulk with a delay.* A pool whose threads wait for slots. Correct: one slot per url before
  its requests, the pace of each host kept, and the waiting does not stop the pool.
- *The browser tier.* Every call into Patchright may raise, while a recording exists only
  after its context has closed and its path only while the driver runs. Correct: nothing runs
  on, a Response shows one page, its own, and has that page's recordings, no other recording
  stays, nothing is done to a page twice because something else timed out, and a page that
  never stands still ends the call.
- *The other commands.* A call that may fail in more ways than the command expects, and output
  after it that may fail as well. Correct: what the command line alone rules out costs no
  request; the exit code agrees with what was printed, and both with what happened.
- *The session.* The same ordering with a teardown of its own, entered from `__exit__` or
  from one of the exceptions of `__enter__`, each step of which may raise. Correct: nothing
  runs on after the block, and its recordings are handed over.
- *Discovery, sitemap, robots and the scan.* A check before and a check after each request,
  each only for an external seed; failures that mean "absent", failures that mean "stop";
  limits applied while collecting. Correct: the guard holds for every request and answer and
  never for a seed; a scan that returns has covered everything; at most `max_urls`, and no
  document more than needed; robots.txt read by its status.

`PROJECT.json` lists the hazards at their lines, with the properties that would catch each.

## 2. The modules

| Module | Models | Composes |
|---|---|---|
| `FetchContract` | what `fetch()` promises: one tier at a time, cheapest first, left only on evidence | |
| `FetchChain` | one `fetch()`: argument checks, chain, retry loops | implements `FetchContract` |
| `Throttle` | `acquire`, one action per statement that touches shared state | |
| `BulkContract` | what `bulk` promises whoever reads its output | |
| `BulkPool` | the plain loop and the thread pool of `bulk` | implements `BulkContract` |
| `PoliteBulk` | `bulk --delay` | `BulkPool` and `Throttle`; implements `BulkPool` |
| `BrowserTier` | one `attempt()` of the browser backend: lifetimes and recordings | |
| `BrowserPage` | the same with `_run_page` cut into its steps | `BrowserTier`, which it implements |
| `RenderSession` | a `with render_session(...)` block: enter, body, exception, teardown | |
| `SiteScan` | `discover`, `fetch_sitemap_urls`, `is_allowed`, `hunt` over one abstract `fetch()`, with the guard of `_ssrf.py` | |
| `Commands` | `fetch`, `discover`, `devices`, `doctor` and `easter-hunt scan` | `FetchContract` |
| `FetchChainProofs`, `ThrottleProofs`, `BulkPoolProofs`, `BrowserPageProofs`, `RenderSessionProofs`, `SiteScanProofs`, `CommandsProofs` | theorems of the module each is named after | |
| `PoliteBulkProofs` | theorems of the composition | `BulkPoolProofs` and `ThrottleProofs` |
| `MCFetchChain`, `MCPoliteBulk`, `MCSiteScan` | instances for TLC | |

A definition whose comment starts with "Mutant:" is no part of a specification. It stands
before the definition it changes the way a plausible bug would, and `PROJECT.json` pairs it
with the property that must fail when the one is put in the other's place.

### FetchChain and the code

The call is synchronous, so there is one control point, `phase`:

| `phase` | code | actions |
|---|---|---|
| `start` | `fetch`, client.py:68-81 | `RejectArguments`, `AcceptArguments` |
| `dispatch` | `_dispatch`, and the head of each `attempt()` | `DispatchHttp`, `DispatchBrowser`, `RefuseBrowser`, `LaunchFails` |
| `try` | `_attempt_once` of the tier in charge | `NoAnswer`, `RawError`, `UnreadablePage`, `TransientStatus`, `TerminalStatus`, `UnsuccessfulStatus`, `SoftBlock`, `Success` |
| `sleep` | `time.sleep(next_delay(...))` | `Sleep` |
| `conclude` | after the loop, and `_run_chain`'s `except` | `Escalate`, `SurfaceBlock`, `Exhausted` |

A request and its reply are one step, and every reply is possible at every step: a status of
`Statuses` with a page that is full, empty HTML or empty and of another type, no answer, or an
exception the backend does not catch. The three loops are one set of actions; where they
differ the tier is in a guard: only httpx reads "TLS" in the text of a transport error, only
the browser refuses bodies and methods, only it can find a page that never stops navigating.
`RawError` stands for every exception no `except` of a backend names: httpx errors that are no
`TransportError`, Patchright errors that are no timeout of the navigation, and
`parse_retry_after`, which raises for a few odd header values. `wire` and `slept` are history:
the program does not have them, the properties are about them.

### Throttle and the code

`acquire` is cut where threads can interleave: `Enter` takes the lock (31), `Sample` reads the
clock (32), `Pick` and `Store` are 33 and 34, `Leave` gives the lock back, `Sleep` and `Wake`
are `time.sleep` (37), `Return` hands control to the caller. The clock is an integer that may
advance at any point; a sleep lasts at least as long as asked, however late it starts.
`host` is the key acquire uses: `urlsplit(url).hostname`, or the url if there is none.

### BulkPool, PoliteBulk and the code

The main thread is `main`: `submit` (the list comprehension of `_run_pool`), `run` (the plain
loop), `emit` (`emit(fut.result())`), `leave` (the end of the `with` block, and the exit).
`workers` is the option, any of 0 to `MaxWorkers`. A fetch is one step to one of three
outcomes: a Response, a FetchError (both become lines) or another exception, which the future
keeps until its result is asked for. `EmitFails` is a `typer.echo` that raises because the
reader is gone. Of `ThreadPoolExecutor` the model has what `_run_pool` uses: a FIFO queue, up
to `workers` threads, a `shutdown(wait=True)` on leaving. The exit code of a command that an
exception ends is 1.

In `PoliteBulk` the same thread is a thread of both modules. `StartFetch` is `Take` of the
pool and `Call` of the throttle at once; `EndFetch` needs the throttle to have let the thread
go; a url `urlsplit` rejects raises in `acquire` before it touches anything
(`StartMalformed`). The plain loop is left out there: it has nobody to share a throttle with.

### BrowserTier and the code

`up` is what runs, `disk` the recordings there are, `held` what the attempt in hand has come
to: a Response, an outcome to retry, a soft block, or an exception on its way out. What
happens between the page's opening and the end of `_run_page` is one step (`RunPage`) with any
of these results; `FetchChain` has the classification. Patchright is external: closing a
context writes what it recorded, wholly or, if it raises, in part; closing the browser takes
an open context along; a driver that stops takes the browser along.

### BrowserPage and the code

`BrowserPage` extends `BrowserTier`: everything around the page is a step of that module
(`Around`), `RunPage` happens in the step that ends `_run_page` (`End`). `stage` is where
`_run_page` is:

| `stage` | code | actions |
|---|---|---|
| `goto` | `page.goto`, and what the status decides (225-257) | `GotoFails`, `RetryableStatus`, `TerminalStatus`, `UnsuccessfulStatus`, `SuccessStatus` |
| `act` | `_apply_actions` | `Act`, `ActRaises`, `AllActed` |
| `wait` | `_apply_waits` | `WaitFor`, `AllWaited` |
| `read`, `reread` | `_read_content`, first and second try | `Navigating`, `BlockRead`, `RefusalRead`, `BodyRead`, `BlankRead` |
| `shoot` | `capture_screenshot`, the named ones and the one without a name | `Shoot`, `Deliver` |

The page is read for three ends (`text`): the diagnostics of a block or of a refusal, and the
body. `PageRaises` is any call into Patchright that raises, at any stage; the second failure to
read a page that keeps navigating, a FetchError, is one of them. `Message` is a listener of
`attach_capture`, which hears its page until the context closes. An action that raises may have
had its effect (`ActRaises`). `work` and `plan` are how often what is done and what was asked
for; which selector, which text and which picture do not matter to the order.

### RenderSession and the code

`__enter__` is a step per resource (`StartDriver`, `LaunchBrowser`, `NewContext`, `NewPage`,
`Goto`), any of which may raise (`EnterFails`); only a navigation timeout tears down
(`GotoTimesOut`). The body may shoot, raise or end, and the browser may die under it.
`_teardown` is a step per statement, in the order of `After`; a statement inside
`contextlib.suppress` that raises is skipped (`Suppressed`), and so is a screenshot of the
exception that cannot be taken. The methods that act on the page change nothing of the session
unless they raise, which is `BodyRaises`.

### SiteScan and the code

The four tools share one loop: a list `todo` of targets derived from the seed in hand, each
checked (`RefuseTarget`), fetched and checked again (`RefuseAnswer`), then read. The verdict on
a seed and the check of a target may themselves raise, for a url that cannot be taken apart
(`SeedRaises`, `CheckRaises`). `fetch()` is a choice here: it raises a FetchError with or
without a status (`Absent`), raises anything else (`Raises`), or delivers a document from
somewhere. What the tools differ in is in operators on a target and a document: `Targets`,
`Yield`, `Rest`, `Allowance`. A sitemap index puts its children in `todo`. A host is the set of
kinds of addresses it resolves to, so a name that is external and internal at once is one of
the inputs; a path is a member of `Paths`, compared and never taken apart. `found` tells the
answer each finding is from, `log` is history.

### Commands and the code

A command goes through `stage`: `check` (the command line, in the order of `Checks`), `call`,
`print`, `exit`; `doctor --fix` has an `install` as well. For `fetch` the call is
`FetchContract`, step by step, so that it may fail before or after a request was sent
(`FetchGoesOn`, `FetchAnswers`, `FetchFails`, `FetchRaises`); the machine decides what the
browser tier can do (`Browses`). An exception that is no `FetchError` comes before anything was
sent by the tier in charge (`RaisesUnsent`: an argument, or a library) or after it
(`RaisesSent`: a Retry-After, or a library); `raised` says which. `discover` and `scan` are one
step each (`Listed`, `GuardRefuses`, `LibraryRaises`): their inside is `SiteScan`. Options are
there if they change what a command does next; an argument that is checked has one of three
verdicts, whatever its text. Exit codes are those of typer and Python: 2 for a `BadParameter`,
1 for `Exit(1)` and for an exception nobody catches. Each write to stdout may fail, with exit
code 1 and stdout `"cut"`: the result (`PrintFails`), the error line of `--json`
(`FetchErrorPrintFails`, cli.py:449) and what `doctor --fix` says before it installs
(`NoticeFails`, cli.py:669). A write to stderr that fails exits 1 too, which is seen only where
the code would have exited 2 (`UsageError`).

## 3. The runs

| Run | Question | Result |
|---|---|---|
| `FetchChain` | Does a call through up to three tiers keep to its arguments, escalate, retry, pause and report as it should, end, and keep `FetchContract`? | holds |
| `FetchTlsError` | Does a TLS error make every backend hand over to the next (`_backends/__init__.py:3-6`)? | violated |
| `Throttle` | Are slots spaced and punctual, whoever interleaves with whom? Does everyone get through, and the first caller of a host even if time stands still? | holds |
| `BulkPool` | Is the output of the pool that of the plain loop, exit code included? | holds |
| `BulkRawError` | Does every failed url have its error line (`USING.md:173`)? | violated |
| `PoliteBulk` | Do pool and throttle together give one slot per url, keep the pace, and still make a pool whose fetches end? | holds |
| `BrowserPage` | What runs and what lies on disk after any three attempts with any call raising? What was done to the pages, and how often? What does a Response show? Does the page keep to what `BrowserTier` takes it for, and end? | holds |
| `RenderSession` | What runs on, and which recordings are there after a session with any step failing? | holds |
| `SiteScan` | Is the guard kept and no seed refused, is a scan complete, the limit kept, robots.txt read by its status? | holds |
| `SiteScanUnparseable` | Does a payload that is unparseable make `[]` (`utils/sitemap.py:32-33`)? | violated |
| `Commands` | Do the checks of a command line come before its requests, and do exit code, output and outcome agree? | holds |
| `CommandsUsageError` | Is what exits 2 a bad argument and no failure of the fetch (`cli.py:445`)? | violated |

**Bounds, and why they are enough.**

- `FetchChain`: two attempts per tier, three on a pinned one. The verdict of a loop depends on
  its last attempt only, so two attempts show every pair of an earlier and a last outcome, on
  each of three tiers in a row; the third attempt shows the growing backoff. One status per
  class and one on each side of a boundary: 204 and 302 beside 200 (the soft-block test), 407,
  410, 451 (the typed errors), 403, and 999. The policy is the default one to which a caller
  has added a success, 202, and a terminal status, 404: that is where the tests of the loop
  overlap, and their order decides (`IsTransient` comes first). The loop treats a listed status
  alike whatever it is, so 429 and the others of the default policy are not answered as well.
  0 attempts is an input. Retry-After is above the cap, or absent on a failure without reply.
  1 440 000 states.
- `Throttle`: three threads, two hosts, three calls: three threads in one critical section, and
  two queued behind one slot. No symmetry: the run checks liveness as well. `MaxTime` stops the
  clock only while nobody sleeps, so no sleeper is stuck by the bound. 776 000 states.
- `BulkPool`: four urls, the plain loop and up to three threads; the first url may end last of
  three running ones while a fourth is queued.
- `PoliteBulk`: two threads, two urls of one host, one of another and one that is malformed;
  a delay of two ticks, so that time can stand between a slot and its return. Two threads may
  both be late, which is when the pace would suffer. 218 000 states.
- `BrowserPage`: three attempts, so that there is one that is neither first nor last; up to two
  actions, two waits and two screenshots, so that there is one in front of another of each
  kind (two waits is also all there is). With and without each recording. 719 000 states.
- `RenderSession`: every combination of its options; a session has no loop to bound, and
  screenshots beyond the second do nothing new.
- `SiteScan`: seeds on external, internal, multicast, unresolvable hosts and one that is
  both; one sitemap path and one llms path (each further one is handled alike, independently
  of the others); two seeds in either order with two paths, one of them on another host; an
  index of two or three children and limits of 0, 2 and 3, below, at and between the counts
  of its documents; redirects that are landed on or named in a Location. 1 420 000 states.
- `Commands`: every combination of verdicts and options that are looked at, on every machine,
  and all three tiers; nothing to bound. 90 000 states.

**Deadlock** checking is off throughout: each model ends (a call returns, `bulk` exits, callers
run out of calls), and the liveness properties say that it does not stop before.

**Fairness.** Each assumption is about the world outside the module:

- `FetchChain`, `BrowserPage`: weak fairness of the only control flow there is. Every request
  and every call into the browser is given a timeout. httpx and curl_cffi time out per
  operation or transfer; a server that keeps httpx fed byte by byte is assumed to end. A
  page owes nothing: messages (`Message`) and a page that stands still are assumed of none.
- `Throttle`: each thread inside `acquire` is scheduled. That covers the lock: there are
  finitely many calls, so a lock that is always given back is not free again and again
  for others only. Time passing is an assumption of the first half of
  `CallersGetThrough` alone (`TimePasses`); the second, `FirstVisitorPasses`, is checked without
  it, which is what makes it say that hosts do not wait for one another.
- `BulkPool`: the main thread and each thread of the pool are scheduled and every fetch ends.
  `ImplementsPool` of `PoliteBulk` discharges this for a fetch that waits for slots: there the
  assumption is about scheduling, the clock and the requests only, and `BulkPool`'s `FairSpec`
  is what is shown.

**Refinement.** `FetchChain` maps its range, tier, last exchange and result to
`FetchContract`, `BulkPool` its lines and exit code to `BulkContract`; a retry, a sleep, a
submission or a fetch is a stutter or a step nobody outside can tell. `PoliteBulk` extends
`BulkPool`, and the mapping is the identity on its variables. `BrowserPage` extends
`BrowserTier` in the same way: each step inside a page is a stutter, and the last one is
`RunPage`. `ImplementsTier` includes the fairness of the tier, so it also says that a page ends.

**What the violated runs say.** They quote a comment or a document and show what the code does
instead; `PROJECT.json` has the lines.

- A TLS error moves httpx on to curl_cffi, but ends the call in curl_cffi, where it is a
  FetchError like any transport error: the browser is not tried.
- An exception that is no FetchError comes out of `fut.result()`, and neither its url nor any
  later one gets a line; those fetches are still carried out. The exit code is right.
- `fetch_sitemap_urls` catches `ParseError` only. A gzip payload that is cut off, or XML with
  declarations defusedxml forbids, raises out of it, and takes the urls of earlier children of
  the index with it.
- A Retry-After of digits that `isdigit()` knows and `float()` does not raises a `ValueError`
  after requests were sent. `fetch` takes every `ValueError` for a bad argument: exit code 2,
  and no line for `--json`.

More were met and have no run of their own:

- `_backends/__init__.py:17` calls `FingerprintBlock` a "control-flow sentinel, never surfaced
  to callers"; the block of the *last* tier is what the caller gets, and `USING.md` shows it.
- An unknown `--device` exits 2 (`USING.md:106`) only if the chain gets as far as the browser
  tier; when a cheaper one answers, nobody looks at it. The help of `--tier` says that render
  flags apply only there.
- `fetch --json` prints no JSON for an exception that is neither a `FetchError` nor a
  `ValueError`, such as a selector that does not come up in time (`USING.md:173`).
- `doctor --fix --headed` on a machine without a display takes the launch that failed for a
  missing Chromium, installs one and exits 0 without trying to launch it, although
  `cli.py:646-647` and `USING.md:96` say that `--headed` verifies a display. The model reaches
  this; `ExitTellsOutcome` says of exit 0 only that a browser was started as asked for, or one
  was just installed.
- A page that redirects itself while it is captured mixes documents: the status and headers of
  the first, the body of one and the `url` of a later one. `ResponseShowsOnePage` is about
  attempts, not about that.
- A policy that lists a terminal status in `retry_on_status` retries it (httpx_backend.py:102
  asks the policy first, whereas `_backends/__init__.py:43` says "never retried").
- Exceptions of the libraries leave `fetch()` as they are (`RawError`) although
  `_backends/__init__.py:8-9` promises a FetchError.
- `acquire` spaces the slots, `throttle.py:9-11` speaks of requests. A thread that is held up
  after its slot returns late, the next one on time, and their requests leave closer together
  than `min_interval`.
- Threads of the pool sleep inside `acquire`, so urls of one host at the head of the file keep
  a url of another host in the queue for as long as all threads sleep, although
  `throttle.py:9-11` says of a bulk pool that "different hosts never block each other".
- An XHTML page is XML by its content type, so a shell served as `application/xhtml+xml` counts
  as a sitemap in `discover()`, whose module docstring says that soft-404s are rejected.

## 4. The proofs

TLC checks the instances above. The following hold for every value of the constants that
meets the assumptions of the module. Every invariant and every action property that a passing
run checks is a theorem here, and the refinements are up to fairness. Each inductive invariant
was checked by TLC, on the run of its module, before it was proved.

**Assumptions**, all of them `ASSUME`s which TLC evaluates on every run:

- `FetchChain`: statuses are naturals, the argument combinations are of their type, backoffs are
  naturals (of the factor nothing is said: they may shrink);
- `Throttle`: `NoThread` is no thread, the interval is natural; `PoliteBulk`: the delay is
  positive (`cli.py:548` makes a `Throttle` only then), each url has a host or none;
- `BulkPool`: the numbers of urls and workers are natural;
- `BrowserTier` and `RenderSession`: the recordings are video, HAR, both or none, which is what
  `RenderOptions` has; `BrowserPage`: the plan's bounds are natural;
- `SiteScan`: seeds, documents and redirects are of their types, the tools but `hunt` have one
  seed, and `discover()` is not asked about one of the paths it probes anyway
  (`ProbesAssumption`): in the model the path of a request tells which probe it is. `Commands`
  assumes nothing.

**`FetchChainProofs`**: `TypeCorrect`, `Escalation`, `Retries`, `Allowed`, `Reported`, `Rested`,
and `Implements`, the safety part of `FetchContract`. Any policy, any statuses, any number of
attempts, negative ones too. The properties speak of all requests a call has sent, which says
nothing about where the call is now; so the inductive invariant `IInv` adds

- `Placed`: the range is the one the arguments ask for, the tier lies in it, a result is there
  exactly at the end;
- `AttemptLeft`: the loop body runs only with an attempt left;
- `TierIsLast`: the requests of the tier in charge are the last ones, and `idx` counts them,
  which makes `AttemptsBounded`, a half of `RetriesKeepToPolicy`, inductive;
- `LastExchange`: entering a tier, the last exchange was a signal of the tier before;
  trying again, a transient failure of this one; after the loop, `last` is what the last
  exchange left, and the loop's verdict agrees with the signal of that exchange, which has not
  settled the call (`Undecided`: no unlisted status that is terminal or a success, a soft block
  aside). That last part is the point: the code decides from `last`, the property from the wire.
  `Reported` needs it to say that a typed error comes from its status exactly when the policy
  does not list it.

There is a step per action, and under it a step per conjunct it can disturb. `Implements`
takes its facts from `IInv` and maps every action to a step of the contract.

`Rested` is `SleepBounded`. It has an invariant of its own on top of `IInv`, `SleptSoFar`: the
call has slept at most as many longest pauses as loops went round, which is `attempts - 1` for
each tier behind it and `idx` in the tier in charge. `Backoff(i)` is never computed: a sleep
happens only with an attempt left, so its backoff is one of `Pauses`.

**`ThrottleProofs`**: `TypeCorrect`, `Spacing`, `Punctual`, `OnlyOwnHost`, for any threads,
hosts and interval. `SlotsSpaced` is not inductive: a slot is stored from a value picked
earlier. `IInv` adds `Mutex` (only the holder of the lock is between taking and releasing it),
`Locals` (the slot a thread picked is still the right one when it stores it, because of the
lock; its wake-up is not before its slot), `AllowedAfterSlots` and `AllowedBehindSlot` (the next
slot of a host is an interval behind the last one it gave out).

`Pace` counts: when `acquire` has returned n times for a host, n - 1 intervals have passed. No
property of a run of `Throttle` says so; it is what `PoliteBulk` needs. `PaceInv` adds `Paced`
(a slot lies at least as many intervals from the start as slots of its host were given before
it), `Owned` (a thread fills the slot it reserved and no other), `Stamped` and `Latest`.

**`BulkPoolProofs`**: `TypeCorrect`, `Ordered`, `ExitCode`, `Quiet`, and `Implements`, the safety
part of `BulkContract`, for any number of urls and threads. A line is compared with what its
fetch brought *by now*, so it must be shown that nobody has that job in hand any more, and the
exit code speaks of every url, also of those that have no line. `IInv` adds

- `Shape`: only the pool submits, and the plain loop leaves queue and threads alone;
- `InFlight`: a pending job is in the queue, once, and a running job is in the hands of one
  thread; so a settled job is nobody's, and its line stays right;
- `Submitted`: all jobs are submitted, in the order of the file, before the first line;
- `Printed`: the main thread is at the url behind the last line, and leaves behind the last
  url or with an exception, never both;
- `Flagged`: without an exception, `any_failed` is what the lines printed so far say;
- `Concluded`: the exit code is set once, when all is quiet, from those two.

In `Implements`, `Emit` is a line of the contract, `Leave` its conclusion, and every other
action a stutter. One lemma (`KindsSeq`) is about the
projection of a sequence of lines to what they report.

**`PoliteBulkProofs`**: `IsAPool`, `SlotPerUrl`, `Paced`, for any urls, hosts, workers and
delay. With a throttle, `bulk` does nothing it could not do without (`IsAPool`, the safety part
of `ImplementsPool`), so `IInv` of `BulkPool` holds; its threads take the steps of `acquire`
and no others, so the invariants of `ThrottleProofs` hold (`PacerInvariance`). What remains is
that the two fit: `Matched` says that a thread inside `acquire` has a url in hand and is there
for the host of that url. With it, the step that returns from `acquire` fills one slot of a
host and sends one url to it, and `OneSlotPerUrl` is inductive. `PaceIsKept` is then `Pace`
with the slots counted by their urls.

**`BrowserPageProofs`**: about the tier, `NothingLeftRunning`, `NothingLeftBehind`, `InTime`; that
`BrowserPage` is a `BrowserTier` (`Implements`, the safety part of `ImplementsTier`); and about
the page, `TypeCorrect`, `ActedOnce`, `OnePageShown`. Any number of attempts, actions, waits and
screenshots. `TierInv` has what an attempt may have in hand in each phase (`Staged`), what runs
(`Running`: past its phases a context is open only if a call raised), which recordings are
attached (`Attached`) and whose else may lie about (`Disk`). `NoOrphans` is about the end; `Disk`
says for each phase which files are still to be dealt with. `PageInv` rests on `OnePage`: once
anything has been done to a page, no phase that leads to another attempt is reached any more,
so all deeds are of one page, and the counts that `stage` stands for (`Progress`) are those a
Response shows (`Shown`). That is also why an action is carried out once.

**`RenderSessionProofs`**: `TypeCorrect`, `EndsClean`, `HandsOver`, `InTime`. The properties are
about the end of a session, `IInv` about each step of the teardown: what still runs (`Running`),
and that what the steps behind it were for has been done, or a mishap tells why not (`Written`,
`Known`). `Entered` keeps apart the sessions that never were entered.

**`SiteScanProofs`**: `TypeCorrect`, `Guarded`, `Trusted`, `Limited`, `Complete`, `Verdicts`, for
any seeds, documents, redirects, limits and lists of probes. `IInv` adds

- `Judged`: the verdict in hand is that on the seed in hand, from which the guard's properties
  follow for one request after the other;
- `Staged` and `Found`: between two seeds nothing is left to fetch, and whatever was found is
  from an answer on record;
- `Room`: as long as there is something to fetch, `max_urls` is not reached, which is why the
  last document asked for still adds something;
- `RobotsSoFar`: one request at the most, and the verdict is from it;
- `HuntSoFar`: how many requests a scan has sent and for which path each was, in terms of the
  seed in hand and of what is left of its paths.

**`CommandsProofs`**: `TypeCorrect`, `ChecksFirst`, `ExitTells`. `IInv` adds how far the checks
have got, and that what has happened by then is at most a directory (`Checked`); that a doctor
installs only off musl, and comes to print "ok" only with a Chromium that was launched as asked
for or just installed (`Staged`); that only `fetch` calls `fetch()`, a screenshot comes with a
response, and is written before anything is printed (`Called`). The call is any behaviour of
`FetchContract`, which `FetchChain` keeps. Nothing is assumed of the writes: `ExitTells` holds
whichever of them fails, and leaves room for the line of a failed fetch to be lost in one.

**Model-checked only.** Liveness: `CallersGetThrough`, the eventualities of the contracts in
`KeepsContract` (both), and the fairness in `ImplementsPool` and `ImplementsTier`. They need
ENABLED, which is out of the prover's reach. The violated runs show one behaviour each and need
no proof.

## 5. Not modelled

- *Planned* (see 6): `parse_retry_after` as a function; its results are choices so far.
- *Data the control flow does not read*: headers, bodies, diagnostics, pictures, the text of
  errors and messages, the layout of what the commands print. `_with_conditional_headers` is a
  function on headers.
- *Two captures of one page that has changed in between*: see "met" above; what a page shows
  is not in the model, only which page, and when.
- *Detectors* and the parsing of feeds, JSON-LD, XML and robots.txt are pure text matching;
  `SiteScan` has a number of hits, or a choice, in their place. `_split_events` only sorts and
  removes duplicates of what was found.
- *DNS rebinding*: `utils/_ssrf.py` leaves it out of scope, and `SiteScan` with it: what a host
  resolves to does not change during a call.
- *KeyboardInterrupt*, several processes sharing a host (the throttle is per process and says
  so), and crashes: nothing is persisted but recordings.
- *Clock*: `time.monotonic` is an integer; the sums of floats are exact here. A sleep never
  ends early, as Python has guaranteed since 3.5.

## 6. Plan

Done: all modules of section 2, and the proofs of section 4. What is left:

1. `RetryAfter`: the header as a sum of its cases, against what the docstring says (it raises
   for digits that are no decimal ones and for dates with absurd years), and the delay it
   leads to.
2. `FetchContract`'s own invariants (a block comes from the last tier of the range only, and on
   evidence), proved of the contract once, so that they carry over to `FetchChain` and to
   `Commands`.
