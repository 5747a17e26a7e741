------------------------------ MODULE SiteScan ------------------------------
(***************************************************************************)
(* The tools that fetch more than the url they are given: discover(),      *)
(* fetch_sitemap_urls() and is_allowed() (utils/), and hunt()              *)
(* (contrib/easter_hunt).  Each goes through a list of targets it derives  *)
(* from a seed, one fetch() at a time, with the guard of utils/_ssrf.py    *)
(* before and after.  A probe (check_ssrf, fetch, check_redirect) and what *)
(* the tool makes of it are one step.                                      *)
(*                                                                         *)
(* A host is the set of kinds of addresses it resolves to; a literal       *)
(* address is a set of one, a name that does not resolve, no host at all,  *)
(* or a url that cannot be taken apart, the empty set.  What a host        *)
(* resolves to does not change during a call (utils/_ssrf.py leaves        *)
(* rebinding out of scope).  A document is what a tool can tell of it: its *)
(* kind, and how much there is to report.                                  *)
(***************************************************************************)
EXTENDS Integers, Sequences

CONSTANTS
  Calls,      \* the calls: a tool, its seeds, and its paths and limit
  Redirects,  \* where an answer comes from and points to; Here is where it was asked
  Paths,      \* the paths of urls
  Documents,  \* what servers deliver, of what each tool tells apart
  SitemapPaths, LlmsPaths,  \* _SITEMAP_PATHS, _LLMS_PATHS
  Failures    \* statuses a FetchError brings, NoStatus without an answer

Addresses == {"public", "private", "multicast"}
Tools     == {"discover", "sitemap", "robots", "hunt"}
Kinds     == {"urlset", "index", "garbage", "broken", "html", "xhtml", "text"}

Robots  == "/robots.txt"
Sitemap == "/sitemap.xml"

Url  == [host : SUBSET Addresses, path : Paths]
Here == [host |-> {}, path |-> "here"]  \* no redirect
Same == {"same"}                        \* urljoin: a path on the host of the seed
Reference == [host : (SUBSET Addresses) \cup {Same}, path : Paths]

NoStatus == 0

ASSUME FailuresAssumption == Failures \subseteq Nat
ASSUME RedirectsAssumption == Redirects \subseteq [landed : Url, permanent : Url]
ASSUME DocumentsAssumption ==
  \A tool \in Tools : \A d \in Documents[tool] :
    d.kind \in Kinds /\ d.hits \in Nat /\ d.children \in Seq(Url)
ASSUME CallsAssumption ==
  \A c \in Calls : /\ c.tool \in Tools
                   /\ c.seeds \in Seq(Url)
                   /\ c.paths \in Seq(Reference)
                   /\ c.max \in Nat
                   /\ c.tool # "hunt" => Len(c.seeds) = 1
ASSUME PathsAssumption ==
  /\ {Robots, Sitemap, Here.path} \subseteq Paths
  /\ SitemapPaths \in Seq(Paths)
  /\ LlmsPaths \in Seq(Paths)
\* discover() of one of the paths it probes anyway is left out: the path tells the probe.
ASSUME ProbesAssumption ==
  \A c \in Calls : c.tool = "discover" =>
    LET probes == <<Robots>> \o SitemapPaths \o LlmsPaths IN
    \A i \in 1..Len(probes) : c.seeds[1].path # probes[i]

VARIABLES
  call,     \* the call
  stage,    \* "seed": a new seed is due; "probe": its targets; "done"
  at,       \* the seed in hand, by its index
  trusted,  \* seed_is_internal
  todo,     \* its targets still to be fetched
  found,    \* what was found: <<n, k>>, the k-th thing of the n-th answer
  verdict,  \* what is_allowed() says
  outcome,  \* what the call came to
  log       \* history: every request, with the index of its seed and its answer

vars == <<call, stage, at, trusted, todo, found, verdict, outcome, log>>

-----------------------------------------------------------------------------
\* utils/_ssrf.py.

\* Not globally routable, or multicast.
IsInternal(address) == address # "public"

HostIsInternal(host) == \E address \in host : IsInternal(address)

IsSeedInternal(seed) == HostIsInternal(seed.host)

\* check_ssrf raises.
Refused(url) == ~trusted /\ HostIsInternal(url.host)

\* urlsplit, or the encoding of a name, may raise: is_seed_internal and check_ssrf let it out.
MayBeMalformed(url) == url.host = {}

Resolve(url, target) == IF target = Here THEN url ELSE target

\* Mutant: only the Location of a permanent redirect is looked at.
RedirectRefusedByLocation(url, redirect) == Refused(Resolve(url, redirect.permanent))

\* check_redirect raises: the url an answer came from, or points to.
RedirectRefused(url, redirect) ==
  \E target \in {redirect.landed, redirect.permanent} \ {Here, url} :
     Refused(target)

-----------------------------------------------------------------------------
\* What each tool fetches, and what it makes of an answer.

OnSite(seed, path)      == [host |-> seed.host, path |-> path]
AllOnSite(seed, paths)  == [i \in 1..Len(paths) |-> OnSite(seed, paths[i])]
IsOneOf(path, paths)    == \E i \in 1..Len(paths) : paths[i] = path

Join(seed, path) == IF path.host = Same THEN OnSite(seed, path.path) ELSE path

Targets(seed) ==
  CASE call.tool = "sitemap"  -> <<OnSite(seed, Sitemap)>>
    [] call.tool = "robots"   -> IF seed.path = Robots THEN <<>> ELSE <<OnSite(seed, Robots)>>
    [] call.tool = "discover" -> <<OnSite(seed, Robots)>> \o AllOnSite(seed, SitemapPaths)
                                 \o <<seed>> \o AllOnSite(seed, LlmsPaths)
    [] call.tool = "hunt"     -> [i \in 1..Len(call.paths) |-> Join(seed, call.paths[i])]

LooksLikeXml(doc)  == doc.kind \in {"urlset", "index", "garbage", "xhtml"}
LooksLikeHtml(doc) == doc.kind \in {"html", "xhtml"}

\* discover(): how many entrypoints an answer of one of its targets stands for.
Entrypoints(url, doc) ==
  CASE url.path = Robots               -> IF LooksLikeHtml(doc) THEN 0 ELSE doc.hits
    [] IsOneOf(url.path, SitemapPaths) -> IF LooksLikeXml(doc) THEN 1 ELSE 0
    [] IsOneOf(url.path, LlmsPaths)    -> IF LooksLikeHtml(doc) THEN 0 ELSE 1
    [] OTHER                           -> IF LooksLikeHtml(doc) THEN doc.hits ELSE 0

\* The <loc>s of a sitemap; those of an index are urls of its children.
Locs(doc) == CASE doc.kind = "index"  -> Len(doc.children)
               [] doc.kind = "urlset" -> doc.hits
               [] OTHER               -> 0

Smaller(a, b) == IF a <= b THEN a ELSE b

\* Mutant: the limit is applied to each document by itself.
CollectEach(doc) == Smaller(Locs(doc), call.max)

\* _collect stops at max_urls.
Collect(doc) == Smaller(Locs(doc), call.max - Len(found))

IsIndex(doc) == call.tool = "sitemap" /\ log = <<>> /\ doc.kind = "index"

Yield(url, doc) == CASE call.tool = "sitemap"  -> IF IsIndex(doc) THEN 0 ELSE Collect(doc)
                     [] call.tool = "discover" -> Entrypoints(url, doc)
                     [] call.tool = "robots"   -> 0
                     [] call.tool = "hunt"     -> doc.hits

\* What is still to be fetched when n things are found: an index stops at its limit.
Rest(n) == IF call.tool = "sitemap" /\ n >= call.max THEN <<>> ELSE Tail(todo)

\* Mutant: a transport failure counts as no robots.txt.
IsUnreachableByStatus(status) == status >= 500

IsUnreachable(status) == status = NoStatus \/ status >= 500

-----------------------------------------------------------------------------
Init == /\ call \in Calls
        /\ stage = "seed"
        /\ at = 0
        /\ trusted = FALSE
        /\ todo = <<>>
        /\ found = <<>>
        /\ verdict = "none"
        /\ outcome = "pending"
        /\ log = <<>>

End(what) == stage' = "done" /\ outcome' = what

\* Mutant: the verdict on the first seed is kept for all of them.
NextSeedTrusted == /\ stage = "seed"
                   /\ at < Len(call.seeds)
                   /\ at' = at + 1
                   /\ trusted' = IsSeedInternal(call.seeds[1])
                   /\ todo' = Targets(call.seeds[at + 1])
                   /\ stage' = "probe"
                   /\ UNCHANGED <<call, found, verdict, outcome, log>>

\* The verdict on a seed is taken once, and the seed itself is never refused.
NextSeed == /\ stage = "seed"
            /\ at < Len(call.seeds)
            /\ at' = at + 1
            /\ trusted' = IsSeedInternal(call.seeds[at + 1])
            /\ todo' = Targets(call.seeds[at + 1])
            /\ stage' = "probe"
            /\ UNCHANGED <<call, found, verdict, outcome, log>>

\* The verdict cannot be taken, and the call ends.
SeedRaises == /\ stage = "seed"
              /\ at < Len(call.seeds)
              /\ MayBeMalformed(call.seeds[at + 1])
              /\ End("raised")
              /\ UNCHANGED <<call, at, trusted, todo, found, verdict, log>>

\* Mutant: the next seed is counted twice.
SeedDoneTwice == /\ stage = "probe"
                 /\ todo = <<>>
                 /\ stage' = "seed"
                 /\ at' = at + 1
                 /\ UNCHANGED <<call, trusted, todo, found, verdict, outcome, log>>

SeedDone == /\ stage = "probe"
            /\ todo = <<>>
            /\ stage' = "seed"
            /\ UNCHANGED <<call, at, trusted, todo, found, verdict, outcome, log>>

\* is_allowed() of /robots.txt itself asks nobody.
Finish == /\ stage = "seed"
          /\ at = Len(call.seeds)
          /\ End("returned")
          /\ verdict' = IF call.tool = "robots" /\ log = <<>> THEN "allowed" ELSE verdict
          /\ UNCHANGED <<call, at, trusted, todo, found, log>>

Probe == stage = "probe" /\ todo # <<>>

Ask(redirect, answer, status) ==
  log' = Append(log, [seed |-> at, url |-> Head(todo), answer |-> answer, status |-> status,
                      landed |-> Resolve(Head(todo), redirect.landed),
                      permanent |-> Resolve(Head(todo), redirect.permanent)])

Nowhere == [landed |-> Here, permanent |-> Here]

\* The target is refused before anything is sent, and the whole call ends.
RefuseTarget == /\ Probe
                /\ Refused(Head(todo))
                /\ End("refused")
                /\ UNCHANGED <<call, at, trusted, todo, found, verdict, log>>

\* The check itself raises, for an external seed: an internal one has it skipped.
CheckRaises == /\ Probe
               /\ ~trusted
               /\ MayBeMalformed(Head(todo))
               /\ End("raised")
               /\ UNCHANGED <<call, at, trusted, todo, found, verdict, log>>

Allowance(permitted) == IF call.tool = "robots"
                        THEN IF permitted THEN "allowed" ELSE "disallowed"
                        ELSE verdict

\* Mutant: what cannot be fetched ends the work on its seed.
AbsentEndsSeed(status) ==
  /\ Probe
  /\ ~Refused(Head(todo))
  /\ Ask(Nowhere, "absent", status)
  /\ todo' = <<>>
  /\ verdict' = Allowance(~IsUnreachable(status))
  /\ UNCHANGED <<call, stage, at, trusted, found, outcome>>

\* fetch() raises a FetchError: there is no such source.
Absent(status) == /\ Probe
                  /\ ~Refused(Head(todo))
                  /\ Ask(Nowhere, "absent", status)
                  /\ todo' = Rest(Len(found))
                  /\ verdict' = Allowance(~IsUnreachable(status))
                  /\ UNCHANGED <<call, stage, at, trusted, found, outcome>>

\* fetch() raises anything else, and so does the tool.
Raises == /\ Probe
          /\ ~Refused(Head(todo))
          /\ Ask(Nowhere, "raw", NoStatus)
          /\ End("raised")
          /\ UNCHANGED <<call, at, trusted, todo, found, verdict>>

\* The answer is there, and thrown away; the call ends.
RefuseAnswer(redirect) == /\ Probe
                          /\ ~Refused(Head(todo))
                          /\ RedirectRefused(Head(todo), redirect)
                          /\ Ask(redirect, "refused", NoStatus)
                          /\ End("refused")
                          /\ UNCHANGED <<call, at, trusted, todo, found, verdict>>

Delivered(redirect, doc) == /\ Probe
                            /\ ~Refused(Head(todo))
                            /\ ~RedirectRefused(Head(todo), redirect)
                            /\ Ask(redirect, doc.kind, NoStatus)

Unreadable(doc) == call.tool = "sitemap" /\ doc.kind = "broken"

\* A payload that gzip cannot read, or XML that defusedxml forbids.
CannotRead(redirect, doc) == /\ Delivered(redirect, doc)
                             /\ Unreadable(doc)
                             /\ End("raised")
                             /\ UNCHANGED <<call, at, trusted, todo, found, verdict>>

\* robots.txt permits the url or not; HTML stands for no robots.txt.
Read(redirect, doc) ==
  LET n == Yield(Head(todo), doc) IN
  /\ Delivered(redirect, doc)
  /\ ~Unreadable(doc)
  /\ found' = found \o [k \in 1..n |-> <<Len(log) + 1, k>>]
  /\ todo' = IF IsIndex(doc) THEN doc.children ELSE Rest(Len(found) + n)
  /\ \E permitted \in BOOLEAN : /\ LooksLikeHtml(doc) => permitted
                                /\ verdict' = Allowance(permitted)
  /\ UNCHANGED <<call, stage, at, trusted, outcome>>

Next == \/ NextSeed \/ SeedRaises \/ SeedDone \/ Finish
        \/ RefuseTarget \/ CheckRaises
        \/ \E status \in Failures : Absent(status)
        \/ Raises
        \/ \E redirect \in Redirects :
             \/ RefuseAnswer(redirect)
             \/ \E doc \in Documents[call.tool] : CannotRead(redirect, doc) \/ Read(redirect, doc)

Spec == Init /\ [][Next]_vars

-----------------------------------------------------------------------------
\* A request on record.
Request == [seed : Nat, url : Url, answer : Kinds \cup {"absent", "raw", "refused"},
            status : Nat, landed : Url, permanent : Url]

\* Every variable keeps to its type.
TypeOK ==
  /\ call \in Calls
  /\ stage \in {"seed", "probe", "done"}
  /\ at \in 0..Len(call.seeds)
  /\ trusted \in BOOLEAN
  /\ todo \in Seq(Url)
  /\ found \in Seq(Nat \X Nat)
  /\ verdict \in {"none", "allowed", "disallowed"}
  /\ outcome \in {"pending", "returned", "refused", "raised"}
  /\ log \in Seq(Request)

External(i)  == ~HostIsInternal(call.seeds[i].host)
WasRead(i)   == log[i].answer \in Kinds

\* Nothing derived from an external seed is fetched from an internal address, and nothing
\* that came from one, or names one as its new place, is looked at: with several seeds,
\* each is judged by itself.
GuardHolds ==
  \A i \in 1..Len(log) :
    External(log[i].seed) =>
      /\ ~HostIsInternal(log[i].url.host)
      /\ WasRead(i) => /\ ~HostIsInternal(log[i].landed.host)
                       /\ ~HostIsInternal(log[i].permanent.host)

\* The guard escalates only: whatever an internal seed leads to is fetched, and a call is
\* refused only for a target or an answer other than the seed it was asked about.
SeedsAreTrusted ==
  outcome = "refused" =>
    /\ External(at)
    /\ todo[1] = call.seeds[at] => log # <<>> /\ log[Len(log)].answer = "refused"

\* hunt() that returns has asked for every path of every seed, in order, once, whatever
\* failed on the way, and so has its findings from all of them.
HuntIsComplete ==
  call.tool = "hunt" /\ outcome = "returned" =>
    LET p == Len(call.paths) IN
    /\ Len(log) = p * Len(call.seeds)
    /\ \A i \in 1..Len(call.seeds), j \in 1..p :
         log[(i - 1) * p + j].url = Join(call.seeds[i], call.paths[j])

\* fetch_sitemap_urls() reports at most max_urls, in the order of the documents, and stops
\* asking for children once it has them: the last document asked for still added something.
SitemapLimit ==
  call.tool = "sitemap" =>
    /\ Len(found) <= call.max
    /\ \A i, j \in 1..Len(found) :
         i < j => \/ found[i][1] < found[j][1]
                  \/ found[i][1] = found[j][1] /\ found[i][2] < found[j][2]
    /\ Len(found) = call.max /\ call.max > 0 => found[Len(found)][1] = Len(log)

\* is_allowed() says no when the server is unreachable, and never because there is no
\* robots.txt (utils/robots.py, after RFC 9309).
RobotsFollowsStatus ==
  call.tool = "robots" /\ outcome = "returned" =>
    /\ verdict # "none"
    /\ log = <<>> => verdict = "allowed"
    /\ log # <<>> =>
         /\ log[1].answer = "absent" =>
              /\ log[1].status \in {NoStatus} \cup 500..599 => verdict = "disallowed"
              /\ log[1].status \in 400..499 => verdict = "allowed"
         /\ log[1].answer \in {"html", "xhtml"} => verdict = "allowed"

-----------------------------------------------------------------------------
\* What the documentation says and the code does not do.

\* utils/sitemap.py:32-33: [] when the payload is unparseable.
UnparseableIsEmpty ==
  call.tool = "sitemap" /\ outcome = "raised" /\ log # <<>> =>
    log[Len(log)].answer # "broken"

=============================================================================
