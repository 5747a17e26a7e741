---------------------------- MODULE BrowserPage ----------------------------
(***************************************************************************)
(* The page of one attempt of the browser backend: what _run_page does     *)
(* between the opening of a page and the closing of its context            *)
(* (patchright_backend.py).  BrowserTier has it as one step, RunPage, with *)
(* any result; here it is cut where the page, the server or Patchright may *)
(* decide otherwise: navigate, look at the status, drive the page, let it  *)
(* settle, read it, take the screenshots.                                  *)
(***************************************************************************)
EXTENDS BrowserTier, Sequences

CONSTANTS
  MaxActions,  \* RenderOptions.actions: up to so many
  MaxWaits,    \* wait_for_selector, wait_for_function: up to so many
  MaxShots     \* screenshots and screenshot together: up to so many

ASSUME PlanAssumption == MaxActions \in Nat /\ MaxWaits \in Nat /\ MaxShots \in Nat

VARIABLES
  plan,     \* how many actions, waits and screenshots RenderOptions asks for
  stage,    \* where _run_page is
  text,     \* what the page is read for
  work,     \* history: what was done to, and taken from, the pages of this call
  console   \* console_errors: the attempts whose messages are in the list

page    == <<plan, stage, text, work, console>>
allVars == <<vars, page>>

Plan   == [actions : 0..MaxActions, waits : 0..MaxWaits, shots : 0..MaxShots]
Stages == {"goto", "act", "wait", "read", "reread", "shoot"}
Texts  == {"block", "refusal", "body"}
Deed   == [what : {"act", "wait", "body", "shot"}, n : Nat, of : Nat]

\* When, and how often, the page in hand has seen this.
Seen(what)  == {i \in 1..Len(work) : work[i].of = idx /\ work[i].what = what}
Count(what) == Cardinality(Seen(what))

Do(what) == work' = Append(work, [what |-> what, n |-> Count(what) + 1, of |-> idx])
Idle     == UNCHANGED work

At(from) == phase = "run" /\ stage = from

To(s) == stage' = s /\ UNCHANGED <<vars, plan, text, console>>

Read(what) == /\ stage' = "read"
              /\ text' = what
              /\ UNCHANGED <<vars, plan, console>>

\* _run_page returns or raises; a page to come starts with its navigation.
End(result) == /\ RunPage(result)
               /\ stage' = "goto"
               /\ UNCHANGED <<plan, text, console>>

PageInit == /\ Init
            /\ plan \in Plan
            /\ stage = "goto"
            /\ text = "body"
            /\ work = <<>>
            /\ console = {}

-----------------------------------------------------------------------------
\* Open the page, navigate, and see what the status decides.

\* attach_capture: every page has listeners and lists of its own.
Attach == /\ OpenPage
          /\ console' = {}
          /\ UNCHANGED <<plan, stage, text, work>>

\* A listener hears its page until the context closes.
Message == /\ phase \in {"run", "close"}
           /\ console' = console \cup {idx}
           /\ UNCHANGED <<vars, plan, stage, text, work>>

\* The navigation times out, or brings no response object.
GotoFails == At("goto") /\ Idle /\ End("retry")

\* A status the policy lists, or 403: the page is read for the diagnostics.
RetryableStatus == At("goto") /\ Idle /\ Read("block")

TerminalStatus == At("goto") /\ Idle /\ End("exception")

\* Neither 2xx nor 3xx; the error has diagnostics, too.
UnsuccessfulStatus == At("goto") /\ Idle /\ Read("refusal")

SuccessStatus == At("goto") /\ Idle /\ To("act")

\* Any call into Patchright may raise; but for the timeout of the navigation, that ends it all.
PageRaises == phase = "run" /\ Idle /\ End("exception")

-----------------------------------------------------------------------------
\* Drive the page, let it settle, read it, take the screenshots.

\* _apply_actions, in order.
Act == At("act") /\ Count("act") < plan.actions /\ Do("act") /\ To("act")

\* Mutant: a timeout is a timeout, whoever raised it.
ActRetried == At("act") /\ Count("act") < plan.actions /\ Do("act") /\ End("retry")

\* It raised after it had its effect on the page.
ActRaises == At("act") /\ Count("act") < plan.actions /\ Do("act") /\ End("exception")

\* Mutant: the waits come with the navigation, as in a page nobody drives.
AllActedAndRead == At("act") /\ Count("act") = plan.actions /\ Idle /\ Read("body")

AllActed == At("act") /\ Count("act") = plan.actions /\ Idle /\ To("wait")

\* _apply_waits.
WaitFor == At("wait") /\ Count("wait") < plan.waits /\ Do("wait") /\ To("wait")

AllWaited == At("wait") /\ Count("wait") = plan.waits /\ Idle /\ Read("body")

Reading(what) == phase = "run" /\ stage \in {"read", "reread"} /\ text = what

\* Mutant: the page is read again until it stands still.
NavigatingOn == /\ phase = "run"
                /\ stage \in {"read", "reread"}
                /\ Idle
                /\ To(IF stage = "read" THEN "reread" ELSE "read")

\* _read_content: the page is navigating; wait for its load state and read once more.  A
\* second failure is a FetchError (PageRaises).
Navigating == At("read") /\ Idle /\ To("reread")

BlockRead   == Reading("block") /\ Idle /\ End("retry")
RefusalRead == Reading("refusal") /\ Idle /\ End("exception")

BodyRead == Reading("body") /\ Do("body") /\ To("shoot")

\* The body is empty where a page was due.
BlankRead == Reading("body") /\ Do("body") /\ End("soft")

\* The named screenshots, then the one that has no name.
Shoot == At("shoot") /\ Count("shot") < plan.shots /\ Do("shot") /\ To("shoot")

Deliver == At("shoot") /\ Count("shot") = plan.shots /\ Idle /\ End("response")

OnPage == \/ GotoFails \/ RetryableStatus \/ TerminalStatus \/ UnsuccessfulStatus
          \/ SuccessStatus \/ PageRaises
          \/ Act \/ ActRaises \/ AllActed \/ WaitFor \/ AllWaited
          \/ Navigating \/ BlockRead \/ RefusalRead \/ BodyRead \/ BlankRead
          \/ Shoot \/ Deliver

Call == Attach \/ OnPage \/ (Around /\ UNCHANGED page)

PageNext == Call \/ Message

PageSpec == PageInit /\ [][PageNext]_allVars

\* What Patchright is asked to do has a timeout; a page need not say anything.
PageFairSpec == PageSpec /\ WF_allVars(Call)

-----------------------------------------------------------------------------
\* Every variable keeps to its type, those of the tier included.
PageTypeOK ==
  /\ TypeOK
  /\ plan \in Plan
  /\ stage \in Stages
  /\ text \in Texts
  /\ work \in Seq(Deed)
  /\ console \subseteq 0..idx

\* No scripted action is carried out twice in a call, however many attempts it takes, and
\* none before the one in front of it: a form is not sent again because something later
\* timed out.
ActionsRunOnce ==
  \A i \in 1 .. Len(work) :
     work[i].what = "act" => work[i].n = Cardinality({j \in 1..i : work[j].what = "act"})

Captures == {"body", "shot"}

\* A Response shows one page, the one of its own attempt, after all that was to be done to it:
\* its body and screenshots are taken behind every action and every wait, no message of
\* an earlier attempt's page is in its list, and its recordings are those of its attempt.
ResponseShowsOnePage ==
  outcome = "response" =>
    /\ ResponseHasItsRecordings
    /\ Count("act") = plan.actions /\ Count("wait") = plan.waits
    /\ Count("body") = 1 /\ Count("shot") = plan.shots
    /\ \A i, j \in 1 .. Len(work) :
         work[i].what \in Captures => /\ work[i].of = idx
                                      /\ work[j].what \notin Captures => j < i
    /\ console \subseteq {idx}

\* Cut into its steps the page still is what BrowserTier takes it for, one step with one
\* of four results that comes in the end: attempt() ends.
ImplementsTier == FairSpec

=============================================================================
