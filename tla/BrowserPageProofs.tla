------------------------- MODULE BrowserPageProofs -------------------------
(***************************************************************************)
(* For any number of attempts, actions, waits and screenshots: what one    *)
(* call of the browser backend's attempt() opens it closes, what it leaves *)
(* on disk belongs to its Response or to a call that raised, and a         *)
(* Response shows one page.                                                *)
(*                                                                         *)
(* The first part is about BrowserTier: which phase an attempt of which    *)
(* result is in (Staged), what runs then (Running), whose the recordings   *)
(* are (Attached, Disk).  The second shows that BrowserPage refines it.    *)
(* The third is about the page: once something has been done to it there   *)
(* is no further attempt (OnePage), so all deeds are of one page, and the  *)
(* stage says which of them have been done (Progress, Shown).              *)
(***************************************************************************)
EXTENDS BrowserPage, FiniteSetTheorems, SequenceTheorems, TLAPS

\* What an attempt has in hand goes with the phase it is in.
Staged ==
  /\ phase = "done" <=> outcome # "pending"
  /\ outcome = "response" => held = "response"
  /\ phase \in {"start", "open", "page", "run"} => held \in {"nothing", "retry"}
  /\ phase = "close" => held # "nothing"
  /\ phase = "discard" => held = "exception"
  /\ phase \in {"video", "har", "next"} => held \in {"response", "retry", "soft"}
  /\ phase = "sleep" => held = "retry"

\* A call raised while the recordings of attempt n were open.
Mishandled(n) == \E m \in mishaps : m.of = n

\* A context is open in its phases, and past them only when something raised.
Running ==
  /\ phase \in {"start", "done"} => up = {}
  /\ phase \notin {"start", "done"} => "driver" \in up
  /\ "context" \in up => \/ phase \in {"page", "run", "close"}
                         \/ phase \in {"discard", "shut"} /\ Mishandled(idx)
                            /\ held = "exception"

\* Recordings are attached one kind after the other, to a Response only.
Attached ==
  /\ held # "response" \/ phase \in {"close", "video"} => attached = {}
  /\ held = "response" =>
       /\ phase = "har" => attached = MineOf("video")
       /\ phase \in {"next", "shut"} => attached = Mine
       /\ phase \in {"video", "har", "next", "shut"} => Mine \subseteq disk

\* The recordings of this attempt that may still lie about.
Open ==
  CASE phase \in {"discard", "video"} -> Mine
    [] phase = "har" /\ held # "response" -> MineOf("har")
    [] phase \in {"har", "next", "shut"} /\ held = "response" -> Mine
    [] phase = "done" /\ outcome = "response" -> attached
    [] OTHER -> {}

Disk == \A f \in disk \ Open : Mishandled(f.of)

TierInv == /\ TypeOK
           /\ Staged
           /\ Running
           /\ Attached
           /\ ResponseHasItsRecordings
           /\ Disk

-----------------------------------------------------------------------------
\* Something has been done to a page of this call only if it is the one in hand, which was
\* opened and will not be opened again.
OnePage ==
  Len(work) > 0 =>
    /\ \A i \in 1..Len(work) : work[i].of = idx
    /\ phase = "run" => \/ stage \in {"act", "wait", "shoot"}
                        \/ stage \in {"read", "reread"} /\ text = "body"
    /\ phase \notin {"start", "open", "page", "sleep"}
    /\ phase # "run" => held \in {"response", "soft", "exception"}

\* The deeds of each kind are numbered.
Numbered ==
  \A i \in 1..Len(work) :
     work[i].n = Cardinality({j \in 1..i : work[j].what = work[i].what})

Captured == \E i \in 1..Len(work) : work[i].what \in Captures

\* What the stage says has been done.
Progress ==
  phase = "run" =>
    /\ stage \in {"act", "wait"} => ~Captured
    /\ stage = "act" => Count("act") <= plan.actions /\ Count("wait") = 0
    /\ stage = "wait" => Count("act") = plan.actions /\ Count("wait") <= plan.waits
    /\ stage \in {"read", "reread"} /\ text = "body" =>
         ~Captured /\ Count("act") = plan.actions /\ Count("wait") = plan.waits
    /\ stage = "shoot" =>
         /\ Count("act") = plan.actions /\ Count("wait") = plan.waits
         /\ Count("body") = 1 /\ Count("shot") <= plan.shots

CapturesLast ==
  \A i, j \in 1..Len(work) :
     work[i].what \in Captures /\ work[j].what \notin Captures => j < i

\* What a Response shows.
Shown ==
  held = "response" => /\ Count("act") = plan.actions /\ Count("wait") = plan.waits
                       /\ Count("body") = 1 /\ Count("shot") = plan.shots

\* The listeners of a page are its own.
Heard == phase \in {"run", "close"} \/ held = "response" => console \subseteq {idx}

\* Between two pages stage is that of a page to come.
Turned == phase # "run" => stage = "goto"

PageInv == /\ PageTypeOK
           /\ OnePage
           /\ Numbered
           /\ Progress
           /\ CapturesLast
           /\ Shown
           /\ Heard
           /\ Turned

-----------------------------------------------------------------------------
\* BrowserTier: the facts its steps need.

LEMMA MineFacts ==
  ASSUME TypeOK
  PROVE  /\ Mine \subseteq File
         /\ \A f \in Mine : f.of = idx
         /\ \A new \in SUBSET Mine : Written(new) \subseteq File /\ new \subseteq Written(new)
                                   /\ Written(new) \subseteq disk \cup new
         /\ Mine = MineOf("video") \cup MineOf("har")
         /\ HarFile \subseteq disk /\ MineOf("har") \cap disk \subseteq HarFile
  BY RecordingsAssumption DEF TypeOK, Mine, MineOf, File, Written, HarFile

LEMMA RaisedFacts ==
  ASSUME NEW name, Raised(name), idx' = idx
  PROVE  /\ Mishandled(idx)'
         /\ \A n : Mishandled(n) => Mishandled(n)'
  <1>1. mishaps \subseteq mishaps' /\ [call |-> name, of |-> idx] \in mishaps'
    BY DEF Raised
  <1>2. [call |-> name, of |-> idx].of = idx'
    OBVIOUS
  <1> QED
    BY <1>1, <1>2 DEF Mishandled

LEMMA DeleteFacts ==
  ASSUME NEW old, Delete(old)
  PROVE  /\ \A f \in disk' : f \in disk
         /\ (\A f \in disk' : f \notin old) \/ Mishandled(idx)'
         /\ \A n : Mishandled(n) => Mishandled(n)'
  <1>1. idx' = idx
    BY DEF Delete, call
  <1>2. CASE disk' = disk \ old /\ UNCHANGED mishaps
    BY <1>2 DEF Mishandled
  <1>3. CASE (\E gone \in SUBSET old : disk' = disk \ gone) /\ Raised("delete")
    BY <1>1, <1>3, RaisedFacts
  <1> QED
    BY <1>2, <1>3 DEF Delete

LEMMA LaunchInv == ASSUME TierInv, Launch PROVE TierInv'
  <1> USE DEF TierInv, Launch, Step, call, files
  <1>1. TypeOK' /\ Staged' /\ Running'
    BY MineFacts DEF TypeOK, Phases, Held, Mishap, Staged, Running, Mishandled
  <1>2. Attached' /\ ResponseHasItsRecordings' /\ Disk'
    BY MineFacts
    DEF Attached, Staged, Mine, MineOf, ResponseHasItsRecordings, Disk, Open, Mishandled
  <1> QED
    BY <1>1, <1>2

LEMMA LaunchFailsInv == ASSUME TierInv, LaunchFails PROVE TierInv'
  <1> USE DEF TierInv, LaunchFails, Step, call, files
  <1>1. TypeOK' /\ Staged' /\ Running'
    BY MineFacts DEF TypeOK, Phases, Held, Mishap, Staged, Running, Mishandled
  <1>2. Attached' /\ ResponseHasItsRecordings' /\ Disk'
    BY MineFacts
    DEF Attached, Staged, Mine, MineOf, ResponseHasItsRecordings, Disk, Open, Mishandled
  <1> QED
    BY <1>1, <1>2

LEMMA OpenContextInv == ASSUME TierInv, OpenContext PROVE TierInv'
  <1> USE DEF TierInv, OpenContext, Step, call, files
  <1>1. TypeOK' /\ Staged' /\ Running'
    BY MineFacts DEF TypeOK, Phases, Held, Mishap, Staged, Running, Mishandled
  <1>2. Attached' /\ ResponseHasItsRecordings' /\ Disk'
    BY MineFacts
    DEF Attached, Staged, Mine, MineOf, ResponseHasItsRecordings, Disk, Open, Mishandled
  <1> QED
    BY <1>1, <1>2

LEMMA OpenFailsInv == ASSUME TierInv, OpenFails PROVE TierInv'
  <1> USE DEF TierInv, OpenFails, Step, call, files
  <1>1. TypeOK' /\ Staged' /\ Running'
    BY MineFacts DEF TypeOK, Phases, Held, Mishap, Staged, Running, Mishandled
  <1>2. Attached' /\ ResponseHasItsRecordings' /\ Disk'
    BY MineFacts
    DEF Attached, Staged, Mine, MineOf, ResponseHasItsRecordings, Disk, Open, Mishandled
  <1> QED
    BY <1>1, <1>2

LEMMA OpenPageInv == ASSUME TierInv, OpenPage PROVE TierInv'
  <1> USE DEF TierInv, OpenPage, Step, call, files
  <1>1. TypeOK' /\ Staged' /\ Running'
    BY MineFacts DEF TypeOK, Phases, Held, Mishap, Staged, Running, Mishandled
  <1>2. Attached' /\ ResponseHasItsRecordings' /\ Disk'
    BY MineFacts
    DEF Attached, Staged, Mine, MineOf, ResponseHasItsRecordings, Disk, Open, Mishandled
  <1> QED
    BY <1>1, <1>2

LEMMA PageFailsInv == ASSUME TierInv, PageFails PROVE TierInv'
  <1> USE DEF TierInv, PageFails, Step, Escape, Raised, call, files
  <1>1. TypeOK' /\ Staged'
    BY MineFacts DEF TypeOK, Phases, Held, Mishap, Staged
  <1>2. Running'
    <2>1. Mishandled(idx)' /\ idx' = idx
      BY RaisedFacts
    <2> QED
      BY <2>1 DEF Running, Staged
  <1>3. Attached' /\ ResponseHasItsRecordings' /\ Disk'
    BY MineFacts
    DEF Attached, Staged, Mine, MineOf, ResponseHasItsRecordings, Disk, Open, Mishandled
  <1> QED
    BY <1>1, <1>2, <1>3

LEMMA RunPageInv ==
  ASSUME TierInv, NEW result \in Held \ {"nothing"}, RunPage(result)
  PROVE  TierInv'
  <1> USE DEF TierInv, RunPage, Step, call, files
  <1>1. TypeOK' /\ Staged' /\ Running'
    BY MineFacts DEF TypeOK, Phases, Held, Mishap, Staged, Running, Mishandled
  <1>2. Attached' /\ ResponseHasItsRecordings' /\ Disk'
    BY MineFacts
    DEF Attached, Staged, Mine, MineOf, ResponseHasItsRecordings, Disk, Open, Mishandled
  <1> QED
    BY <1>1, <1>2

LEMMA CloseContextInv == ASSUME TierInv, CloseContext PROVE TierInv'
  <1> USE DEF TierInv, CloseContext, Step, AfterClose, call, files
  <1>1. TypeOK'
    BY MineFacts DEF TypeOK, Phases, Held, Mishap
  <1>2. Staged'
    <2>1. held \in {"response", "retry", "soft", "exception"}
      BY DEF Staged, TypeOK, Held
    <2> QED
      BY <2>1 DEF Staged
  <1>3. Running'
    BY DEF Running, Mishandled, TypeOK, Staged
  <1>4. Attached' /\ ResponseHasItsRecordings' /\ Disk'
    BY MineFacts
    DEF Attached, Staged, Mine, MineOf, ResponseHasItsRecordings, Disk, Open, Mishandled
  <1> QED
    BY <1>1, <1>2, <1>3, <1>4

LEMMA CloseFailsInv == ASSUME TierInv, CloseFails PROVE TierInv'
  <1> USE DEF TierInv, CloseFails, Step, Raised, call, files
  <1>1. TypeOK' /\ Staged'
    BY MineFacts DEF TypeOK, Phases, Held, Mishap, Staged
  <1>2. Running'
    <2>1. Mishandled(idx)'
      BY RaisedFacts
    <2> QED
      BY <2>1 DEF Running
  <1>3. Attached' /\ ResponseHasItsRecordings' /\ Disk'
    BY MineFacts
    DEF Attached, Staged, Mine, MineOf, ResponseHasItsRecordings, Disk, Open, Mishandled
  <1> QED
    BY <1>1, <1>2, <1>3

LEMMA DiscardInv == ASSUME TierInv, Discard PROVE TierInv'
  <1> USE DEF TierInv, Discard, Step, Delete, Raised, call, files
  <1>1. TypeOK' /\ Staged' /\ Running'
    BY MineFacts DEF TypeOK, Phases, Held, Mishap, Staged, Running, Mishandled
  <1>2. Attached' /\ ResponseHasItsRecordings'
    BY MineFacts DEF Attached, Staged, Mine, MineOf, ResponseHasItsRecordings
  <1>3. Disk'
    <2>1. held # "response" /\ held' = held /\ outcome # "response" /\ outcome' = outcome
      BY DEF Staged, Delete
    <2>2. /\ \A f \in disk' : f \in disk
          /\ (\A f \in disk' : f \notin MineOf("video") \cup HarFile) \/ Mishandled(idx)'
          /\ \A n : Mishandled(n) => Mishandled(n)'
      BY DeleteFacts
    <2>3. \A f \in disk : f \notin Mine => Mishandled(f.of)
      BY <2>1 DEF Disk, Open
    <2>4. \A f \in disk' : f \notin {} => Mishandled(f.of)'
      <3>1. MineOf("har")' = MineOf("har")
        BY DEF MineOf, Mine, Delete
      <3> QED
        BY <2>2, <2>3, <3>1, MineFacts
    <2> QED
      BY <2>1, <2>4 DEF Disk, Open
  <1> QED
    BY <1>1, <1>2, <1>3

LEMMA KeepVideoInv == ASSUME TierInv, KeepVideo PROVE TierInv'
  <1> USE DEF TierInv, KeepVideo, Step, Keep, call, files
  <1>1. TypeOK' /\ Staged' /\ Running'
    BY MineFacts DEF TypeOK, Phases, Held, Mishap, Staged, Running, Mishandled
  <1>2. Attached' /\ ResponseHasItsRecordings' /\ Disk'
    BY MineFacts
    DEF Attached, Staged, Mine, MineOf, ResponseHasItsRecordings, Disk, Open, Mishandled
  <1> QED
    BY <1>1, <1>2

LEMMA PathFailsInv == ASSUME TierInv, PathFails PROVE TierInv'
  <1> USE DEF TierInv, PathFails, Step, Escape, Raised, call, files
  <1>1. TypeOK' /\ Staged' /\ Running'
    BY MineFacts DEF TypeOK, Phases, Held, Mishap, Staged, Running, Mishandled
  <1>2. Attached' /\ ResponseHasItsRecordings'
    BY MineFacts DEF Attached, Staged, Mine, MineOf, ResponseHasItsRecordings
  <1>3. Disk'
    <2>1. Mishandled(idx)' /\ \A n : Mishandled(n) => Mishandled(n)'
      BY RaisedFacts
    <2>2. \A f \in disk : f \in Mine \/ Mishandled(f.of)
      BY DEF Disk, Open
    <2> QED
      BY <2>1, <2>2, MineFacts DEF Disk
  <1> QED
    BY <1>1, <1>2, <1>3

LEMMA DropVideoInv == ASSUME TierInv, DropVideo PROVE TierInv'
  <1> USE DEF TierInv, DropVideo, Step, Delete, Raised, call, files
  <1>1. TypeOK' /\ Staged' /\ Running'
    BY MineFacts DEF TypeOK, Phases, Held, Mishap, Staged, Running, Mishandled
  <1>2. Attached' /\ ResponseHasItsRecordings'
    BY MineFacts DEF Attached, Staged, Mine, MineOf, ResponseHasItsRecordings
  <1>3. Disk'
    <2>1. held # "response" /\ held' = held /\ outcome # "response" /\ outcome' = outcome
      BY DEF Staged, Delete
    <2>2. /\ \A f \in disk' : f \in disk
          /\ (\A f \in disk' : f \notin MineOf("video")) \/ Mishandled(idx)'
          /\ \A n : Mishandled(n) => Mishandled(n)'
      BY DeleteFacts
    <2>3. \A f \in disk : f \notin Mine => Mishandled(f.of)
      BY <2>1 DEF Disk, Open
    <2>4. \A f \in disk' : f \notin MineOf("har")' => Mishandled(f.of)'
      <3>1. MineOf("har")' = MineOf("har")
        BY DEF MineOf, Mine, Delete
      <3> QED
        BY <2>2, <2>3, <3>1, MineFacts
    <2> QED
      BY <2>1, <2>4 DEF Disk, Open
  <1> QED
    BY <1>1, <1>2, <1>3

LEMMA KeepHarInv == ASSUME TierInv, KeepHar PROVE TierInv'
  <1> USE DEF TierInv, KeepHar, Step, Keep, call, files
  <1>1. TypeOK' /\ Staged' /\ Running'
    BY MineFacts DEF TypeOK, Phases, Held, Mishap, Staged, Running, Mishandled
  <1>2. Attached' /\ ResponseHasItsRecordings' /\ Disk'
    BY MineFacts
    DEF Attached, Staged, Mine, MineOf, ResponseHasItsRecordings, Disk, Open, Mishandled
  <1> QED
    BY <1>1, <1>2

LEMMA DropHarInv == ASSUME TierInv, DropHar PROVE TierInv'
  <1> USE DEF TierInv, DropHar, Step, Delete, Raised, call, files
  <1>1. TypeOK' /\ Staged' /\ Running'
    BY MineFacts DEF TypeOK, Phases, Held, Mishap, Staged, Running, Mishandled
  <1>2. Attached' /\ ResponseHasItsRecordings'
    BY MineFacts DEF Attached, Staged, Mine, MineOf, ResponseHasItsRecordings
  <1>3. Disk'
    <2>1. held # "response" /\ held' = held /\ outcome # "response" /\ outcome' = outcome
      BY DEF Staged, Delete
    <2>2. /\ \A f \in disk' : f \in disk
          /\ (\A f \in disk' : f \notin HarFile) \/ Mishandled(idx)'
          /\ \A n : Mishandled(n) => Mishandled(n)'
      BY DeleteFacts
    <2>3. \A f \in disk : f \notin MineOf("har") => Mishandled(f.of)
      BY <2>1 DEF Disk, Open
    <2>4. \A f \in disk' : f \notin {} => Mishandled(f.of)'
      <3>1. MineOf("har")' = MineOf("har")
        BY DEF MineOf, Mine, Delete
      <3> QED
        BY <2>2, <2>3, <3>1, MineFacts
    <2> QED
      BY <2>1, <2>4 DEF Disk, Open
  <1> QED
    BY <1>1, <1>2, <1>3

LEMMA NextAttemptInv == ASSUME TierInv, NextAttempt PROVE TierInv'
  <1> USE DEF TierInv, NextAttempt, Step, call, files
  <1>1. TypeOK' /\ Staged' /\ Running'
    BY MineFacts DEF TypeOK, Phases, Held, Mishap, Staged, Running, Mishandled
  <1>2. Attached' /\ ResponseHasItsRecordings' /\ Disk'
    BY MineFacts
    DEF Attached, Staged, Mine, MineOf, ResponseHasItsRecordings, Disk, Open, Mishandled
  <1> QED
    BY <1>1, <1>2

LEMMA SleepInv == ASSUME TierInv, Sleep PROVE TierInv'
  <1> USE DEF TierInv, Sleep, Step, call, files
  <1>1. TypeOK' /\ Staged' /\ Running'
    BY MineFacts DEF TypeOK, Phases, Held, Mishap, Staged, Running, Mishandled
  <1>2. Attached' /\ ResponseHasItsRecordings' /\ Disk'
    BY MineFacts
    DEF Attached, Staged, Mine, MineOf, ResponseHasItsRecordings, Disk, Open, Mishandled
  <1> QED
    BY <1>1, <1>2

LEMMA ShutInv == ASSUME TierInv, Shut PROVE TierInv'
  <1> USE DEF TierInv, Shut, Step, Conclude, call, files
  <1>1. TypeOK' /\ Staged' /\ Running'
    BY MineFacts DEF TypeOK, Phases, Held, Mishap, Staged, Running, Mishandled
  <1>2. Attached'
    BY MineFacts DEF Attached, Staged, Mine, MineOf
  <1>3. ResponseHasItsRecordings'
    <2> SUFFICES ASSUME held = "response" PROVE attached' = Mine' /\ attached' \subseteq disk'
      BY DEF ResponseHasItsRecordings
    <2>1. attached = Mine /\ Mine \subseteq disk /\ "context" \notin up
      BY DEF Attached, Running
    <2>2. Mine' = Mine
      BY DEF Mine
    <2> QED
      BY <2>1, <2>2 DEF Written
  <1>4. Disk'
    <2>1. CASE held = "response"
      <3>1. attached = Mine /\ "context" \notin up /\ disk' = disk
        BY <2>1 DEF Attached, Running, Written
      <3>2. \A f \in disk \ Mine : Mishandled(f.of)
        BY <2>1 DEF Disk, Open
      <3> QED
        BY <2>1, <3>1, <3>2 DEF Disk, Open, Mishandled
    <2>2. CASE held # "response"
      <3>1. \A f \in disk : Mishandled(f.of)
        BY <2>2 DEF Disk, Open
      <3>2. "context" \in up => Mishandled(idx)
        BY DEF Running
      <3>3. disk' \subseteq disk \/ ("context" \in up /\ disk' \subseteq disk \cup Mine)
        BY MineFacts DEF Written
      <3>4. \A f \in disk' : Mishandled(f.of)
        BY <3>1, <3>2, <3>3, MineFacts
      <3> QED
        BY <3>4 DEF Disk, Mishandled
    <2> QED
      BY <2>1, <2>2
  <1> QED
    BY <1>1, <1>2, <1>3, <1>4

LEMMA ShutFailsInv == ASSUME TierInv, ShutFails PROVE TierInv'
  <1> USE DEF TierInv, ShutFails, Step, Raised, call, files
  <1>1. TypeOK' /\ Staged' /\ Running'
    BY MineFacts DEF TypeOK, Phases, Held, Mishap, Staged, Running, Mishandled
  <1>2. Attached' /\ ResponseHasItsRecordings'
    BY DEF Attached, Staged, Mine, MineOf, ResponseHasItsRecordings
  <1>3. Disk'
    <2>1. Mishandled(idx)' /\ \A n : Mishandled(n) => Mishandled(n)'
      BY RaisedFacts
    <2>2. \A f \in disk : f \in Mine \/ Mishandled(f.of)
      BY DEF Disk, Open
    <2> QED
      BY <2>1, <2>2, MineFacts DEF Disk
  <1> QED
    BY <1>1, <1>2, <1>3

-----------------------------------------------------------------------------
LEMMA TierStep == TierInv /\ [Next]_vars => TierInv'
  <1>1. TierInv /\ UNCHANGED vars => TierInv'
    BY DEF TierInv, vars, call, files, TypeOK, Staged, Running, Mishandled, Attached,
           ResponseHasItsRecordings, Disk, Open, Mine, MineOf
  <1>2. TierInv /\ Next => TierInv'
    BY LaunchInv, LaunchFailsInv, OpenContextInv, OpenFailsInv, OpenPageInv, PageFailsInv,
       RunPageInv, CloseContextInv, CloseFailsInv, DiscardInv, KeepVideoInv, PathFailsInv,
       DropVideoInv, KeepHarInv, DropHarInv, NextAttemptInv, SleepInv, ShutInv, ShutFailsInv
       DEF Next, Around
  <1> QED
    BY <1>1, <1>2

LEMMA TierStart == Init => TierInv
  BY RecordingsAssumption
     DEF Init, TierInv, TypeOK, Phases, Held, Staged, Running, Attached,
         ResponseHasItsRecordings, Disk

\* BrowserPage implements BrowserTier: each step of a page is the tier's RunPage or none of
\* its steps.
LEMMA PageStepsAreTierSteps == [PageNext]_allVars => [Next]_vars
  <1>1. ASSUME Attach PROVE Next
    BY <1>1 DEF Attach, Next
  <1>2. ASSUME NEW result \in Held \ {"nothing"}, End(result) PROVE Next
    BY <1>2 DEF End, Next
  <1>3. ASSUME OnPage PROVE Next \/ UNCHANGED vars
    BY <1>2, <1>3
       DEF OnPage, GotoFails, RetryableStatus, TerminalStatus, UnsuccessfulStatus,
           SuccessStatus, PageRaises, Act, ActRaises, AllActed, WaitFor, AllWaited,
           Navigating, BlockRead, RefusalRead, BodyRead, BlankRead, Shoot, Deliver,
           To, Read, Held
  <1>4. ASSUME Message PROVE UNCHANGED vars
    BY <1>4 DEF Message
  <1> QED
    BY <1>1, <1>3, <1>4 DEF PageNext, Call, Next, allVars

\* Whatever happens on a page, attempt() does what BrowserTier lets it do.
THEOREM Implements == PageSpec => Spec
  <1>1. PageInit => Init
    BY DEF PageInit
  <1> QED
    BY <1>1, PageStepsAreTierSteps, PTL DEF PageSpec, Spec

THEOREM TierInvariance == PageSpec => []TierInv
  BY Implements, TierStart, TierStep, PTL DEF Spec

\* When attempt() is over nothing runs on, whatever raised where.
THEOREM NothingLeftRunning == PageSpec => []NothingRunsOn
  <1>1. TierInv => NothingRunsOn
    BY DEF TierInv, Running, NothingRunsOn
  <1> QED
    BY <1>1, TierInvariance, PTL

\* A recording no Response refers to is of an attempt in which a call raised.
THEOREM NothingLeftBehind == PageSpec => []NoOrphans
  <1>1. TierInv => NoOrphans
    <2> SUFFICES ASSUME TierInv, outcome # "pending",
                        NEW f \in disk \ (IF outcome = "response" THEN attached ELSE {})
                 PROVE  Mishandled(f.of)
      BY DEF NoOrphans, Mishandled
    <2>1. phase = "done"
      BY DEF TierInv, Staged
    <2> QED
      BY <2>1 DEF TierInv, Disk, Open
  <1> QED
    BY <1>1, TierInvariance, PTL

\* The path of a recording is read between the end of its context and that of the driver.
THEOREM InTime == PageSpec => PathsReadInTime
  <1>1. TierInv /\ [Next]_vars
          => [attached' # attached => /\ "context" \notin up
                                      /\ "driver" \in up
                                      /\ attached' \subseteq disk]_vars
    <2> SUFFICES ASSUME TierInv, Next, attached' # attached
                 PROVE  "context" \notin up /\ "driver" \in up /\ attached' \subseteq disk
      BY DEF vars, files
    <2>1. KeepVideo \/ KeepHar
      BY DEF Next, Around, Launch, LaunchFails, OpenContext, OpenFails, OpenPage, PageFails,
             RunPage, CloseContext, CloseFails, Discard, Delete, PathFails, Escape, DropVideo,
             DropHar, NextAttempt, Sleep, Shut, ShutFails, files
    <2> QED
      BY <2>1 DEF TierInv, KeepVideo, KeepHar, Keep, Step, Attached, Running, MineOf
  <1> QED
    BY <1>1, TierInvariance, Implements, PTL DEF Spec, PathsReadInTime

-----------------------------------------------------------------------------
\* The page: counting what was done to it.

Deeds == {"act", "wait", "body", "shot"}

LEMMA WorkFacts ==
  ASSUME PageTypeOK
  PROVE  Len(work) \in Nat /\ \A i \in 1..Len(work) : work[i] \in Deed
  BY LenProperties, ElementOfSeq DEF PageTypeOK

LEMMA CountFacts ==
  ASSUME PageTypeOK, NEW what \in Deeds
  PROVE  /\ IsFiniteSet(Seen(what))
         /\ Count(what) \in Nat
         /\ Count(what) = 0 <=> Seen(what) = {}
  <1>1. IsFiniteSet(1..Len(work)) /\ Seen(what) \subseteq 1..Len(work)
    BY WorkFacts, FS_Interval DEF Seen
  <1>2. IsFiniteSet(Seen(what))
    BY <1>1, FS_Subset
  <1> QED
    BY <1>2, FS_CardinalityType, FS_EmptySet DEF Count

LEMMA PlanFacts ==
  ASSUME PageTypeOK
  PROVE  plan.actions \in Nat /\ plan.waits \in Nat /\ plan.shots \in Nat
  BY PlanAssumption DEF PageTypeOK, Plan

\* To a page that has seen nothing nothing was done.
LEMMA NothingSeen ==
  ASSUME PageTypeOK, Len(work) = 0, NEW what \in Deeds
  PROVE  Count(what) = 0 /\ ~Captured
  BY CountFacts DEF Seen, Captured

\* No body and no screenshot is taken yet.
LEMMA NotCaptured ==
  ASSUME PageTypeOK, OnePage, ~Captured
  PROVE  Count("body") = 0 /\ Count("shot") = 0
  BY CountFacts DEF Seen, Captured, Captures, Deeds

LEMMA SameCount ==
  ASSUME UNCHANGED <<work, idx>>
  PROVE  /\ \A what : Count(what)' = Count(what)
         /\ Captured' = Captured /\ Numbered' = Numbered /\ CapturesLast' = CapturesLast
  BY DEF Count, Seen, Captured, Numbered, CapturesLast

\* A deed is counted once, at its own kind.
LEMMA DoAdds ==
  ASSUME PageTypeOK, UNCHANGED idx, NEW what \in Deeds, Do(what)
  PROVE  /\ work' \in Seq(Deed) /\ Len(work') = Len(work) + 1
         /\ \A i \in 1..Len(work) : work'[i] = work[i]
         /\ work'[Len(work) + 1] = [what |-> what, n |-> Count(what) + 1, of |-> idx]
  <1>1. [what |-> what, n |-> Count(what) + 1, of |-> idx] \in Deed
    BY CountFacts DEF Deed, Deeds, PageTypeOK, TypeOK
  <1> QED
    BY <1>1, AppendProperties DEF Do, PageTypeOK

LEMMA DoCounts ==
  ASSUME PageTypeOK, UNCHANGED idx, NEW what \in Deeds, NEW other \in Deeds, Do(what)
  PROVE  Count(other)' = IF other = what THEN Count(other) + 1 ELSE Count(other)
  <1> DEFINE l == Len(work)
  <1>1. /\ l \in Nat /\ Len(work') = l + 1
        /\ \A i \in 1..l : work'[i] = work[i]
        /\ work'[l + 1].what = what /\ work'[l + 1].of = idx
    <2>1. work'[l + 1] = [what |-> what, n |-> Count(what) + 1, of |-> idx]
      BY DoAdds
    <2> QED
      BY <2>1, WorkFacts, DoAdds
  <1> HIDE DEF l
  <1>2. 1 .. l + 1 = 1..l \cup {l + 1} /\ l + 1 \notin 1..l
    BY <1>1
  <1>3. Seen(other) = {i \in 1..l : work[i].of = idx /\ work[i].what = other}
    BY DEF Seen, l
  <1>4. Seen(other)' = {i \in 1 .. l + 1 : work'[i].of = idx /\ work'[i].what = other}
    BY <1>1 DEF Seen
  <1>5. CASE other = what
    <2>1. Seen(other)' = Seen(other) \cup {l + 1} /\ l + 1 \notin Seen(other)
      BY <1>1, <1>2, <1>3, <1>4, <1>5
    <2> QED
      BY <1>5, <2>1, CountFacts, FS_AddElement DEF Count
  <1>6. CASE other # what
    <2>1. Seen(other)' = Seen(other)
      BY <1>1, <1>2, <1>3, <1>4, <1>6
    <2> QED
      BY <1>6, <2>1 DEF Count
  <1> QED
    BY <1>5, <1>6

\* What is done to the page in hand keeps the history in order; a body or a screenshot is
\* followed by nothing else.
LEMMA DoKeeps ==
  ASSUME PageTypeOK, OnePage, Numbered, CapturesLast, phase = "run", UNCHANGED idx,
         NEW what \in Deeds, Do(what), what \in Captures \/ ~Captured
  PROVE  /\ Len(work') > 0 /\ \A i \in 1..Len(work') : work'[i].of = idx'
         /\ Numbered' /\ CapturesLast'
         /\ Captured' <=> Captured \/ what \in Captures
  <1> DEFINE l == Len(work)
  <1>1. /\ l \in Nat /\ Len(work') = l + 1
        /\ \A i \in 1..l : work'[i] = work[i] /\ work[i].of = idx
        /\ work'[l + 1].what = what /\ work'[l + 1].of = idx
        /\ work'[l + 1].n = Count(what) + 1
    <2>1. work'[l + 1] = [what |-> what, n |-> Count(what) + 1, of |-> idx]
      BY DoAdds
    <2>2. l \in Nat /\ \A i \in 1..l : work[i].of = idx
      BY WorkFacts DEF OnePage
    <2> QED
      BY <2>1, <2>2, DoAdds
  <1>2. \A i \in 1 .. l + 1 : i \in 1..l \/ i = l + 1
    BY <1>1
  <1>3. Numbered'
    <2> SUFFICES ASSUME NEW i \in 1 .. l + 1
                 PROVE  work'[i].n = Cardinality({j \in 1..i : work'[j].what = work'[i].what})
      BY <1>1 DEF Numbered
    <2>1. CASE i \in 1..l
      <3>1. {j \in 1..i : work'[j].what = work'[i].what}
              = {j \in 1..i : work[j].what = work[i].what}
        BY <1>1, <2>1
      <3> QED
        BY <1>1, <2>1, <3>1 DEF Numbered
    <2>2. CASE i = l + 1
      <3>1. {j \in 1..i : work'[j].what = work'[i].what} = Seen(what)'
        BY <1>1, <1>2, <2>2 DEF Seen
      <3>2. Cardinality(Seen(what)') = Count(what) + 1
        BY DoCounts DEF Count
      <3> QED
        BY <1>1, <2>2, <3>1, <3>2
    <2> QED
      BY <1>2, <2>1, <2>2
  <1>4. CapturesLast'
    BY <1>1, <1>2 DEF CapturesLast, Captured
  <1>5. Captured' <=> Captured \/ what \in Captures
    BY <1>1, <1>2 DEF Captured
  <1> QED
    BY <1>1, <1>2, <1>3, <1>4, <1>5

-----------------------------------------------------------------------------
\* Steps of the tier around the page.

LEMMA AroundFacts ==
  ASSUME TierInv, Around
  PROVE  /\ phase # "run" /\ phase' \notin {"run", "close"}
         /\ \/ idx' = idx
            \/ phase = "sleep" /\ phase' = "open" /\ idx' = idx + 1
         /\ held' = held \/ held' = "exception"
         /\ phase' \in {"start", "open", "page", "sleep"} =>
              phase \in {"start", "open", "page", "sleep"} \/ held = "retry"
  <1> USE DEF TierInv, Staged, Step, call
  <1>1. CASE Launch \/ LaunchFails \/ OpenContext \/ OpenFails \/ PageFails
    BY <1>1 DEF Launch, LaunchFails, OpenContext, OpenFails, PageFails, Escape
  <1>2. CASE CloseContext \/ CloseFails \/ Discard
    BY <1>2 DEF CloseContext, CloseFails, Discard, Delete, AfterClose
  <1>3. CASE KeepVideo \/ PathFails \/ DropVideo \/ KeepHar \/ DropHar
    BY <1>3 DEF KeepVideo, PathFails, DropVideo, KeepHar, DropHar, Keep, Delete, Escape
  <1>4. CASE NextAttempt \/ Sleep \/ Shut \/ ShutFails
    BY <1>4 DEF NextAttempt, Sleep, Shut, ShutFails, TypeOK
  <1> QED
    BY <1>1, <1>2, <1>3, <1>4 DEF Around

LEMMA AroundKeeps ==
  ASSUME TierInv, TierInv', PageInv, Around, UNCHANGED page
  PROVE  PageInv'
  <1> USE DEF PageInv, page
  <1>1. PageTypeOK'
    <2>1. idx \in Nat /\ idx' \in {idx, idx + 1} /\ TypeOK'
      BY AroundFacts DEF TierInv, PageTypeOK, TypeOK
    <2> QED
      BY <2>1 DEF PageTypeOK
  <1>2. OnePage' /\ Turned' /\ Progress'
    BY AroundFacts DEF OnePage, Turned, Progress, PageTypeOK, TypeOK, Held
  <1>3. Numbered' /\ CapturesLast'
    BY DEF Numbered, CapturesLast
  <1>4. Shown' /\ Heard'
    <2>1. held' = "response" => held = "response" /\ phase # "sleep"
      BY AroundFacts DEF TierInv, Staged
    <2>2. held' = "response" => idx' = idx
      BY <2>1, AroundFacts
    <2>3. \A what : idx' = idx => Count(what)' = Count(what)
      BY SameCount
    <2> QED
      BY <2>1, <2>2, <2>3, AroundFacts DEF Shown, Heard
  <1> QED
    BY <1>1, <1>2, <1>3, <1>4

LEMMA AttachKeeps ==
  ASSUME TierInv, TierInv', PageInv, Attach
  PROVE  PageInv'
  <1> USE DEF PageInv, Attach, OpenPage, Step, call, files
  <1>1. Len(work) = 0 /\ Len(work) \in Nat
    BY WorkFacts DEF OnePage
  <1>2. PageTypeOK' /\ OnePage' /\ Turned' /\ Heard'
    BY <1>1 DEF PageTypeOK, OnePage, Turned, Heard, TierInv
  <1>3. Numbered' /\ CapturesLast'
    BY DEF Numbered, CapturesLast
  <1>4. Progress' /\ Shown'
    BY DEF Progress, Shown, Turned, TierInv, Staged
  <1> QED
    BY <1>2, <1>3, <1>4

LEMMA MessageKeeps ==
  ASSUME TierInv, PageInv, Message
  PROVE  PageInv'
  <1> USE DEF PageInv, Message, vars, call, files
  <1>1. PageTypeOK'
    <2>1. TypeOK'
      BY DEF TypeOK, PageTypeOK
    <2> QED
      BY <2>1 DEF PageTypeOK, TypeOK
  <1>2. OnePage' /\ Turned' /\ Heard'
    BY DEF OnePage, Turned, Heard, Staged, TierInv
  <1>3. Numbered' /\ CapturesLast' /\ Progress' /\ Shown'
    BY SameCount DEF Progress, Shown
  <1> QED
    BY <1>1, <1>2, <1>3

-----------------------------------------------------------------------------
\* Steps on the page: with or without a deed, to another stage or to the end.

\* The page ends with nothing done to it in that step.
LEMMA IdleEnd ==
  ASSUME TierInv, TierInv', PageInv, NEW result \in Held \ {"nothing"}, End(result), Idle,
         result = "retry" => Len(work) = 0,
         result = "response" =>
           /\ Count("act") = plan.actions /\ Count("wait") = plan.waits
           /\ Count("body") = 1 /\ Count("shot") = plan.shots
  PROVE  PageInv'
  <1> USE DEF PageInv, End, RunPage, Step, call, files, Idle
  <1>1. PageTypeOK' /\ Turned' /\ Heard' /\ Progress'
    BY DEF PageTypeOK, Stages, Turned, Heard, Progress, TierInv
  <1>2. OnePage'
    BY DEF OnePage, Held
  <1>3. Numbered' /\ CapturesLast' /\ Shown'
    BY SameCount DEF Shown
  <1> QED
    BY <1>1, <1>2, <1>3

\* The page ends by the deed.
LEMMA DoEnd ==
  ASSUME TierInv, TierInv', PageInv, NEW result \in {"soft", "exception"}, End(result),
         NEW what \in Deeds, Do(what), what \in Captures \/ ~Captured
  PROVE  PageInv'
  <1> USE DEF PageInv, End, RunPage, Step, call, files
  <1>1. PageTypeOK' /\ Turned' /\ Heard' /\ Progress' /\ Shown'
    BY DoAdds DEF PageTypeOK, Stages, Turned, Heard, Progress, Shown, TierInv
  <1>2. OnePage' /\ Numbered' /\ CapturesLast'
    BY DoKeeps DEF OnePage
  <1> QED
    BY <1>1, <1>2

\* The page goes on; nothing was done to it in that step.
LEMMA IdleOn ==
  ASSUME TierInv, PageInv, phase = "run", stage' \in Stages, text' \in Texts, Idle,
         UNCHANGED <<vars, plan, console>>,
         Len(work) > 0 => \/ stage' \in {"act", "wait", "shoot"}
                          \/ stage' \in {"read", "reread"} /\ text' = "body",
         Progress'
  PROVE  PageInv'
  <1> USE DEF PageInv, vars, call, files, Idle
  <1>1. PageTypeOK'
    <2>1. TypeOK'
      BY DEF PageTypeOK, TypeOK
    <2> QED
      BY <2>1 DEF PageTypeOK
  <1>2. OnePage' /\ Turned' /\ Heard'
    BY DEF OnePage, Turned, Heard
  <1>3. Numbered' /\ CapturesLast' /\ Shown'
    BY SameCount DEF Shown
  <1> QED
    BY <1>1, <1>2, <1>3

\* The page goes on with the deed.
LEMMA DoOn ==
  ASSUME TierInv, PageInv, phase = "run", stage' \in {"act", "wait", "shoot"},
         UNCHANGED <<vars, plan, text, console>>,
         NEW what \in Deeds, Do(what), what \in Captures \/ ~Captured,
         Progress'
  PROVE  PageInv'
  <1> USE DEF PageInv, vars, call, files
  <1>1. PageTypeOK'
    <2>1. TypeOK'
      BY DEF PageTypeOK, TypeOK
    <2> QED
      BY <2>1, DoAdds DEF PageTypeOK, Stages
  <1>2. OnePage' /\ Numbered' /\ CapturesLast'
    BY DoKeeps DEF OnePage
  <1>3. Turned' /\ Heard' /\ Shown'
    BY DEF Turned, Heard, Shown, TierInv, Staged
  <1> QED
    BY <1>1, <1>2, <1>3

LEMMA OnPageKeeps ==
  ASSUME TierInv, TierInv', PageInv, OnPage
  PROVE  PageInv'
  <1> USE DEF PageInv, At
  <1>1. stage = "goto" /\ phase = "run" => Len(work) = 0 /\ ~Captured
    BY WorkFacts, NothingSeen DEF OnePage, Deeds
  <1>2. phase = "run" /\ stage \in {"read", "reread"} /\ text # "body" => Len(work) = 0
    BY WorkFacts DEF OnePage
  <1>3. CASE GotoFails
    BY <1>1, <1>3, IdleEnd DEF GotoFails, Held
  <1>4. CASE RetryableStatus
    BY <1>1, <1>4, IdleOn DEF RetryableStatus, Read, Stages, Texts, Progress
  <1>5. CASE TerminalStatus
    BY <1>5, IdleEnd DEF TerminalStatus, Held
  <1>6. CASE UnsuccessfulStatus
    BY <1>1, <1>6, IdleOn DEF UnsuccessfulStatus, Read, Stages, Texts, Progress
  <1>7. CASE SuccessStatus
    <2>1. Len(work) = 0 /\ ~Captured /\ Count("act") = 0 /\ Count("wait") = 0
      BY <1>1, <1>7, NothingSeen DEF SuccessStatus, Deeds
    <2>2. Progress'
      BY <1>7, <2>1, SameCount, PlanFacts
         DEF SuccessStatus, To, Progress, vars, call, Idle
    <2> QED
      BY <1>7, <2>1, <2>2, IdleOn DEF SuccessStatus, To, Stages, PageTypeOK
  <1>8. CASE PageRaises
    BY <1>8, IdleEnd DEF PageRaises, Held
  <1>9. CASE Act
    BY <1>9, DoOn, DoCounts, DoKeeps, CountFacts, PlanFacts
       DEF Act, To, Progress, Deeds, Captures, vars, call
  <1>10. CASE ActRaises
    BY <1>10, DoEnd DEF ActRaises, Progress, Deeds
  <1>11. CASE AllActed
    BY <1>11, IdleOn, SameCount, PlanFacts
       DEF AllActed, To, Stages, Texts, Progress, PageTypeOK, vars, call, Idle
  <1>12. CASE WaitFor
    BY <1>12, DoOn, DoCounts, DoKeeps, CountFacts, PlanFacts
       DEF WaitFor, To, Progress, Deeds, Captures, vars, call
  <1>13. CASE AllWaited
    BY <1>13, IdleOn, SameCount
       DEF AllWaited, Read, Stages, Texts, Progress, vars, call, Idle
  <1>14. CASE Navigating
    BY <1>14, IdleOn, SameCount
       DEF Navigating, To, Stages, Progress, OnePage, PageTypeOK, vars, call, Idle
  <1>15. CASE BlockRead
    BY <1>2, <1>15, IdleEnd DEF BlockRead, Reading, Held
  <1>16. CASE RefusalRead
    BY <1>16, IdleEnd DEF RefusalRead, Reading, Held
  <1>17. CASE BodyRead
    BY <1>17, DoOn, DoCounts, NotCaptured, PlanFacts
       DEF BodyRead, Reading, To, Progress, Deeds, Captures, vars, call
  <1>18. CASE BlankRead
    BY <1>18, DoEnd DEF BlankRead, Reading, Deeds, Captures
  <1>19. CASE Shoot
    BY <1>19, DoOn, DoCounts, CountFacts, PlanFacts
       DEF Shoot, To, Progress, Deeds, Captures, vars, call
  <1>20. CASE Deliver
    BY <1>20, IdleEnd DEF Deliver, Progress, Held
  <1> QED
    BY <1>3, <1>4, <1>5, <1>6, <1>7, <1>8, <1>9, <1>10, <1>11, <1>12, <1>13, <1>14, <1>15,
       <1>16, <1>17, <1>18, <1>19, <1>20 DEF OnPage

-----------------------------------------------------------------------------
LEMMA PageStart == PageInit => PageInv
  <1> SUFFICES ASSUME PageInit PROVE PageInv
    OBVIOUS
  <1>1. TypeOK /\ work = <<>> /\ Len(work) = 0
    BY TierStart, EmptySeq DEF PageInit, TierInv
  <1>2. PageTypeOK
    BY <1>1, EmptySeq DEF PageInit, PageTypeOK, Stages, Texts
  <1> QED
    BY <1>1, <1>2 DEF PageInit, Init, PageInv, OnePage, Numbered, Progress, CapturesLast,
                      Shown, Heard, Turned

LEMMA PageStep == TierInv /\ TierInv' /\ PageInv /\ [PageNext]_allVars => PageInv'
  <1> SUFFICES ASSUME TierInv, TierInv', PageInv, [PageNext]_allVars PROVE PageInv'
    OBVIOUS
  <1>1. CASE UNCHANGED allVars
    <2>1. UNCHANGED vars /\ UNCHANGED page /\ TypeOK'
      BY <1>1 DEF allVars, TierInv
    <2> QED
      BY <2>1, SameCount DEF vars, call, page, PageInv, PageTypeOK, OnePage, Progress, Shown,
                             Heard, Turned
  <1>2. CASE PageNext
    BY <1>2, AroundKeeps, AttachKeeps, MessageKeeps, OnPageKeeps DEF PageNext, Call
  <1> QED
    BY <1>1, <1>2

THEOREM PageInvariance == PageSpec => []PageInv
  BY PageStart, PageStep, TierInvariance, PTL DEF PageSpec

\* The variables of the page keep to their types.
THEOREM TypeCorrect == PageSpec => []PageTypeOK
  <1>1. PageInv => PageTypeOK
    BY DEF PageInv
  <1> QED
    BY <1>1, PageInvariance, PTL

\* No scripted action is carried out a second time, however many attempts a call takes.
THEOREM ActedOnce == PageSpec => []ActionsRunOnce
  <1>1. PageInv => ActionsRunOnce
    BY DEF PageInv, Numbered, ActionsRunOnce
  <1> QED
    BY <1>1, PageInvariance, PTL

\* A Response shows one page, of its own attempt, after all that was to be done to it.
THEOREM OnePageShown == PageSpec => []ResponseShowsOnePage
  <1>1. TierInv /\ PageInv => ResponseShowsOnePage
    <2> SUFFICES ASSUME TierInv, PageInv, outcome = "response" PROVE ResponseShowsOnePage
      BY DEF ResponseShowsOnePage
    <2>1. held = "response" /\ ResponseHasItsRecordings
      BY DEF TierInv, Staged
    <2>2. \A i \in 1..Len(work) : work[i].of = idx
      BY WorkFacts DEF PageInv, OnePage
    <2> QED
      BY <2>1, <2>2 DEF PageInv, Shown, Heard, CapturesLast, ResponseShowsOnePage
  <1> QED
    BY <1>1, TierInvariance, PageInvariance, PTL

=============================================================================
