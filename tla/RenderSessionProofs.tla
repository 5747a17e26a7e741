------------------------ MODULE RenderSessionProofs ------------------------
(***************************************************************************)
(* Whatever may be recorded and whichever calls raise: a session that was  *)
(* entered leaves nothing running, hands over its recordings, and reads    *)
(* their paths while the driver knows them.                                *)
(*                                                                         *)
(* What the properties ask at the end has to be so step by step: what runs *)
(* at each point (Running), and what each step of the teardown leaves      *)
(* behind it, or else a mishap that tells why not (Written, Known).        *)
(***************************************************************************)
EXTENDS RenderSession, TLAPS

Entering == {"start", "launch", "context", "page", "goto"}

\* The steps of the teardown that lie behind the phase.
Closed   == {"video", "har", "browser", "stop"}
Read     == {"har", "browser", "stop"}
AllKnown == {"browser", "stop"}

\* __enter__ starts one after the other; in the block all three run, or the browser died and
\* the driver is left; the teardown closes the context, if it can, and the driver last.
Running ==
  /\ phase = "start"   => up = {}
  /\ phase = "launch"  => up = {"driver"}
  /\ phase = "context" => up = {"driver", "browser"}
  /\ phase \in {"page", "goto"} => up = {"driver", "browser", "context"}
  /\ phase \in {"body", "shot", "close"} =>
       \/ up = {"driver", "browser", "context"}
       \/ up = {"driver"} /\ "died" \in mishaps
  /\ phase \in Teardown => "driver" \in up
  /\ phase \in Closed => ("context" \in up => "context" \in mishaps)
  /\ TornDown => (up = {} \/ "stop" \in mishaps)

\* A session in its block or its teardown was neither refused nor given up in __enter__.
Entered ==
  /\ phase \in Entering => cause = "none"
  /\ phase \in {"body", "shot"} \cup Teardown => cause \notin {"refused", "enter"}

\* The recordings are written when the context closes.
Written ==
  phase \in Closed \/ TornDown => disk = wanted \/ mishaps \cap {"died", "context"} # {}

\* Their paths are known after the steps that read them.
Known ==
  /\ phase \in Read \/ TornDown =>
       ("video" \in wanted => "video" \in paths \/ "path" \in mishaps)
  /\ phase \in AllKnown \/ TornDown => ("har" \in wanted => "har" \in paths)

IInv == TypeOK /\ Running /\ Entered /\ Written /\ Known


LEMMA InitInv == Init => IInv
  BY DEF Init, IInv, TypeOK, Running, Entered, Written, Known, Entering, Closed, Read, AllKnown,
         Teardown, TornDown, Phases, Causes

-----------------------------------------------------------------------------
\* What a step of the teardown does to the phase and to the outcome.
LEMMA TearStepFacts ==
  ASSUME NEW step \in Teardown, TearStep(step)
  PROVE  /\ phase = step
         /\ step = "close"   => phase' = "video"
         /\ step = "video"   => phase' = "har"
         /\ step = "har"     => phase' = "browser"
         /\ step = "browser" => phase' = "stop"
         /\ step = "stop"    => phase' = "done"
  BY DEF TearStep, Step, After, Teardown

LEMMA EndingType ==
  ASSUME outcome \in {"pending", "normal", "FetchError", "raised"}, Ending
  PROVE  outcome' \in {"pending", "normal", "FetchError", "raised"}
  BY DEF Ending, Verdict

\* Starting: one part more runs, or the session ends as refused or given up.
LEMMA EnterInv == IInv /\ Enter => IInv'
  <1> SUFFICES ASSUME IInv, Enter PROVE IInv'
    OBVIOUS
  <1> USE DEF IInv, TypeOK, Running, Entered, Written, Known, Entering, Closed, Read, AllKnown,
              Teardown, TornDown, Phases, Causes, Mishaps
  <1>1. CASE StartDriver
    BY <1>1 DEF StartDriver, Start, Step
  <1>2. CASE LaunchBrowser
    BY <1>2 DEF LaunchBrowser, Start, Step
  <1>3. CASE NewContext
    BY <1>3 DEF NewContext, Start, Step
  <1>4. CASE NewPage
    BY <1>4 DEF NewPage, Start, Step
  <1>5. CASE Goto
    BY <1>5 DEF Goto, Start, Step
  <1>6. CASE RefuseBrowser
    BY <1>6 DEF RefuseBrowser, Step
  <1>7. CASE EnterFails
    BY <1>7 DEF EnterFails
  <1>8. CASE GotoTimesOut
    BY <1>8 DEF GotoTimesOut, Step
  <1> QED
    BY <1>1, <1>2, <1>3, <1>4, <1>5, <1>6, <1>7, <1>8 DEF Enter

\* The block and __exit__ leave alone what runs, unless the browser dies.
LEMMA UseInv == IInv /\ Use => IInv'
  <1> SUFFICES ASSUME IInv, Use PROVE IInv'
    OBVIOUS
  <1> USE DEF IInv, TypeOK, Running, Entered, Written, Known, Entering, Closed, Read, AllKnown,
              Teardown, TornDown, Phases, Causes, Mishaps
  <1>1. CASE Shot
    BY <1>1 DEF Shot
  <1>2. CASE BrowserDies
    BY <1>2 DEF BrowserDies, Suppressed
  <1>3. CASE LeaveBody
    BY <1>3 DEF LeaveBody, Step
  <1>4. CASE BodyRaises
    BY <1>4 DEF BodyRaises, Step
  <1>5. CASE SafeShot
    BY <1>5 DEF SafeShot, Step
  <1>6. CASE SafeShotFails
    BY <1>6 DEF SafeShotFails, Step, Suppressed
  <1> QED
    BY <1>1, <1>2, <1>3, <1>4, <1>5, <1>6 DEF Use

\* Each step of the teardown leaves behind what the steps after it rely on, or its mishap.
LEMMA TearDownInv == IInv /\ TearDown => IInv'
  <1> SUFFICES ASSUME IInv, TearDown PROVE IInv'
    OBVIOUS
  <1> USE DEF IInv, TypeOK, Running, Entered, Written, Known, Entering, Closed, Read, AllKnown,
              Teardown, TornDown, Phases, Causes, Mishaps
  <1>1. CASE CloseContext
    <2>1. phase = "close" /\ phase' = "video"
      BY <1>1, TearStepFacts DEF CloseContext
    <2>2. outcome' \in {"pending", "normal", "FetchError", "raised"}
      BY <1>1, EndingType DEF CloseContext
    <2> QED
      BY <1>1, <2>1, <2>2 DEF CloseContext
  <1>2. CASE CloseContextFails
    <2>1. phase = "close" /\ phase' = "video"
      BY <1>2, TearStepFacts DEF CloseContextFails
    <2>2. outcome' \in {"pending", "normal", "FetchError", "raised"}
      BY <1>2, EndingType DEF CloseContextFails
    <2> QED
      BY <1>2, <2>1, <2>2 DEF CloseContextFails, Suppressed
  <1>3. CASE ReadVideoPath
    <2>1. phase = "video" /\ phase' = "har"
      BY <1>3, TearStepFacts DEF ReadVideoPath
    <2>2. outcome' \in {"pending", "normal", "FetchError", "raised"}
      BY <1>3, EndingType DEF ReadVideoPath
    <2> QED
      BY <1>3, <2>1, <2>2 DEF ReadVideoPath
  <1>4. CASE ReadVideoPathFails
    <2>1. phase = "video" /\ phase' = "har"
      BY <1>4, TearStepFacts DEF ReadVideoPathFails
    <2>2. outcome' \in {"pending", "normal", "FetchError", "raised"}
      BY <1>4, EndingType DEF ReadVideoPathFails
    <2> QED
      BY <1>4, <2>1, <2>2 DEF ReadVideoPathFails, Suppressed
  <1>5. CASE SetHarPath
    <2>1. phase = "har" /\ phase' = "browser"
      BY <1>5, TearStepFacts DEF SetHarPath
    <2>2. outcome' \in {"pending", "normal", "FetchError", "raised"}
      BY <1>5, EndingType DEF SetHarPath
    <2> QED
      BY <1>5, <2>1, <2>2 DEF SetHarPath
  <1>6. CASE CloseBrowser
    <2>1. phase = "browser" /\ phase' = "stop"
      BY <1>6, TearStepFacts DEF CloseBrowser
    <2>2. outcome' \in {"pending", "normal", "FetchError", "raised"}
      BY <1>6, EndingType DEF CloseBrowser
    <2> QED
      BY <1>6, <2>1, <2>2 DEF CloseBrowser
  <1>7. CASE CloseBrowserFails
    <2>1. phase = "browser" /\ phase' = "stop"
      BY <1>7, TearStepFacts DEF CloseBrowserFails
    <2>2. outcome' \in {"pending", "normal", "FetchError", "raised"}
      BY <1>7, EndingType DEF CloseBrowserFails
    <2> QED
      BY <1>7, <2>1, <2>2 DEF CloseBrowserFails, Suppressed
  <1>8. CASE StopDriver
    <2>1. phase = "stop" /\ phase' = "done"
      BY <1>8, TearStepFacts DEF StopDriver
    <2>2. outcome' \in {"pending", "normal", "FetchError", "raised"}
      BY <1>8, EndingType DEF StopDriver
    <2> QED
      BY <1>8, <2>1, <2>2 DEF StopDriver
  <1>9. CASE StopDriverFails
    <2>1. phase = "stop" /\ phase' = "done"
      BY <1>9, TearStepFacts DEF StopDriverFails
    <2>2. outcome' \in {"pending", "normal", "FetchError", "raised"}
      BY <1>9, EndingType DEF StopDriverFails
    <2> QED
      BY <1>9, <2>1, <2>2 DEF StopDriverFails, Suppressed
  <1> QED
    BY <1>1, <1>2, <1>3, <1>4, <1>5, <1>6, <1>7, <1>8, <1>9 DEF TearDown

LEMMA InvStep == IInv /\ [Next]_vars => IInv'
  <1>1. IInv /\ UNCHANGED vars => IInv'
    BY DEF vars, IInv, TypeOK, Running, Entered, Written, Known, TornDown
  <1> QED
    BY <1>1, EnterInv, UseInv, TearDownInv DEF Next

-----------------------------------------------------------------------------
\* The inductive invariant is one.
THEOREM Invariance == Spec => []IInv
  BY InitInv, InvStep, PTL DEF Spec

\* The variables of a session keep to their types.
THEOREM TypeCorrect == Spec => []TypeOK
  <1>1. IInv => TypeOK
    BY DEF IInv
  <1> QED
    BY <1>1, Invariance, PTL

\* Nothing runs on after a session that was entered, unless the driver will not stop.
THEOREM EndsClean == Spec => []SessionEndsClean
  <1>1. IInv => SessionEndsClean
    BY DEF IInv, Running, SessionEndsClean
  <1> QED
    BY <1>1, Invariance, PTL

\* The recordings are on disk and their paths known, provided that Patchright did its part.
THEOREM HandsOver == Spec => []RecordingsAreHandedOver
  <1>1. IInv => RecordingsAreHandedOver
    BY RecordingsAssumption DEF IInv, TypeOK, Written, Known, RecordingsAreHandedOver
  <1> QED
    BY <1>1, Invariance, PTL

\* Paths are read behind the closing of the context and before the driver stops.
THEOREM InTime == Spec => PathsReadInTime
  <1>1. IInv /\ [Next]_vars
          => [paths' # paths => /\ "driver" \in up
                                /\ "context" \in up => "context" \in mishaps]_vars
    <2> SUFFICES ASSUME IInv, Next, paths' # paths
                 PROVE  "driver" \in up /\ ("context" \in up => "context" \in mishaps)
      BY DEF vars
    <2>1. phase \in {"video", "har"}
      <3>1. ReadVideoPath \/ SetHarPath
        BY DEF Next, Enter, Use, TearDown, StartDriver, LaunchBrowser, NewContext, NewPage, Goto,
               Start, RefuseBrowser, EnterFails, GotoTimesOut, Shot, BrowserDies, LeaveBody,
               BodyRaises, SafeShot, SafeShotFails, CloseContext, CloseContextFails,
               ReadVideoPathFails, CloseBrowser, CloseBrowserFails, StopDriver, StopDriverFails
      <3> QED
        BY <3>1 DEF ReadVideoPath, SetHarPath, TearStep, Step
    <2> QED
      BY <2>1 DEF IInv, Running, Teardown, Closed
  <1> QED
    BY <1>1, Invariance, PTL DEF Spec, PathsReadInTime

=============================================================================
