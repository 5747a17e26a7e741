--------------------------- MODULE RenderSession ---------------------------
(***************************************************************************)
(* One `with render_session(...)` block (render_session.py): what          *)
(* __enter__ starts, what the block and __exit__ do with it, and what the  *)
(* teardown leaves.  It closes in the order context, browser, driver; the  *)
(* paths of the recordings are read in between.  Every call into           *)
(* Patchright may raise, and the browser may die under the block.          *)
(***************************************************************************)
EXTENDS Naturals

CONSTANT Recordings  \* what may be recorded, subset of {"video", "har"}

ASSUME RecordingsAssumption == Recordings \subseteq {"video", "har"}

VARIABLES
  wanted,    \* the recordings asked for
  phase,     \* where the block is
  up,        \* what runs: driver, browser, context (with its page)
  cause,     \* what ended the block
  disk,      \* the recordings on disk
  paths,     \* which of video_path and har_path are set
  shots,     \* the keys of screenshots: one of the block's own, and "exception"
  mishaps,   \* history: what raised, and was suppressed or could not be helped
  outcome    \* what the with statement came to

vars == <<wanted, phase, up, cause, disk, paths, shots, mishaps, outcome>>

\* The teardown, step by step.
Teardown == {"close", "video", "har", "browser", "stop"}
Phases   == {"start", "launch", "context", "page", "goto", "body", "shot", "done"}
              \cup Teardown

\* refused: no browser on this platform; enter: any other exception of __enter__ but
\* timeout, that of the navigation; body: an exception of the block.
Causes  == {"none", "refused", "enter", "timeout", "body"}
Mishaps == {"died", "shot", "context", "path", "browser", "stop"}

Step(from, to) == phase = from /\ phase' = to

\* Mutant: the driver stops first, and the paths are read from what is left.
StopFirst == [close |-> "browser", browser |-> "stop", stop |-> "video",
              video |-> "har", har |-> "done"]

\* The order of the teardown.
After == [close |-> "video", video |-> "har", har |-> "browser", browser |-> "stop",
          stop |-> "done"]

TearStep(step) == Step(step, After[step])

Verdict == CASE cause = "none"                   -> "normal"
             [] cause \in {"refused", "timeout"} -> "FetchError"
             [] OTHER                            -> "raised"

Ending == outcome' = IF phase' = "done" THEN Verdict ELSE outcome

Suppressed(name) == mishaps' = mishaps \cup {name}

Init == /\ wanted \in SUBSET Recordings
        /\ phase = "start"
        /\ up = {}
        /\ cause = "none"
        /\ disk = {}
        /\ paths = {}
        /\ shots = {}
        /\ mishaps = {}
        /\ outcome = "pending"

-----------------------------------------------------------------------------
\* __enter__.

Start(from, to, part) == /\ Step(from, to)
                         /\ up' = up \cup part
                         /\ UNCHANGED <<wanted, cause, disk, paths, shots, mishaps, outcome>>

StartDriver   == Start("start", "launch", {"driver"})
LaunchBrowser == Start("launch", "context", {"browser"})
NewContext    == Start("context", "page", {"context"})
NewPage       == Start("page", "goto", {})
Goto          == Start("goto", "body", {})

\* The platform gate, before anything runs.
RefuseBrowser == /\ Step("start", "done")
                 /\ cause' = "refused"
                 /\ outcome' = "FetchError"
                 /\ UNCHANGED <<wanted, up, disk, paths, shots, mishaps>>

\* An exception of __enter__ leaves it as it is, with no __exit__ to come.
EnterFails == /\ phase \in {"start", "launch", "context", "page", "goto"}
              /\ phase' = "done"
              /\ cause' = "enter"
              /\ outcome' = "raised"
              /\ UNCHANGED <<wanted, up, disk, paths, shots, mishaps>>

GotoTimesOut == /\ Step("goto", "close")
                /\ cause' = "timeout"
                /\ UNCHANGED <<wanted, up, disk, paths, shots, mishaps, outcome>>

-----------------------------------------------------------------------------
\* The block, and __exit__.

Shot == /\ phase = "body"
        /\ "context" \in up
        /\ shots' = shots \cup {"own"}
        /\ UNCHANGED <<wanted, phase, up, cause, disk, paths, mishaps, outcome>>

\* The browser goes by itself; what it had recorded may be on disk or not.
BrowserDies == /\ phase = "body"
               /\ "browser" \in up
               /\ up' = {"driver"}
               /\ Suppressed("died")
               /\ disk' \in SUBSET wanted
               /\ UNCHANGED <<wanted, phase, cause, paths, shots, outcome>>

LeaveBody == /\ Step("body", "close")
             /\ UNCHANGED <<wanted, up, cause, disk, paths, shots, mishaps, outcome>>

BodyRaises == /\ Step("body", "shot")
              /\ cause' = "body"
              /\ UNCHANGED <<wanted, up, disk, paths, shots, mishaps, outcome>>

SafeShot == /\ Step("shot", "close")
            /\ "context" \in up
            /\ shots' = shots \cup {"exception"}
            /\ UNCHANGED <<wanted, up, cause, disk, paths, mishaps, outcome>>

SafeShotFails == /\ Step("shot", "close")
                 /\ Suppressed("shot")
                 /\ UNCHANGED <<wanted, up, cause, disk, paths, shots, outcome>>

-----------------------------------------------------------------------------
\* _teardown.  What raises is suppressed, and the next step follows.

\* Closing the context of a living browser writes the recordings.
CloseContext == /\ TearStep("close")
                /\ up' = up \ {"context"}
                /\ disk' = IF "context" \in up THEN wanted ELSE disk
                /\ Ending
                /\ UNCHANGED <<wanted, cause, paths, shots, mishaps>>

\* Mutant: nothing is suppressed.
CloseContextRaises == /\ Step("close", "done")
                      /\ Suppressed("context")
                      /\ disk' \in {disk \cup new : new \in SUBSET wanted}
                      /\ outcome' = "raised"
                      /\ UNCHANGED <<wanted, up, cause, paths, shots>>

CloseContextFails == /\ TearStep("close")
                     /\ Suppressed("context")
                     /\ disk' \in {disk \cup new : new \in SUBSET wanted}
                     /\ Ending
                     /\ UNCHANGED <<wanted, up, cause, paths, shots>>

\* Mutant: only a block that ended well gets its video.
ReadVideoPathIfClean == /\ TearStep("video")
                        /\ paths' = paths \cup IF cause = "none" THEN {"video"} \cap wanted
                                                               ELSE {}
                        /\ Ending
                        /\ UNCHANGED <<wanted, up, cause, disk, shots, mishaps>>

ReadVideoPath == /\ TearStep("video")
                 /\ paths' = paths \cup ({"video"} \cap wanted)
                 /\ Ending
                 /\ UNCHANGED <<wanted, up, cause, disk, shots, mishaps>>

ReadVideoPathFails == /\ TearStep("video")
                      /\ "video" \in wanted
                      /\ Suppressed("path")
                      /\ Ending
                      /\ UNCHANGED <<wanted, up, cause, disk, paths, shots>>

\* Mutant: whether or not a HAR was asked for.
SetHarPathAlways == /\ TearStep("har")
                    /\ paths' = paths \cup {"har"}
                    /\ Ending
                    /\ UNCHANGED <<wanted, up, cause, disk, shots, mishaps>>

\* Known from the start, so that nothing can go wrong here.
SetHarPath == /\ TearStep("har")
              /\ paths' = paths \cup ({"har"} \cap wanted)
              /\ Ending
              /\ UNCHANGED <<wanted, up, cause, disk, shots, mishaps>>

\* It takes a context that would not close along, and may still write its recordings.
CloseBrowser == /\ TearStep("browser")
                /\ up' = up \ {"browser", "context"}
                /\ disk' \in IF "context" \in up THEN {disk \cup new : new \in SUBSET wanted}
                                                 ELSE {disk}
                /\ Ending
                /\ UNCHANGED <<wanted, cause, paths, shots, mishaps>>

CloseBrowserFails == /\ TearStep("browser")
                     /\ Suppressed("browser")
                     /\ Ending
                     /\ UNCHANGED <<wanted, up, cause, disk, paths, shots>>

\* A browser that would not close is the driver's child.
StopDriver == /\ TearStep("stop")
              /\ up' = {}
              /\ Ending
              /\ UNCHANGED <<wanted, cause, disk, paths, shots, mishaps>>

StopDriverFails == /\ TearStep("stop")
                   /\ Suppressed("stop")
                   /\ Ending
                   /\ UNCHANGED <<wanted, up, cause, disk, paths, shots>>

Enter == \/ StartDriver \/ LaunchBrowser \/ NewContext \/ NewPage \/ Goto
         \/ RefuseBrowser \/ EnterFails \/ GotoTimesOut

Use == Shot \/ BrowserDies \/ LeaveBody \/ BodyRaises \/ SafeShot \/ SafeShotFails

TearDown == \/ CloseContext \/ CloseContextFails \/ ReadVideoPath \/ ReadVideoPathFails
            \/ SetHarPath \/ CloseBrowser \/ CloseBrowserFails
            \/ StopDriver \/ StopDriverFails

Next == Enter \/ Use \/ TearDown

Spec == Init /\ [][Next]_vars

-----------------------------------------------------------------------------
\* Every variable keeps to its type.
TypeOK ==
  /\ wanted \subseteq Recordings
  /\ phase \in Phases
  /\ up \subseteq {"driver", "browser", "context"}
  /\ cause \in Causes
  /\ disk \subseteq wanted
  /\ paths \subseteq wanted
  /\ shots \subseteq {"own", "exception"}
  /\ mishaps \subseteq Mishaps
  /\ outcome \in {"pending", "normal", "FetchError", "raised"}

TornDown == phase = "done" /\ cause \notin {"refused", "enter"}

\* Whatever ends a session that was entered, and whichever step of the teardown raises,
\* the steps after it are still taken: nothing runs on unless the driver itself will not
\* stop.  A navigation that times out counts as entered.
SessionEndsClean == TornDown /\ "stop" \notin mishaps => up = {}

\* Every recording asked for is on disk and its path is known when the block is over, be
\* it with an exception, provided that Patchright did its part.
RecordingsAreHandedOver ==
  TornDown /\ mishaps \cap {"died", "context", "path"} = {}
    => paths = wanted /\ disk = wanted

\* A path appears after the context that writes the file was closed, or would not close,
\* and while the driver that knows it runs.
PathsReadInTime ==
  [][paths' # paths => /\ "driver" \in up
                       /\ "context" \in up => "context" \in mishaps]_vars

=============================================================================
