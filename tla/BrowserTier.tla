---------------------------- MODULE BrowserTier ----------------------------
(***************************************************************************)
(* One call of the browser backend's attempt() (patchright_backend.py):    *)
(* what it opens and closes, and what becomes of the recordings.  Each     *)
(* attempt has a browser context of its own; Patchright writes the video   *)
(* and the HAR of a context when that is closed, and only the recordings   *)
(* of the attempt that brought the Response are to stay.  Every call into  *)
(* Patchright may raise.  FetchChain says which replies are retried.       *)
(***************************************************************************)
EXTENDS Integers, FiniteSets

CONSTANTS
  MaxAttempts,   \* RetryPolicy.max_attempts
  Recordings     \* what RenderOptions may ask to record, subset of {"video", "har"}

ASSUME MaxAttemptsAssumption == MaxAttempts \in Int
ASSUME RecordingsAssumption  == Recordings \subseteq {"video", "har"}

VARIABLES
  wanted,    \* the recordings asked for
  phase,     \* where attempt() is
  idx,       \* attempt_idx
  up,        \* what runs: the driver, the browser, the context of this attempt
  held,      \* what the attempt in hand has: an _Attempt or an exception on its way
  disk,      \* the recordings on disk, each with its attempt
  attached,  \* the recordings the Response refers to
  mishaps,   \* history: calls into Patchright that raised while recordings were open
  outcome    \* what attempt() returned or raised

call  == <<wanted, idx, outcome>>
files == <<disk, attached, mishaps>>
vars  == <<call, phase, up, held, files>>

Phases  == {"start", "open", "page", "run", "close", "discard", "video", "har", "next",
            "sleep", "shut", "done"}
Held    == {"nothing", "response", "retry", "soft", "exception"}
Mishap  == [call : {"page", "context", "delete", "path", "browser"}, of : Nat]
File    == [kind : {"video", "har"}, of : Nat]

\* Mutant: attempts are counted from one end and files from the other.
MineBefore == [kind : wanted, of : {idx - 1}]

\* The files the context of this attempt writes.  Videos have names of their own, the HAR
\* is always written to the path the caller chose.
Mine         == [kind : wanted, of : {idx}]
MineOf(kind) == {f \in Mine : f.kind = kind}
HarFile      == {f \in disk : f.kind = "har"}
Written(new) == (IF \E f \in new : f.kind = "har" THEN disk \ HarFile ELSE disk) \cup new

Step(from, to) == phase = from /\ phase' = to
Raised(name)   == mishaps' = mishaps \cup {[call |-> name, of |-> idx]}

Init == /\ wanted \in SUBSET Recordings
        /\ phase = "start"
        /\ idx = 0
        /\ up = {}
        /\ held = "nothing"
        /\ disk = {}
        /\ attached = {}
        /\ mishaps = {}
        /\ outcome = "pending"

-----------------------------------------------------------------------------
\* attempt(): the driver, the browser and the loop.

Launch == /\ Step("start", IF MaxAttempts > 0 THEN "open" ELSE "shut")
          /\ up' = {"driver", "browser"}
          /\ UNCHANGED <<call, held, files>>

\* The driver starts, the browser does not (or the device is unknown): with leaves the driver.
LaunchFails == /\ Step("start", "done")
               /\ outcome' = "raised"
               /\ UNCHANGED <<wanted, idx, up, held, files>>

NextAttempt == /\ Step("next", IF held \in {"response", "soft"} \/ idx + 1 >= MaxAttempts
                               THEN "shut" ELSE "sleep")
               /\ UNCHANGED <<call, up, held, files>>

Sleep == /\ Step("sleep", "open")
         /\ idx' = idx + 1
         /\ UNCHANGED <<wanted, outcome, up, held, files>>

Conclude == outcome' = IF held = "response" THEN "response" ELSE "raised"

\* Mutant: the browser is closed only when the loop ended without an exception.
ShutUnlessRaised == /\ Step("shut", "done")
                    /\ up' = IF held = "exception" THEN up \ {"driver"} ELSE {}
                    /\ Conclude
                    /\ UNCHANGED <<wanted, idx, held, files>>

\* finally: browser.close(), which takes a context that is still open with it and may write
\* what that recorded; then the driver stops, and attempt() returns or raises.
Shut == /\ Step("shut", "done")
        /\ up' = {}
        /\ \E new \in SUBSET (IF "context" \in up THEN Mine ELSE {}) : disk' = Written(new)
        /\ Conclude
        /\ UNCHANGED <<wanted, idx, held, attached, mishaps>>

\* browser.close() raises, and that is what the caller gets instead of the Response; the
\* browser is the driver's child and goes with it.
ShutFails == /\ Step("shut", "done")
             /\ up' = {}
             /\ Raised("browser")
             /\ outcome' = "raised"
             /\ UNCHANGED <<wanted, idx, held, disk, attached>>

-----------------------------------------------------------------------------
\* _attempt_once().

\* An exception, from here on past everything up to the browser's finally.
Escape(name) == held' = "exception" /\ Raised(name) /\ UNCHANGED <<call, up, disk, attached>>

OpenContext == /\ Step("open", "page")
               /\ up' = up \cup {"context"}
               /\ UNCHANGED <<call, held, files>>

OpenFails == Step("open", "shut") /\ held' = "exception" /\ UNCHANGED <<call, up, files>>

OpenPage == Step("page", "run") /\ UNCHANGED <<call, up, held, files>>

\* Headers, page and listeners are set up before the try.
PageFails == Step("page", "shut") /\ Escape("page")

\* _run_page: a Response, a status or timeout to retry, a soft block, or an exception (a
\* terminal status among them).
RunPage(result) == Step("run", "close") /\ held' = result /\ UNCHANGED <<call, up, files>>

AfterClose == IF held = "exception" THEN "discard" ELSE "video"

\* Mutant: the context is left for the browser to close.
CloseNothing == Step("close", AfterClose) /\ UNCHANGED <<call, up, held, files>>

\* finally: context.close() writes the recordings.
CloseContext == /\ Step("close", AfterClose)
                /\ up' = up \ {"context"}
                /\ disk' = Written(Mine)
                /\ UNCHANGED <<call, held, attached, mishaps>>

CloseFails == /\ Step("close", "discard")
              /\ held' = "exception"
              /\ Raised("context")
              /\ \E new \in SUBSET Mine : disk' = Written(new)
              /\ UNCHANGED <<call, up, attached>>

\* _discard_video and _discard_har try once and swallow what goes wrong.
Delete(old) == /\ \/ disk' = disk \ old /\ UNCHANGED mishaps
                  \/ /\ old \cap disk # {}
                     /\ \E gone \in SUBSET old : disk' = disk \ gone
                     /\ Raised("delete")
               /\ UNCHANGED <<call, up, held, attached>>

\* Mutant: only the video is thought of.
DiscardVideoOnly == Step("discard", "shut") /\ Delete(MineOf("video"))

Discard == Step("discard", "shut") /\ Delete(MineOf("video") \cup HarFile)

Keep(new) == /\ held = "response"
             /\ attached' = attached \cup new
             /\ UNCHANGED <<call, up, held, disk, mishaps>>

\* Mutant: the video is whatever lies in the directory.
KeepAnyVideo == Step("video", "har") /\ Keep({f \in disk : f.kind = "video"})

\* _finalize_video: its path for a Response; otherwise the file goes.
KeepVideo == Step("video", "har") /\ Keep(MineOf("video"))

\* There is no video after all, or its path cannot be asked for: past the except clause
\* that discards recordings.
PathFails == /\ Step("video", "shut")
             /\ held = "response"
             /\ "video" \in wanted
             /\ Escape("path")

DropVideo == Step("video", "har") /\ held # "response" /\ Delete(MineOf("video"))

\* _finalize_har.
KeepHar == Step("har", "next") /\ Keep(MineOf("har"))

DropHar == Step("har", "next") /\ held # "response" /\ Delete(HarFile)

\* All but what happens to the page between its opening and the end of _run_page.
Around == \/ Launch \/ LaunchFails
          \/ OpenContext \/ OpenFails \/ PageFails
          \/ CloseContext \/ CloseFails
          \/ Discard \/ KeepVideo \/ PathFails \/ DropVideo \/ KeepHar \/ DropHar
          \/ NextAttempt \/ Sleep \/ Shut \/ ShutFails

Next == Around \/ OpenPage \/ \E result \in Held \ {"nothing"} : RunPage(result)

Spec == Init /\ [][Next]_vars

\* Every call into the browser has a timeout.
FairSpec == Spec /\ WF_vars(Next)

-----------------------------------------------------------------------------
\* Every variable keeps to its type.
TypeOK ==
  /\ wanted \subseteq Recordings
  /\ phase \in Phases
  /\ idx \in Nat
  /\ up \subseteq {"driver", "browser", "context"}
  /\ held \in Held
  /\ disk \subseteq File
  /\ attached \subseteq File
  /\ mishaps \subseteq Mishap
  /\ outcome \in {"pending", "response", "raised"}

\* Whatever raised where, nothing runs on when attempt() is over.
NothingRunsOn == phase = "done" => up = {}

\* A Response refers to the recordings asked for, of the attempt that brought it, and they
\* are on disk.
ResponseHasItsRecordings ==
  outcome = "response" => attached = Mine /\ attached \subseteq disk

\* A recording that no Response refers to is left only by an attempt in which a call into
\* the browser raised while it was open: one that was retried, refused or blocked cleans up
\* after itself, whatever went wrong in the others.
NoOrphans ==
  outcome # "pending" =>
    \A f \in disk \ (IF outcome = "response" THEN attached ELSE {}) :
       \E m \in mishaps : m.of = f.of

\* The path of a recording is read when its context has closed and written it, and while
\* the driver that knows it still runs.
PathsReadInTime ==
  [][attached' # attached => /\ "context" \notin up
                             /\ "driver" \in up
                             /\ attached' \subseteq disk]_vars

=============================================================================
