----------------------------- MODULE Commands -----------------------------
(***************************************************************************)
(* The commands of cli.py around one call into the library: fetch,         *)
(* discover, devices, doctor and easter-hunt scan (bulk is BulkPool).  A   *)
(* command checks its command line, calls, prints, and exits with a code   *)
(* that scripts go by.  What fetch() does is FetchContract, any of its     *)
(* steps; what discover() and hunt() do is SiteScan, here one step.        *)
(***************************************************************************)
EXTENDS Integers, Sequences

VARIABLES
  argv,      \* the command and its options
  host,      \* the machine: musl or not, a Chromium, a display
  stage,     \* where the command is
  at,        \* the check it is at
  high, tier, evidence, outcome,  \* the call of fetch(), see FetchContract
  raised,    \* the exception, if the call ended with one that is no FetchError
  response,  \* what the Response has that the command looks at
  effects,   \* history: what the command has done besides printing
  stdout,    \* what it has printed, "cut" if a write failed
  exit       \* its exit code, -1 before it exits

call == <<high, tier, evidence, outcome>>
said == <<stdout, exit>>
vars == <<argv, host, stage, at, call, raised, response, effects, said>>

Patchright == 3

Fetch == INSTANCE FetchContract WITH Tiers <- 1..Patchright

\* The order in which a command looks at its arguments.
Checks == [fetch |-> <<"body", "dirs", "device", "viewport">>, scan |-> <<"seeds">>,
           discover |-> <<>>, devices |-> <<>>, doctor |-> <<>>]

Commands == DOMAIN Checks

\* What a check makes of its argument: fine, a usage error, or an exception nobody expects
\* (a viewport of superscript digits, a seeds file that is not UTF-8).
Verdicts == {"fine", "usage", "crash"}

Arguments == {"body", "dirs", "device", "viewport", "seeds"}
AllFine   == [a \in Arguments |-> "fine"]

\* The options the control flow reads.
Argv == [command : Commands, value : [Arguments -> Verdicts], json : BOOLEAN, show : BOOLEAN,
         shotOut : BOOLEAN, device : {"none", "unknown"}, fix : BOOLEAN, headed : BOOLEAN]

\* A command line that says nothing special; a field per option.
Plain(command) == [command |-> command, value |-> AllFine, json |-> FALSE, show |-> FALSE,
                   shotOut |-> FALSE, device |-> "none", fix |-> FALSE, headed |-> FALSE]

Only(names) == {v \in [Arguments -> Verdicts] : /\ \A a \in Arguments \ names : v[a] = "fine"
                                               /\ v.dirs # "crash"}

FetchLines ==
  {[Plain("fetch") EXCEPT !.value = v, !.json = j, !.show = s, !.shotOut = o, !.device = d,
                          !.headed = h] :
      v \in Only({"body", "dirs", "device", "viewport"}), j \in BOOLEAN, s \in BOOLEAN,
      o \in BOOLEAN, d \in {"none", "unknown"}, h \in BOOLEAN}

\* A url or a file of seeds: one of them, something in it, and http urls only.
ScanLines == {[Plain("scan") EXCEPT !.value = v, !.json = j] :
                v \in Only({"seeds"}), j \in BOOLEAN}

DoctorLines == {[Plain("doctor") EXCEPT !.fix = f, !.headed = h] : f \in BOOLEAN, h \in BOOLEAN}

Lines == FetchLines \cup ScanLines \cup DoctorLines \cup {Plain("discover"), Plain("devices")}

Nothing == [redirect |-> FALSE, screenshot |-> FALSE]

Init == /\ argv \in Lines
        /\ host \in [musl : BOOLEAN, chromium : BOOLEAN, display : BOOLEAN]
        /\ stage = "check"
        /\ at = 1
        /\ Fetch!Init
        /\ raised = "none"
        /\ response = Nothing
        /\ effects = {}
        /\ stdout = "nothing"
        /\ exit = -1

Is(command) == argv.command = command
Does(what)  == effects' = effects \cup {what}

\* The command prints what it has to say and is gone.
Exit(code, printed) == /\ stage' = "exit"
                       /\ exit' = code
                       /\ stdout' = printed

\* typer.BadParameter, which exits 1 if stderr cannot be written; an exception nobody catches.
UsageError == Exit(2, "nothing") \/ Exit(1, "nothing")
Traceback  == Exit(1, "nothing")

\* Nobody reads, or the disk is full: a write to stdout that fails, perhaps half-way.
BrokenPipe == Exit(1, "cut")

-----------------------------------------------------------------------------
\* The command line.

CheckOf == Checks[argv.command]

Checking == stage = "check" /\ at <= Len(CheckOf)

\* _ensure_output_dirs makes the directories, or the first of them; the other checks only
\* look.
CheckPasses == /\ Checking
               /\ argv.value[CheckOf[at]] = "fine"
               /\ at' = at + 1
               /\ IF CheckOf[at] = "dirs" THEN Does("dirs") ELSE UNCHANGED effects
               /\ UNCHANGED <<argv, host, stage, call, raised, response, said>>

CheckFails == /\ Checking
              /\ argv.value[CheckOf[at]] # "fine"
              /\ IF argv.value[CheckOf[at]] = "usage" THEN UsageError ELSE Traceback
              /\ UNCHANGED effects \/ (CheckOf[at] = "dirs" /\ Does("dirs"))
              /\ UNCHANGED <<argv, host, at, call, raised, response>>

\* Mutant: the last argument is looked at where it is used.
BeginBeforeLast == /\ stage = "check"
                   /\ at >= Len(CheckOf)
                   /\ stage' = "call"
                   /\ UNCHANGED <<argv, host, at, call, raised, response, effects, said>>

Begin == /\ stage = "check"
         /\ at > Len(CheckOf)
         /\ stage' = "call"
         /\ UNCHANGED <<argv, host, at, call, raised, response, effects, said>>

-----------------------------------------------------------------------------
\* fetch: the call.

Fetching == Is("fetch") /\ stage = "call" /\ outcome = "pending"

\* The browser tier works on no musl, refuses a preset that is not in its registry, and needs
\* a Chromium and, if headed, a display.
Launches == host.chromium /\ (argv.headed => host.display)
NoPreset == argv.device = "unknown"
Browses  == tier = Patchright => ~host.musl /\ ~NoPreset /\ Launches

\* An exchange that does not settle the call, or the next tier.
FetchGoesOn == /\ Fetching
               /\ \/ (Fetch!Open \/ Fetch!Escalate) /\ UNCHANGED effects
                  \/ Fetch!Learn /\ Browses /\ Does("request")
               /\ UNCHANGED <<argv, host, stage, at, raised, response, said>>

\* Only the browser tier takes a screenshot; a redirect is one that was not followed.
FetchAnswers == /\ Fetching
                /\ Browses
                /\ Fetch!Settle
                /\ outcome' = "response"
                /\ response' \in [redirect : BOOLEAN,
                                  screenshot : IF tier = Patchright THEN BOOLEAN ELSE {FALSE}]
                /\ Does("request")
                /\ UNCHANGED <<argv, host, stage, at, raised, said>>

\* A FetchError: bad arguments, a refusal of the browser tier, a status, a block.
FetchFails == /\ Fetching
              /\ \/ (Fetch!Refuse \/ Fetch!GiveUpBlocked) /\ UNCHANGED effects
                 \/ /\ Fetch!Settle
                    /\ outcome' = "error"
                    /\ UNCHANGED effects \/ (Browses /\ Does("request"))
              /\ UNCHANGED <<argv, host, stage, at, raised, response, said>>

\* Anything else, before a tier has sent anything: a ValueError for an argument (a preset that
\* is unknown to the browser tier, a header that an HTTP tier cannot encode), or what a library
\* raises (a url that httpx does not take, no browser).
RaisesUnsent == /\ raised' \in {"argument", "library"}
                /\ tier = Patchright => ~host.musl /\ (raised' = "argument" => NoPreset)
                /\ UNCHANGED effects

\* Or after it: a ValueError for a Retry-After of digits that float() does not take, or a library
\* (a selector that does not come up in time).
RaisesSent == /\ Browses
              /\ raised' \in {"header", "library"}
              /\ Does("request")

FetchRaises == /\ Fetching
               /\ Fetch!Settle
               /\ outcome' = "raw"
               /\ RaisesUnsent \/ RaisesSent
               /\ UNCHANGED <<argv, host, stage, at, response, said>>

Fetched == Is("fetch") /\ stage = "call" /\ outcome # "pending"

\* Mutant: the error goes to stderr, --json or not.
FetchErrorToStderr == /\ Fetched
                      /\ outcome \in {"error", "block"}
                      /\ Exit(1, "nothing")
                      /\ UNCHANGED <<argv, host, at, call, raised, response, effects>>

\* except FetchError: a line of JSON on stdout, or one of text on stderr.
FetchErrorPrinted == /\ Fetched
                     /\ outcome \in {"error", "block"}
                     /\ Exit(1, IF argv.json THEN "error" ELSE "nothing")
                     /\ UNCHANGED <<argv, host, at, call, raised, response, effects>>

FetchErrorPrintFails == /\ Fetched
                        /\ outcome \in {"error", "block"}
                        /\ argv.json
                        /\ BrokenPipe
                        /\ UNCHANGED <<argv, host, at, call, raised, response, effects>>

\* except ValueError; nothing catches the rest.
RaisedPrinted == /\ Fetched
                 /\ outcome = "raw"
                 /\ IF raised \in {"argument", "header"} THEN UsageError ELSE Traceback
                 /\ UNCHANGED <<argv, host, at, call, raised, response, effects>>

\* Mutant: a screenshot that cannot be written is passed over.
ShotSkipped == /\ Fetched
               /\ outcome = "response"
               /\ stage' = "print"
               /\ UNCHANGED <<argv, host, at, call, raised, response, effects, said>>

\* The screenshot is written where it was asked for, if there is one.
ShotSaved == /\ Fetched
             /\ outcome = "response"
             /\ IF argv.shotOut /\ response.screenshot THEN Does("png") ELSE UNCHANGED effects
             /\ stage' = "print"
             /\ UNCHANGED <<argv, host, at, call, raised, response, said>>

\* The path is a directory, the disk is full.
ShotFails == /\ Fetched
             /\ argv.shotOut /\ response.screenshot
             /\ Traceback
             /\ UNCHANGED <<argv, host, at, call, raised, response, effects>>

NoBody == argv.show /\ response.redirect

\* The body, if asked for, but for a redirect that has none; the summary otherwise.
Printed == /\ stage = "print"
           /\ IF NoBody THEN Exit(1, "nothing")
                        ELSE Exit(0, IF argv.show THEN "body" ELSE "summary")
           /\ UNCHANGED <<argv, host, at, call, raised, response, effects>>

PrintFails == /\ stage = "print"
              /\ ~NoBody
              /\ BrokenPipe
              /\ UNCHANGED <<argv, host, at, call, raised, response, effects>>

FetchCommand == \/ FetchGoesOn \/ FetchAnswers \/ FetchFails \/ FetchRaises
                \/ FetchErrorPrinted \/ FetchErrorPrintFails \/ RaisedPrinted
                \/ ShotSaved \/ ShotFails

-----------------------------------------------------------------------------
\* discover, scan and devices: one call, and what it returned.

Asks(command) == Is(command) /\ stage = "call"

Listed == /\ Asks("discover") \/ Asks("scan") \/ Asks("devices")
          /\ Does(IF Is("devices") THEN "driver" ELSE "request")
          /\ stage' = "print"
          /\ UNCHANGED <<argv, host, at, call, raised, response, said>>

\* The guard refuses a derived url, or cannot take one apart, before or after requests were
\* sent: a ValueError.
GuardRefuses == /\ Asks("discover") \/ Asks("scan")
                /\ UNCHANGED effects \/ Does("request")
                /\ UsageError
                /\ UNCHANGED <<argv, host, at, call, raised, response>>

LibraryRaises == /\ Asks("discover") \/ Asks("scan") \/ Asks("devices")
                 /\ UNCHANGED effects \/ Does(IF Is("devices") THEN "driver" ELSE "request")
                 /\ Traceback
                 /\ UNCHANGED <<argv, host, at, call, raised, response>>

-----------------------------------------------------------------------------
\* doctor.

Refused == /\ Asks("doctor")
           /\ host.musl
           /\ Exit(1, "nothing")
           /\ UNCHANGED <<argv, host, at, call, raised, response, effects>>

\* Mutant: the probe is headless, whatever was asked for.
HealthyHeadless == /\ Asks("doctor")
                   /\ ~host.musl
                   /\ host.chromium
                   /\ Does("browser")
                   /\ stage' = "print"
                   /\ UNCHANGED <<argv, host, at, call, raised, response, said>>

Healthy == /\ Asks("doctor")
           /\ ~host.musl
           /\ Launches
           /\ Does("browser")
           /\ stage' = "print"
           /\ UNCHANGED <<argv, host, at, call, raised, response, said>>

\* Any exception of the probe reads as a browser that is missing.
Missing == /\ Asks("doctor")
           /\ ~host.musl
           /\ ~argv.fix
           /\ Does("browser")
           /\ Exit(1, "nothing")
           /\ UNCHANGED <<argv, host, at, call, raised, response>>

\* It says that it installs one before it does.
Installing == /\ Asks("doctor")
              /\ ~host.musl
              /\ argv.fix
              /\ Does("browser")
              /\ stage' = "install"
              /\ stdout' = "notice"
              /\ UNCHANGED <<argv, host, at, call, raised, response, exit>>

NoticeFails == /\ Asks("doctor")
               /\ ~host.musl
               /\ argv.fix
               /\ Does("browser")
               /\ BrokenPipe
               /\ UNCHANGED <<argv, host, at, call, raised, response>>

\* It does not probe again.
Installed == /\ stage = "install"
             /\ host' = [host EXCEPT !.chromium = TRUE]
             /\ Does("install")
             /\ stage' = "print"
             /\ UNCHANGED <<argv, at, call, raised, response, said>>

InstallFails == /\ stage = "install"
                /\ Does("install")
                /\ Exit(1, "notice")
                /\ UNCHANGED <<argv, host, at, call, raised, response>>

Doctor == Refused \/ Healthy \/ Missing \/ Installing \/ NoticeFails \/ Installed \/ InstallFails

Next == \/ CheckPasses \/ CheckFails \/ Begin
        \/ FetchCommand \/ Doctor
        \/ Listed \/ GuardRefuses \/ LibraryRaises
        \/ Printed \/ PrintFails

Spec == Init /\ [][Next]_vars

-----------------------------------------------------------------------------
\* Every variable keeps to its type.
TypeOK ==
  /\ argv \in Argv
  /\ host \in [musl : BOOLEAN, chromium : BOOLEAN, display : BOOLEAN]
  /\ stage \in {"check", "call", "print", "install", "exit"}
  /\ at \in 1 .. Len(CheckOf) + 1
  /\ tier \in 0..high /\ high \in 0..Patchright
  /\ evidence \in BOOLEAN
  /\ outcome \in Fetch!Outcomes
  /\ raised \in {"none", "argument", "header", "library"}
  /\ response \in [redirect : BOOLEAN, screenshot : BOOLEAN]
  /\ effects \subseteq {"dirs", "request", "png", "driver", "browser", "install"}
  /\ stdout \in {"nothing", "notice", "error", "body", "summary", "cut"}
  /\ exit \in -1..2

\* A command line that its own checks refuse costs no request, whichever check it is, and
\* nothing but directories is left of it; doctor touches no browser where there can be none.
ChecksComeFirst ==
  /\ (\E i \in 1..Len(CheckOf) : argv.value[CheckOf[i]] # "fine") => effects \subseteq {"dirs"}
  /\ Is("doctor") /\ host.musl => effects = {}

\* The exit code and the output agree with each other and with what happened: 0 means that
\* all of the answer was delivered, screenshot included; a failed fetch exits 1 and, with
\* --json, says why on stdout unless stdout took no more; a usage error prints no result; and
\* doctor exits 0 only if a Chromium started as it was asked to, or was just installed.
ExitTellsOutcome ==
  stage = "exit" =>
    /\ exit = 0 <=> stdout \in {"body", "summary"}
    /\ exit = 2 => stdout = "nothing"
    /\ stdout = "error" => outcome \in {"error", "block"}
    /\ Is("fetch") /\ exit = 0 =>
         /\ outcome = "response"
         /\ argv.show <=> stdout = "body"
         /\ argv.show => ~response.redirect
         /\ argv.shotOut /\ response.screenshot => "png" \in effects
    /\ outcome \in {"error", "block"} =>
         /\ exit = 1
         /\ IF argv.json THEN stdout \in {"error", "cut"} ELSE stdout = "nothing"
    /\ Is("doctor") /\ exit = 0 =>
         /\ host.chromium /\ ~host.musl
         /\ Launches \/ "install" \in effects

-----------------------------------------------------------------------------
\* What a comment says and the code does not do.

\* cli.py:445: what exits 2 is a "bad argument [...] -- not a fetch failure".
UsageErrorIsTheCallers == Is("fetch") /\ exit = 2 => raised # "header"

=============================================================================
