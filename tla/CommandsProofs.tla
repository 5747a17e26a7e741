-------------------------- MODULE CommandsProofs --------------------------
(***************************************************************************)
(* For every command line the model admits, every machine and every way a  *)
(* call may end: a command whose checks refuse its arguments does nothing  *)
(* beyond making directories, and its exit code and output tell what       *)
(* happened.                                                               *)
(*                                                                         *)
(* Neither is inductive.  That the checks come first rests on how far they *)
(* have got (Checked); that the exit code is right, on what is known where *)
(* the command decides it: a doctor that has something good to print has   *)
(* seen a browser start or installed one (Staged), and a fetch that prints *)
(* has its response, screenshot written (Called).                          *)
(***************************************************************************)
EXTENDS Commands, SequenceTheorems, TLAPS

\* The checks are passed in their order, and what follows them comes after all of them.
Checked ==
  /\ \A i \in 1 .. at - 1 : argv.value[CheckOf[i]] = "fine"
  /\ stage \in {"call", "print", "install"} => at > Len(CheckOf)
  /\ stage = "check" \/ at <= Len(CheckOf) => effects \subseteq {"dirs"}

\* What has happened by each stage.
Staged ==
  /\ stage = "install" => Is("doctor") /\ ~host.musl
  /\ stage = "print" /\ Is("doctor") =>
       /\ host.chromium /\ ~host.musl
       /\ Launches \/ "install" \in effects
  /\ Is("doctor") /\ host.musl => effects = {}

\* Only fetch calls fetch(), and it prints a response that it got.
Called ==
  /\ stage = "check" \/ ~Is("fetch") => outcome = "pending"
  /\ response.screenshot => outcome = "response"
  /\ stage = "print" /\ Is("fetch") =>
       /\ outcome = "response"
       /\ argv.shotOut /\ response.screenshot => "png" \in effects

IInv == TypeOK /\ Checked /\ Staged /\ Called /\ ExitTellsOutcome

-----------------------------------------------------------------------------

LEMMA CheckFacts ==
  ASSUME argv \in Argv
  PROVE  /\ Len(CheckOf) \in Nat
         /\ Is("doctor") => Len(CheckOf) = 0
  <1>1. argv.command \in DOMAIN Checks
    BY DEF Argv, Commands
  <1> DEFINE doing == argv.command
  <1>2. /\ doing \in {"fetch", "scan", "discover", "devices", "doctor"}
        /\ doing = "fetch" => CheckOf = <<"body", "dirs", "device", "viewport">>
        /\ doing = "scan" => CheckOf = <<"seeds">>
        /\ doing \in {"discover", "devices", "doctor"} => CheckOf = <<>>
    BY <1>1 DEF CheckOf, Checks
  <1> HIDE DEF doing
  <1>3. CASE doing = "fetch"
    <2>1. Len(CheckOf) = 4
      BY <1>2, <1>3
    <2> QED
      BY <1>3, <2>1 DEF Is, doing
  <1>4. CASE doing = "scan"
    <2>1. Len(CheckOf) = 1
      BY <1>2, <1>4
    <2> QED
      BY <1>4, <2>1 DEF Is, doing
  <1>5. CASE doing \in {"discover", "devices", "doctor"}
    BY <1>2, <1>5, EmptySeq
  <1> QED
    BY <1>2, <1>3, <1>4, <1>5

LEMMA LinesAreArgv == Lines \subseteq Argv
  <1>1. AllFine \in [Arguments -> Verdicts]
    BY DEF AllFine, Verdicts
  <1>2. ASSUME NEW command \in Commands PROVE Plain(command) \in Argv
    BY <1>1 DEF Plain, Argv
  <1>3. {"fetch", "scan", "doctor", "discover", "devices"} \subseteq Commands
    BY DEF Commands, Checks
  <1>4. FetchLines \subseteq Argv
    <2> DEFINE Line(v, j, s, o, d, h) ==
                 [Plain("fetch") EXCEPT !.value = v, !.json = j, !.show = s, !.shotOut = o,
                                        !.device = d, !.headed = h]
               Values == Only({"body", "dirs", "device", "viewport"})
               given == {Line(v, j, s, o, d, h) :
                           v \in Values, j \in BOOLEAN, s \in BOOLEAN, o \in BOOLEAN,
                           d \in {"none", "unknown"}, h \in BOOLEAN}
    <2>1. FetchLines = given
      BY DEF FetchLines
    <2>2. ASSUME NEW line \in Argv, NEW v \in Values, NEW j \in BOOLEAN, NEW s \in BOOLEAN,
                 NEW o \in BOOLEAN, NEW d \in {"none", "unknown"}, NEW h \in BOOLEAN
          PROVE  [line EXCEPT !.value = v, !.json = j, !.show = s, !.shotOut = o,
                              !.device = d, !.headed = h] \in Argv
      BY DEF Argv, Only
    <2>3. \A v \in Values, j \in BOOLEAN, s \in BOOLEAN, o \in BOOLEAN,
             d \in {"none", "unknown"}, h \in BOOLEAN : Line(v, j, s, o, d, h) \in Argv
      BY <1>2, <1>3, <2>2
    <2> HIDE DEF Line
    <2>4. given \subseteq Argv
      BY <2>3, SMT
    <2> QED
      BY <2>1, <2>4
  <1>5. ScanLines \subseteq Argv
    <2> DEFINE Line(v, j) == [Plain("scan") EXCEPT !.value = v, !.json = j]
               given == {Line(v, j) : v \in Only({"seeds"}), j \in BOOLEAN}
    <2>1. ScanLines = given
      BY DEF ScanLines
    <2>2. ASSUME NEW line \in Argv, NEW v \in Only({"seeds"}), NEW j \in BOOLEAN
          PROVE  [line EXCEPT !.value = v, !.json = j] \in Argv
      BY DEF Argv, Only
    <2>3. \A v \in Only({"seeds"}), j \in BOOLEAN : Line(v, j) \in Argv
      BY <1>2, <1>3, <2>2
    <2> HIDE DEF Line
    <2>4. given \subseteq Argv
      BY <2>3, SMT
    <2> QED
      BY <2>1, <2>4
  <1>6. DoctorLines \subseteq Argv
    <2> DEFINE Line(f, h) == [Plain("doctor") EXCEPT !.fix = f, !.headed = h]
               given == {Line(f, h) : f \in BOOLEAN, h \in BOOLEAN}
    <2>1. DoctorLines = given
      BY DEF DoctorLines
    <2>2. ASSUME NEW line \in Argv, NEW f \in BOOLEAN, NEW h \in BOOLEAN
          PROVE  [line EXCEPT !.fix = f, !.headed = h] \in Argv
      BY DEF Argv, Only
    <2>3. \A f \in BOOLEAN, h \in BOOLEAN : Line(f, h) \in Argv
      BY <1>2, <1>3, <2>2
    <2> HIDE DEF Line
    <2>4. given \subseteq Argv
      BY <2>3, SMT
    <2> QED
      BY <2>1, <2>4
  <1> QED
    BY <1>2, <1>3, <1>4, <1>5, <1>6 DEF Lines

LEMMA Start == Init => IInv
  <1> SUFFICES ASSUME Init PROVE IInv
    OBVIOUS
  <1> USE DEF Init, Fetch!Init
  <1>1. TypeOK
    <2>1. argv \in Argv
      BY LinesAreArgv
    <2>2. at \in 1 .. Len(CheckOf) + 1
      BY <2>1, CheckFacts
    <2>3. response \in [redirect : BOOLEAN, screenshot : BOOLEAN]
      BY DEF Nothing
    <2>4. tier \in 0..high /\ high \in 0..Patchright /\ outcome \in Fetch!Outcomes
      BY DEF Patchright, Fetch!Outcomes
    <2>5. host \in [musl : BOOLEAN, chromium : BOOLEAN, display : BOOLEAN]
      OBVIOUS
    <2>6. exit \in -1..2 /\ evidence = FALSE
      OBVIOUS
    <2>7. /\ stage \in {"check", "call", "print", "install", "exit"}
          /\ raised \in {"none", "argument", "header", "library"}
          /\ stdout \in {"nothing", "notice", "error", "body", "summary", "cut"}
          /\ effects \subseteq {"dirs", "request", "png", "driver", "browser", "install"}
      OBVIOUS
    <2> HIDE DEF Init
    <2> QED
      BY <2>1, <2>2, <2>3, <2>4, <2>5, <2>7, <2>6 DEF TypeOK
  <1>2. Checked
    BY <1>1, CheckFacts DEF TypeOK, Checked
  <1>3. Staged /\ Called /\ ExitTellsOutcome
    BY DEF Staged, Called, ExitTellsOutcome, Nothing
  <1> QED
    BY <1>1, <1>2, <1>3 DEF IInv

-----------------------------------------------------------------------------
\* The command line.

LEMMA CheckPassesInv == ASSUME IInv, CheckPasses PROVE IInv'
  <1> USE DEF IInv, CheckPasses, Checking, call, said
  <1>1. TypeOK'
    <2>1. at' \in 1 .. Len(CheckOf') + 1
      BY CheckFacts DEF TypeOK, CheckOf
    <2>2. effects' \subseteq {"dirs", "request", "png", "driver", "browser", "install"}
      BY DEF TypeOK, Does
    <2> QED
      BY <2>1, <2>2 DEF TypeOK
  <1>2. Checked'
    <2>1. Len(CheckOf) \in Nat /\ at \in 1 .. Len(CheckOf) + 1 /\ CheckOf' = CheckOf
      BY CheckFacts DEF TypeOK, CheckOf
    <2>2. effects' \subseteq effects \cup {"dirs"}
      BY DEF Does
    <2> QED
      BY <2>1, <2>2 DEF Checked
  <1>3. Staged' /\ Called' /\ ExitTellsOutcome'
    BY CheckFacts DEF TypeOK, Checked, Staged, Called, ExitTellsOutcome, Is, Does, Launches
  <1> QED
    BY <1>1, <1>2, <1>3

LEMMA CheckFailsInv == ASSUME IInv, CheckFails PROVE IInv'
  <1> USE DEF IInv, CheckFails, Checking, call, UsageError, Traceback, Exit
  <1>1. TypeOK'
    <2>1. effects' \subseteq {"dirs", "request", "png", "driver", "browser", "install"}
      BY DEF TypeOK, Does
    <2> QED
      BY <2>1 DEF TypeOK, CheckOf
  <1>2. Checked'
    BY CheckFacts DEF TypeOK, Checked, Does, CheckOf
  <1>3. Staged' /\ Called' /\ ExitTellsOutcome'
    BY CheckFacts DEF TypeOK, Checked, Staged, Called, ExitTellsOutcome, Is, Does, Launches
  <1> QED
    BY <1>1, <1>2, <1>3

LEMMA BeginInv == ASSUME IInv, Begin PROVE IInv'
  <1> USE DEF IInv, Begin, call, said
  <1>1. TypeOK'
    BY DEF TypeOK, CheckOf
  <1>2. Checked'
    BY CheckFacts DEF TypeOK, Checked, CheckOf
  <1>3. Staged' /\ Called' /\ ExitTellsOutcome'
    BY DEF TypeOK, Staged, Called, ExitTellsOutcome, Is, Launches
  <1> QED
    BY <1>1, <1>2, <1>3

-----------------------------------------------------------------------------
\* fetch.

\* The checks are behind every stage that does more.
LEMMA DoneChecking ==
  ASSUME IInv, stage \in {"call", "print", "install"}, UNCHANGED <<argv, at>>,
         stage' # "check"
  PROVE  Checked'
  BY CheckFacts DEF IInv, TypeOK, Checked, CheckOf

\* An exchange of the call, as the contract has it, keeps the call's types.
LEMMA CallTypes ==
  ASSUME TypeOK, Fetch!Next
  PROVE  /\ tier' \in 0..high' /\ high' \in 0..Patchright
         /\ evidence' \in BOOLEAN
         /\ outcome' \in Fetch!Outcomes
  <1> USE DEF TypeOK, Patchright, Fetch!Outcomes, Fetch!Failures, Fetch!InCharge
  <1>1. CASE Fetch!Open
    <2>1. PICK lo \in 1..3, hi \in 1..3 : lo <= hi /\ tier' = lo /\ high' = hi
      BY <1>1 DEF Fetch!Open
    <2>2. tier' \in 0..high' /\ high' \in 0..3
      BY <2>1
    <2> QED
      BY <1>1, <2>2 DEF Fetch!Open
  <1>2. CASE Fetch!Escalate
    <2>1. tier' \in 0..high' /\ high' \in 0..3
      BY <1>2 DEF Fetch!Escalate
    <2> QED
      BY <1>2, <2>1 DEF Fetch!Escalate
  <1>3. CASE Fetch!Learn \/ Fetch!Settle
    BY <1>3 DEF Fetch!Learn, Fetch!Settle
  <1>4. CASE Fetch!Refuse \/ Fetch!GiveUpBlocked
    BY <1>4 DEF Fetch!Refuse, Fetch!GiveUpBlocked
  <1> QED
    BY <1>1, <1>2, <1>3, <1>4 DEF Fetch!Next

LEMMA FetchGoesOnInv == ASSUME IInv, FetchGoesOn PROVE IInv'
  <1> USE DEF IInv, FetchGoesOn, Fetching, said
  <1>1. Fetch!Next /\ outcome' = outcome
    BY DEF Fetch!Next, Fetch!Open, Fetch!Escalate, Fetch!Learn
  <1>2. TypeOK'
    BY <1>1, CallTypes DEF TypeOK, Does, CheckOf
  <1>3. Checked'
    BY DoneChecking
  <1>4. Staged' /\ Called' /\ ExitTellsOutcome'
    BY <1>1 DEF TypeOK, Staged, Called, ExitTellsOutcome, Is, Does, Launches
  <1> QED
    BY <1>2, <1>3, <1>4

LEMMA FetchAnswersInv == ASSUME IInv, FetchAnswers PROVE IInv'
  <1> USE DEF IInv, FetchAnswers, Fetching, said
  <1>1. Fetch!Next
    BY DEF Fetch!Next
  <1>2. TypeOK'
    <2>1. response' \in [redirect : BOOLEAN, screenshot : BOOLEAN]
      OBVIOUS
    <2> QED
      BY <1>1, <2>1, CallTypes DEF TypeOK, Does, CheckOf
  <1>3. Checked'
    BY DoneChecking
  <1>4. Staged' /\ Called' /\ ExitTellsOutcome'
    BY DEF TypeOK, Staged, Called, ExitTellsOutcome, Is, Does, Launches
  <1> QED
    BY <1>2, <1>3, <1>4

LEMMA FetchFailsInv == ASSUME IInv, FetchFails PROVE IInv'
  <1> USE DEF IInv, FetchFails, Fetching, said
  <1>1. Fetch!Next
    BY DEF Fetch!Next
  <1>2. TypeOK'
    BY <1>1, CallTypes DEF TypeOK, Does, CheckOf
  <1>3. Checked'
    BY DoneChecking
  <1>4. Staged' /\ Called' /\ ExitTellsOutcome'
    BY DEF TypeOK, Staged, Called, ExitTellsOutcome, Is, Does, Launches
  <1> QED
    BY <1>2, <1>3, <1>4

LEMMA FetchRaisesInv == ASSUME IInv, FetchRaises PROVE IInv'
  <1> USE DEF IInv, FetchRaises, RaisesUnsent, RaisesSent, Fetching, said
  <1>1. Fetch!Next
    BY DEF Fetch!Next
  <1>2. TypeOK'
    BY <1>1, CallTypes DEF TypeOK, Does, CheckOf
  <1>3. Checked'
    BY DoneChecking
  <1>4. Staged' /\ Called' /\ ExitTellsOutcome'
    BY DEF TypeOK, Staged, Called, ExitTellsOutcome, Is, Does, Launches
  <1> QED
    BY <1>2, <1>3, <1>4

LEMMA FetchErrorPrintedInv == ASSUME IInv, FetchErrorPrinted PROVE IInv'
  <1> USE DEF IInv, FetchErrorPrinted, Fetched, Exit, call
  <1>1. TypeOK'
    BY DEF TypeOK, CheckOf
  <1>2. Checked'
    BY DoneChecking
  <1>3. Staged' /\ Called' /\ ExitTellsOutcome'
    BY DEF TypeOK, Staged, Called, ExitTellsOutcome, Is, Launches
  <1> QED
    BY <1>1, <1>2, <1>3

LEMMA FetchErrorPrintFailsInv == ASSUME IInv, FetchErrorPrintFails PROVE IInv'
  <1> USE DEF IInv, FetchErrorPrintFails, BrokenPipe, Fetched, Exit, call
  <1>1. TypeOK'
    BY DEF TypeOK, CheckOf
  <1>2. Checked'
    BY DoneChecking
  <1>3. Staged' /\ Called' /\ ExitTellsOutcome'
    BY DEF TypeOK, Staged, Called, ExitTellsOutcome, Is, Launches
  <1> QED
    BY <1>1, <1>2, <1>3

LEMMA RaisedPrintedInv == ASSUME IInv, RaisedPrinted PROVE IInv'
  <1> USE DEF IInv, RaisedPrinted, Fetched, UsageError, Traceback, Exit, call
  <1>1. TypeOK'
    BY DEF TypeOK, CheckOf
  <1>2. Checked'
    BY DoneChecking
  <1>3. Staged' /\ Called' /\ ExitTellsOutcome'
    BY DEF TypeOK, Staged, Called, ExitTellsOutcome, Is, Launches
  <1> QED
    BY <1>1, <1>2, <1>3

LEMMA ShotSavedInv == ASSUME IInv, ShotSaved PROVE IInv'
  <1> USE DEF IInv, ShotSaved, Fetched, call, said
  <1>1. TypeOK'
    BY DEF TypeOK, Does, CheckOf
  <1>2. Checked'
    BY DoneChecking
  <1>3. Staged' /\ Called' /\ ExitTellsOutcome'
    BY DEF TypeOK, Staged, Called, ExitTellsOutcome, Is, Does, Launches
  <1> QED
    BY <1>1, <1>2, <1>3

LEMMA ShotFailsInv == ASSUME IInv, ShotFails PROVE IInv'
  <1> USE DEF IInv, ShotFails, Fetched, Traceback, Exit, call
  <1>1. TypeOK'
    BY DEF TypeOK, CheckOf
  <1>2. Checked'
    BY DoneChecking
  <1>3. Staged' /\ Called' /\ ExitTellsOutcome'
    BY DEF TypeOK, Staged, Called, ExitTellsOutcome, Is, Launches
  <1> QED
    BY <1>1, <1>2, <1>3

LEMMA PrintedInv == ASSUME IInv, Printed PROVE IInv'
  <1> USE DEF IInv, Exit, call
  <1>1. /\ stage = "print" /\ stage' = "exit"
        /\ UNCHANGED <<argv, host, at, high, tier, evidence, outcome, raised, response, effects>>
        /\ \/ exit' = 1 /\ stdout' = "nothing" /\ argv.show /\ response.redirect
           \/ exit' = 0 /\ stdout' = "body" /\ argv.show /\ ~response.redirect
           \/ exit' = 0 /\ stdout' = "summary" /\ ~argv.show
    BY DEF Printed, NoBody
  <1>2. TypeOK'
    BY <1>1 DEF TypeOK, CheckOf
  <1>3. Checked'
    BY <1>1, DoneChecking
  <1>4. Staged' /\ Called' /\ ExitTellsOutcome'
    BY <1>1 DEF TypeOK, Staged, Called, ExitTellsOutcome, Is, Launches
  <1> QED
    BY <1>2, <1>3, <1>4

LEMMA PrintFailsInv == ASSUME IInv, PrintFails PROVE IInv'
  <1> USE DEF IInv, PrintFails, BrokenPipe, Exit, call
  <1>1. TypeOK'
    BY DEF TypeOK, CheckOf
  <1>2. Checked'
    BY DoneChecking
  <1>3. Staged' /\ Called' /\ ExitTellsOutcome'
    BY DEF TypeOK, Staged, Called, ExitTellsOutcome, Is, Launches
  <1> QED
    BY <1>1, <1>2, <1>3

-----------------------------------------------------------------------------
\* The commands of one call.

LEMMA ListedInv == ASSUME IInv, Listed PROVE IInv'
  <1> USE DEF IInv, Listed, Asks, call, said
  <1>1. TypeOK'
    BY DEF TypeOK, Does, CheckOf
  <1>2. Checked'
    BY DoneChecking
  <1>3. Staged' /\ Called' /\ ExitTellsOutcome'
    BY DEF TypeOK, Staged, Called, ExitTellsOutcome, Is, Does, Launches
  <1> QED
    BY <1>1, <1>2, <1>3

LEMMA GuardRefusesInv == ASSUME IInv, GuardRefuses PROVE IInv'
  <1> USE DEF IInv, GuardRefuses, Asks, UsageError, Exit, call
  <1>1. TypeOK'
    <2>1. effects' \subseteq {"dirs", "request", "png", "driver", "browser", "install"}
      BY DEF TypeOK, Does
    <2> QED
      BY <2>1 DEF TypeOK, CheckOf
  <1>2. Checked'
    BY DoneChecking
  <1>3. Staged' /\ Called' /\ ExitTellsOutcome'
    BY DEF TypeOK, Staged, Called, ExitTellsOutcome, Is, Does, Launches
  <1> QED
    BY <1>1, <1>2, <1>3

LEMMA LibraryRaisesInv == ASSUME IInv, LibraryRaises PROVE IInv'
  <1> USE DEF IInv, LibraryRaises, Asks, Traceback, Exit, call
  <1>1. TypeOK'
    <2>1. effects' \subseteq {"dirs", "request", "png", "driver", "browser", "install"}
      BY DEF TypeOK, Does
    <2> QED
      BY <2>1 DEF TypeOK, CheckOf
  <1>2. Checked'
    BY DoneChecking
  <1>3. Staged' /\ Called' /\ ExitTellsOutcome'
    BY DEF TypeOK, Staged, Called, ExitTellsOutcome, Is, Does, Launches
  <1> QED
    BY <1>1, <1>2, <1>3

-----------------------------------------------------------------------------
\* doctor.

LEMMA DoctorInv == ASSUME IInv, Doctor PROVE IInv'
  <1> USE DEF IInv, Asks, Exit, call, said
  <1>1. CASE Refused
    <2> USE <1>1 DEF Refused
    <2>1. TypeOK' /\ Checked'
      BY DoneChecking DEF TypeOK, CheckOf
    <2>2. Staged' /\ Called' /\ ExitTellsOutcome'
      BY DEF TypeOK, Staged, Called, ExitTellsOutcome, Is, Launches
    <2> QED
      BY <2>1, <2>2
  <1>2. CASE Healthy
    <2> USE <1>2 DEF Healthy
    <2>1. TypeOK' /\ Checked'
      BY DoneChecking DEF TypeOK, CheckOf, Does
    <2>2. Staged' /\ Called' /\ ExitTellsOutcome'
      BY DEF TypeOK, Staged, Called, ExitTellsOutcome, Is, Does, Launches
    <2> QED
      BY <2>1, <2>2
  <1>3. CASE Missing
    <2> USE <1>3 DEF Missing
    <2>1. TypeOK' /\ Checked'
      BY DoneChecking DEF TypeOK, CheckOf, Does
    <2>2. Staged' /\ Called' /\ ExitTellsOutcome'
      BY DEF TypeOK, Staged, Called, ExitTellsOutcome, Is, Does, Launches
    <2> QED
      BY <2>1, <2>2
  <1>4. CASE Installing
    <2> USE <1>4 DEF Installing
    <2>1. TypeOK' /\ Checked'
      BY DoneChecking DEF TypeOK, CheckOf, Does
    <2>2. Staged' /\ Called' /\ ExitTellsOutcome'
      BY DEF TypeOK, Staged, Called, ExitTellsOutcome, Is, Does, Launches
    <2> QED
      BY <2>1, <2>2
  <1>5. CASE NoticeFails
    <2> USE <1>5 DEF NoticeFails, BrokenPipe
    <2>1. TypeOK' /\ Checked'
      BY DoneChecking DEF TypeOK, CheckOf, Does
    <2>2. Staged' /\ Called' /\ ExitTellsOutcome'
      BY DEF TypeOK, Staged, Called, ExitTellsOutcome, Is, Does, Launches
    <2> QED
      BY <2>1, <2>2
  <1>6. CASE Installed
    <2> USE <1>6 DEF Installed
    <2>1. /\ host' \in [musl : BOOLEAN, chromium : BOOLEAN, display : BOOLEAN]
          /\ host'.chromium /\ host'.musl = host.musl
      BY DEF TypeOK
    <2>2. TypeOK' /\ Checked'
      BY <2>1, DoneChecking DEF TypeOK, CheckOf, Does
    <2>3. Staged' /\ Called' /\ ExitTellsOutcome'
      BY <2>1 DEF TypeOK, Staged, Called, ExitTellsOutcome, Is, Does
    <2> QED
      BY <2>2, <2>3
  <1>7. CASE InstallFails
    <2> USE <1>7 DEF InstallFails
    <2>1. TypeOK' /\ Checked'
      BY DoneChecking DEF TypeOK, CheckOf, Does
    <2>2. Staged' /\ Called' /\ ExitTellsOutcome'
      BY DEF TypeOK, Staged, Called, ExitTellsOutcome, Is, Does, Launches
    <2> QED
      BY <2>1, <2>2
  <1> QED
    BY <1>1, <1>2, <1>3, <1>4, <1>5, <1>6, <1>7 DEF Doctor

-----------------------------------------------------------------------------

LEMMA Inductive == IInv /\ [Next]_vars => IInv'
  <1> SUFFICES ASSUME IInv, [Next]_vars PROVE IInv'
    OBVIOUS
  <1>1. CASE CheckPasses \/ CheckFails \/ Begin
    BY <1>1, CheckPassesInv, CheckFailsInv, BeginInv
  <1>2. CASE FetchCommand
    BY <1>2, FetchGoesOnInv, FetchAnswersInv, FetchFailsInv, FetchRaisesInv,
       FetchErrorPrintedInv, FetchErrorPrintFailsInv, RaisedPrintedInv, ShotSavedInv,
       ShotFailsInv DEF FetchCommand
  <1>3. CASE Doctor
    BY <1>3, DoctorInv
  <1>4. CASE Listed \/ GuardRefuses \/ LibraryRaises
    BY <1>4, ListedInv, GuardRefusesInv, LibraryRaisesInv
  <1>5. CASE Printed \/ PrintFails
    BY <1>5, PrintedInv, PrintFailsInv
  <1>6. CASE UNCHANGED vars
    BY <1>6 DEF vars, call, said, IInv, TypeOK, CheckOf, Checked, Staged, Called, Is,
                Launches, ExitTellsOutcome
  <1> QED
    BY <1>1, <1>2, <1>3, <1>4, <1>5, <1>6 DEF Next

THEOREM Invariance == Spec => []IInv
  BY Start, Inductive, PTL DEF Spec

\* Every variable keeps to its type.
THEOREM TypeCorrect == Spec => []TypeOK
  <1>1. IInv => TypeOK
    BY DEF IInv
  <1> QED
    BY <1>1, Invariance, PTL

\* Arguments that are refused cost nothing but directories; a doctor on musl starts nothing.
THEOREM ChecksFirst == Spec => []ChecksComeFirst
  <1>1. IInv => ChecksComeFirst
    <2> SUFFICES ASSUME IInv PROVE ChecksComeFirst
      OBVIOUS
    <2>1. Len(CheckOf) \in Nat /\ at \in 1 .. Len(CheckOf) + 1
      BY CheckFacts DEF IInv, TypeOK
    <2> QED
      BY <2>1 DEF IInv, Checked, Staged, ChecksComeFirst
  <1> QED
    BY <1>1, Invariance, PTL

\* The exit code and the output tell what happened, of a fetch that failed on a stdout that
\* takes no more as well.
THEOREM ExitTells == Spec => []ExitTellsOutcome
  <1>1. IInv => ExitTellsOutcome
    BY DEF IInv
  <1> QED
    BY <1>1, Invariance, PTL

=============================================================================
