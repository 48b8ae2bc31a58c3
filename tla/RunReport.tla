----------------------------- MODULE RunReport -----------------------------
(***************************************************************************)
(* The run of the board tester as its operator and the results directory   *)
(* see it: runner.run with the report writer (reporting/json_report.py),   *)
(* the summary (summary.py) and the exit code.                             *)
(*                                                                         *)
(* Everything between the requests is sequential; what is hard is where it *)
(* can break off.  Preparation, connection, handlers, the acknowledgement  *)
(* of a stop, each file operation and the closing of the port may fail,    *)
(* Ctrl-C may come at any step, and the process may be killed.  What       *)
(* happens on the wire during a test is the subject of TestSession; here a *)
(* test passes, fails or raises.                                           *)
(***************************************************************************)
EXTENDS Naturals, Sequences

CONSTANTS
  TestCount,  \* enabled tests of the configuration
  NoFile,     \* a file that does not exist
  Partial     \* a file that is not a whole report

Statuses == {"passed", "failed", "stopped"}
Reports == [status : {"in_progress", "passed", "failed"},
            validation : {"none", "passed", "failed"},
            results : Seq(Statuses)]

ASSUME ReportConstants ==
  /\ TestCount \in Nat
  /\ NoFile # Partial
  /\ {NoFile, Partial} \cap Reports = {}

VARIABLES
  pc,          \* the step of the main thread
  updating,    \* the update under way: what is recorded, and what follows it
  draft,       \* the report as the update will leave it
  report,      \* the file report_path
  temporary,   \* the temporary file next to it
  has_path,    \* report_path is not None
  validation,  \* "none", "passed" or "failed"
  outcomes,    \* statuses of the tests so far
  completed,   \* component_run_completed
  leaving,     \* how the connection's block is left
  summary,     \* the last FULL TEST line on the terminal
  exit,        \* "none", the exit code, "traceback" or "killed"
  broken_off   \* history: an update failed, or Ctrl-C came outside a test

progress == <<has_path, validation, outcomes, completed>>
files == <<report, temporary>>
vars == <<pc, updating, draft, files, progress, leaving, summary, exit,
          broken_off>>

File == INSTANCE ReportFile

Init ==
  /\ pc = "prepare"
  /\ updating = "none"
  /\ draft = NoFile
  /\ report = NoFile
  /\ temporary = NoFile
  /\ has_path = FALSE
  /\ validation = "none"
  /\ outcomes = << >>
  /\ completed = FALSE
  /\ leaving = "none"
  /\ summary = "none"
  /\ exit = "none"
  /\ broken_off = FALSE
-----------------------------------------------------------------------------
(***************************************************************************)
(* Ways to go on.                                                          *)
(***************************************************************************)
Goto(next) ==
  /\ pc' = next
  /\ UNCHANGED <<leaving, summary, exit>>

\* An exception or a return leaves the block; __exit__ closes the port.
Leave(how) ==
  /\ pc' = "close"
  /\ leaving' = how
  /\ UNCHANGED <<summary, exit>>

Exit(code) ==
  /\ pc' = "exited"
  /\ exit' = code
  /\ UNCHANGED leaving

NoUpdate == UNCHANGED <<updating, draft, files, broken_off>>

(***************************************************************************)
(* print_test_summary: the FULL TEST line.                                 *)
(***************************************************************************)
\* Fault: tests that did not run are not missed.
LabelOfOutcomes(complete) ==
  IF \A i \in DOMAIN outcomes : outcomes[i] = "passed" THEN "PASS" ELSE "FAIL"

Label(complete) ==
  LET all_ran == /\ Len(outcomes) = TestCount
                 /\ \A i \in DOMAIN outcomes : outcomes[i] # "stopped"
      all_passed == \A i \in DOMAIN outcomes : outcomes[i] = "passed"
  IN IF ~complete \/ ~all_ran THEN "NOT COMPLETED"
     ELSE IF all_passed THEN "PASS" ELSE "FAIL"
-----------------------------------------------------------------------------
(***************************************************************************)
(* Configuration, preflight, building and flashing; then the connection    *)
(* and START_TEST.  A failure here leaves no report.                       *)
(***************************************************************************)
Prepare ==
  /\ pc = "prepare"
  /\ \/ Goto("connect")
     \/ \E code \in {"1", "2"} : Exit(code) /\ UNCHANGED summary
  /\ NoUpdate /\ UNCHANGED progress

Connect ==
  /\ pc = "connect"
  /\ \/ Goto("start_test")
     \/ Exit("1") /\ UNCHANGED summary
  /\ NoUpdate /\ UNCHANGED progress

StartTest ==
  /\ pc = "start_test"
  /\ Goto("update") \/ Leave("raised")
  /\ updating' = IF pc' = "update" THEN "create" ELSE "none"
  /\ UNCHANGED <<draft, files, broken_off, progress>>

(***************************************************************************)
(* An update of the report.  The report is read and checked (a new one     *)
(* must not exist yet), the changed report goes to a temporary file that   *)
(* replaces the old one in a single operation, and whatever happens the    *)
(* temporary file is removed.                                              *)
(***************************************************************************)
LastOutcome == outcomes[Len(outcomes)]

Drafted ==
  CASE updating = "create" -> File!Initial
    [] updating = "validate" -> File!Validated(report, validation = "passed")
    [] updating \in {"result", "error", "cancel"} ->
         File!Recorded(report, LastOutcome)
    [] OTHER -> File!Finalized(report)

WriteFails ==
  /\ temporary' = NoFile
  /\ broken_off' = TRUE
  /\ updating' = "none"
  /\ Leave("raised")
  /\ UNCHANGED <<report, draft, progress>>

\* Fault: the results are not looked at.
FailuresOverlooked == FALSE

FailedAlready ==
  /\ updating = "finalize"
  /\ \E i \in DOMAIN report.results : report.results[i] # "passed"

ReadReport ==
  /\ pc = "update"
  /\ \/ /\ ~FailedAlready
        /\ draft' = Drafted
        /\ Goto("open_temporary")
        /\ UNCHANGED <<updating, files, broken_off, progress>>
     \/ WriteFails

\* finalize_component_run leaves a report with failures alone.
KeepFailedReport ==
  /\ pc = "update"
  /\ FailedAlready
  /\ updating' = "none"
  /\ completed' = TRUE
  /\ Leave("returned")
  /\ UNCHANGED <<draft, files, broken_off, has_path, validation, outcomes>>

\* Fault: the report itself is opened for writing.
OpenReport ==
  /\ pc = "open_temporary"
  /\ \/ /\ report' = Partial
        /\ Goto("fill_temporary")
        /\ UNCHANGED <<updating, draft, temporary, broken_off, progress>>
     \/ WriteFails

OpenTemporary ==
  /\ pc = "open_temporary"
  /\ \/ /\ temporary' = Partial
        /\ Goto("fill_temporary")
        /\ UNCHANGED <<updating, draft, report, broken_off, progress>>
     \/ WriteFails

FillTemporary ==
  /\ pc = "fill_temporary"
  /\ \/ /\ temporary' = draft
        /\ Goto("replace_report")
        /\ UNCHANGED <<updating, draft, report, broken_off, progress>>
     \/ WriteFails

(***************************************************************************)
(* What follows an update that succeeded.                                  *)
(***************************************************************************)
AfterUpdate ==
  \/ /\ updating = "create"
     /\ has_path' = TRUE
     /\ Goto("validate")
     /\ UNCHANGED <<validation, outcomes, completed>>
  \/ /\ updating = "validate"
     /\ IF validation = "passed" THEN Goto("test") ELSE Leave("returned")
     /\ UNCHANGED progress
  \/ updating = "result" /\ Goto("test") /\ UNCHANGED progress
  \/ updating = "error" /\ Leave("raised") /\ UNCHANGED progress
  \/ /\ updating = "cancel"
     /\ pc' = "close"
     /\ leaving' = "cancelled"
     /\ summary' = Label(FALSE)
     /\ UNCHANGED <<exit, progress>>
  \/ /\ updating = "finalize"
     /\ completed' = TRUE
     /\ Leave("returned")
     /\ UNCHANGED <<has_path, validation, outcomes>>

ReplaceReport ==
  /\ pc = "replace_report"
  /\ \/ /\ report' = temporary
        /\ temporary' = NoFile
        /\ updating' = "none"
        /\ AfterUpdate
        /\ UNCHANGED <<draft, broken_off>>
     \/ WriteFails
-----------------------------------------------------------------------------
(***************************************************************************)
(* validate_session: the board's identity and capabilities.                *)
(***************************************************************************)
ValidateSession ==
  /\ pc = "validate"
  /\ validation' \in {"passed", "failed"}
  /\ updating' = "validate"
  /\ Goto("update")
  /\ UNCHANGED <<draft, files, broken_off, has_path, outcomes, completed>>

(***************************************************************************)
(* One test: the handler returns a result, a protocol or transport error   *)
(* counts as a failed test and ends the run, Ctrl-C stops the test first.  *)
(***************************************************************************)
TestsLeft == Len(outcomes) < TestCount

\* Fault: the error is raised without its result.
RunTestUnrecorded ==
  /\ pc = "test"
  /\ TestsLeft
  /\ \/ /\ \E outcome \in {"passed", "failed"} :
             outcomes' = Append(outcomes, outcome)
        /\ updating' = "result"
        /\ Goto("update")
     \/ /\ outcomes' = Append(outcomes, "failed")
        /\ updating' = "none"
        /\ Leave("raised")
  /\ UNCHANGED <<draft, files, broken_off, has_path, validation, completed>>

RunTest ==
  /\ pc = "test"
  /\ TestsLeft
  /\ \E outcome \in {"passed", "failed"}, kind \in {"result", "error"} :
       /\ kind = "error" => outcome = "failed"
       /\ outcomes' = Append(outcomes, outcome)
       /\ updating' = kind
  /\ Goto("update")
  /\ UNCHANGED <<draft, files, broken_off, has_path, validation, completed>>

CancelTest ==
  /\ pc = "test"
  /\ TestsLeft
  /\ Goto("stop")
  /\ NoUpdate /\ UNCHANGED progress

\* The acknowledgement comes or not; the result says so.
StopTest ==
  /\ pc = "stop"
  /\ outcomes' = Append(outcomes, "stopped")
  /\ updating' = "cancel"
  /\ Goto("update")
  /\ UNCHANGED <<draft, files, broken_off, has_path, validation, completed>>

FinalizeRun ==
  /\ pc = "test"
  /\ ~TestsLeft
  /\ updating' = "finalize"
  /\ Goto("update")
  /\ UNCHANGED <<draft, files, broken_off, progress>>
-----------------------------------------------------------------------------
(***************************************************************************)
(* The port is closed; an error there takes the place of whatever was      *)
(* leaving the block.                                                      *)
(***************************************************************************)
ClosePort ==
  /\ pc = "close"
  /\ pc' = "closed"
  /\ leaving' \in {leaving, "raised"}
  /\ UNCHANGED <<summary, exit>>
  /\ NoUpdate /\ UNCHANGED progress

\* Fault: the validation is forgotten.
ExitCodeOfRun ==
  CASE leaving = "raised" -> "1"
    [] leaving = "cancelled" -> "130"
    [] leaving = "interrupted" -> "traceback"
    [] OTHER -> "0"

ExitCode ==
  CASE leaving = "raised" -> "1"
    [] leaving = "cancelled" -> "130"
    [] leaving = "interrupted" -> "traceback"
    [] OTHER -> IF validation = "passed" THEN "0" ELSE "1"

Finish ==
  /\ pc = "closed"
  /\ Exit(ExitCode)
  /\ summary' = CASE leaving = "raised" ->
                       IF has_path THEN Label(FALSE) ELSE summary
                  [] leaving = "returned" -> Label(completed)
                  [] OTHER -> summary
  /\ NoUpdate /\ UNCHANGED progress

(***************************************************************************)
(* Ctrl-C outside a handler, or an exception runner.run does not expect    *)
(* (standard input at its end): every finally clause runs, nothing else.   *)
(***************************************************************************)
Running == pc \notin {"exited", "killed"}

InBlock == Running /\ pc \notin {"prepare", "connect", "close", "closed"}

Interrupt ==
  /\ \/ /\ InBlock
        /\ Leave("interrupted")
     \/ /\ Running /\ ~InBlock
        /\ Exit("traceback")
        /\ UNCHANGED summary
  /\ temporary' = NoFile
  /\ updating' = "none"
  /\ broken_off' = TRUE
  /\ UNCHANGED <<draft, report, progress>>

Kill ==
  /\ Running
  /\ pc' = "killed"
  /\ exit' = "killed"
  /\ UNCHANGED <<leaving, summary, updating, draft, files, broken_off, progress>>

Step ==
  \/ Prepare \/ Connect \/ StartTest
  \/ ReadReport \/ KeepFailedReport \/ OpenTemporary \/ FillTemporary \/ ReplaceReport
  \/ ValidateSession \/ RunTest \/ CancelTest \/ StopTest \/ FinalizeRun
  \/ ClosePort \/ Finish

Next == Step \/ Interrupt \/ Kill

Spec == Init /\ [][Next]_vars
-----------------------------------------------------------------------------
ControlOK ==
  /\ pc \in {"prepare", "connect", "start_test", "update", "open_temporary",
             "fill_temporary", "replace_report", "validate", "test", "stop",
             "close", "closed", "exited", "killed"}
  /\ updating \in {"none", "create", "validate", "result", "error", "cancel",
                   "finalize"}
  /\ leaving \in {"none", "returned", "raised", "cancelled", "interrupted"}
  /\ summary \in {"none", "PASS", "FAIL", "NOT COMPLETED"}
  /\ exit \in {"none", "0", "1", "2", "130", "traceback", "killed"}

FilesOK ==
  /\ draft \in Reports \cup {NoFile}
  /\ report \in Reports \cup {NoFile}
  /\ temporary \in Reports \cup {NoFile, Partial}

ProgressOK ==
  /\ has_path \in BOOLEAN
  /\ validation \in {"none", "passed", "failed"}
  /\ outcomes \in Seq(Statuses)
  /\ Len(outcomes) <= TestCount
  /\ completed \in BOOLEAN
  /\ broken_off \in BOOLEAN

TypeOK == ControlOK /\ FilesOK /\ ProgressOK

(***************************************************************************)
(* Whatever broke the run off, a report that says "passed" has a passed    *)
(* result of every enabled test and a passed session validation.           *)
(***************************************************************************)
PassedMeansAllPassed ==
  report # NoFile /\ report.status = "passed"
  => /\ report.validation = "passed"
     /\ Len(report.results) = TestCount
     /\ \A i \in DOMAIN report.results : report.results[i] = "passed"

(***************************************************************************)
(* The terminal and the file do not contradict each other: a FULL TEST     *)
(* PASS or FAIL is what the report says, and the results of the report are *)
(* the outcomes the terminal lists, up to an update that did not happen.   *)
(***************************************************************************)
TerminalAgrees ==
  exit \in {"0", "1", "2", "130"} =>
    /\ summary = "PASS" => report.status = "passed"
    /\ summary = "FAIL" => report.status = "failed"
    /\ summary # "none" /\ ~broken_off => report.results = outcomes

(***************************************************************************)
(* A run that ends with an exit code leaves no report in progress, unless  *)
(* the report could not be written or Ctrl-C came between two tests.       *)
(***************************************************************************)
EndedRunIsDecided ==
  exit \in {"0", "1", "2", "130"} /\ report # NoFile /\ ~broken_off
  => report.status # "in_progress"

(***************************************************************************)
(* Unless the process is killed, no temporary file stays behind.           *)
(***************************************************************************)
NoTemporaryLeft == pc = "exited" => temporary = NoFile

(***************************************************************************)
(* Exit code 0 stands for a run whose every test reached a verdict that is *)
(* in the report; 130 for one whose last test is recorded as stopped.      *)
(***************************************************************************)
ExitCodeIsTrue ==
  /\ exit = "0" => /\ Len(report.results) = TestCount
                 /\ summary \in {"PASS", "FAIL"}
  /\ exit = "130" => /\ report.results # << >>
                   /\ report.results[Len(report.results)] = "stopped"
                   /\ summary = "NOT COMPLETED"

(***************************************************************************)
(* The report file changes as one whole report after the other: temporary  *)
(* files, failures, Ctrl-C and kills do not show.                          *)
(***************************************************************************)
ImplementsReportFile == File!Spec
=============================================================================
