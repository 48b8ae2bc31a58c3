-------------------------- MODULE RunReport_proofs --------------------------
(***************************************************************************)
(* What the report of a run promises, for every number of tests; and that  *)
(* a run with its preparation in full (BoardRun) is such a run, and its    *)
(* report about the board it programmed, for every bench.                  *)
(***************************************************************************)
EXTENDS BoardRun, FiniteSetTheorems, TLAPS

Writing == {"open_temporary", "fill_temporary", "replace_report"}
Updating == {"update"} \cup Writing
Testing == {"test", "stop"}

(***************************************************************************)
(* The report on disk as the step of the main thread finds it.             *)
(***************************************************************************)
Undecided(results) ==
  \A i \in DOMAIN results : results[i] # "stopped"

\* The report of a run in its tests, with the given outcomes.
InTests(results) ==
  /\ report \in Reports
  /\ report.validation = "passed"
  /\ report.results = results
  /\ Undecided(results)

\* What is on disk before an update of each kind.
Before ==
  /\ updating = "create" => report = NoFile /\ outcomes = << >>
  /\ updating = "validate" =>
       report = File!Initial /\ outcomes = << >> /\ validation # "none"
  /\ updating \in {"result", "error", "cancel"} =>
       \E results \in Seq(Statuses), status \in Statuses :
         /\ outcomes = Append(results, status)
         /\ (updating = "result") => status # "stopped"
         /\ Len(results) < TestCount
         /\ InTests(results)
  /\ updating = "finalize" => InTests(outcomes) /\ Len(outcomes) = TestCount

PassedReport(file) ==
  file.status = "passed"
  => /\ file.validation = "passed"
     /\ Len(file.results) = TestCount
     /\ \A i \in DOMAIN file.results : file.results[i] = "passed"

IInv ==
  /\ TypeOK
  /\ pc \in {"prepare", "connect", "start_test"} =>
       report = NoFile /\ outcomes = << >> /\ temporary = NoFile
  /\ pc = "validate" => report = File!Initial /\ outcomes = << >>
  /\ pc \in Testing => InTests(outcomes)
  /\ pc = "stop" => Len(outcomes) < TestCount
  /\ pc \in Updating => updating # "none" /\ Before
  /\ pc \in Writing => draft = Drafted /\ ~FailedAlready
  /\ pc = "replace_report" => temporary = draft
  /\ pc \notin Writing \cup {"killed"} => temporary = NoFile
  /\ report # NoFile => PassedReport(report)

-----------------------------------------------------------------------------
(***************************************************************************)
(* The updates of the report.                                              *)
(***************************************************************************)
LEMMA InitialIsReport == File!Initial \in Reports
BY DEF File!Initial, Reports, Statuses

LEMMA ValidatedIsReport ==
  ASSUME NEW old \in Reports, NEW ok \in BOOLEAN
  PROVE  /\ File!Validated(old, ok) \in Reports
         /\ File!Validated(old, ok).results = old.results
         /\ File!Validated(old, ok).validation =
              IF ok THEN "passed" ELSE "failed"
         /\ File!Validated(old, ok).status =
              IF ok THEN old.status ELSE "failed"
BY DEF File!Validated, Reports

LEMMA RecordedIsReport ==
  ASSUME NEW old \in Reports, NEW status \in Statuses
  PROVE  /\ File!Recorded(old, status) \in Reports
         /\ File!Recorded(old, status).results = Append(old.results, status)
         /\ File!Recorded(old, status).validation = old.validation
         /\ File!Recorded(old, status).status =
              IF status = "passed" THEN old.status ELSE "failed"
<1> DEFINE longer == Append(old.results, status)
<1>1. longer \in Seq(Statuses)
  BY DEF Reports
<1> HIDE DEF longer
<1>2. File!Recorded(old, status) =
        [old EXCEPT !.results = longer,
                    !.status = IF status = "passed" THEN @ ELSE "failed"]
  BY DEF File!Recorded, longer, Reports
<1> QED
  BY <1>1, <1>2 DEF Reports, longer

LEMMA FinalizedIsReport ==
  ASSUME NEW old \in Reports
  PROVE  /\ File!Finalized(old) \in Reports
         /\ File!Finalized(old).results = old.results
         /\ File!Finalized(old).validation = old.validation
         /\ File!Finalized(old).status = "passed"
BY DEF File!Finalized, Reports

LEMMA InitialHoldsIInv == Init => IInv
<1> SUFFICES ASSUME Init PROVE IInv
  OBVIOUS
<1>1. ProgressOK
  <2>1. outcomes \in Seq(Statuses) /\ Len(outcomes) <= TestCount
    BY ReportConstants DEF Init
  <2> QED
    BY <2>1, Zenon DEF Init, ProgressOK
<1>2. ControlOK /\ FilesOK
  BY DEF Init, ControlOK, FilesOK
<1> QED
  BY <1>1, <1>2 DEF Init, IInv, TypeOK, Testing, Updating, Writing

(***************************************************************************)
(* A failed update, an interruption and a kill change no report.           *)
(***************************************************************************)
LEMMA NoReportChangedKeepsIInv ==
  ASSUME IInv, TypeOK', UNCHANGED report,
         \/ pc' = "killed"
         \/ pc' \in {"close", "closed", "exited"} /\ temporary' = NoFile
  PROVE  IInv'
<1>1. (report # NoFile => PassedReport(report))'
  BY DEF IInv, PassedReport
<1> QED
  BY <1>1 DEF IInv, Testing, Updating, Writing

LEMMA WriteFailsKeepsIInv ==
  ASSUME IInv, WriteFails
  PROVE  IInv'
<1>1. ControlOK' /\ FilesOK' /\ ProgressOK'
  <2> TypeOK
    BY DEF IInv
  <2>1. ControlOK'
    BY DEF TypeOK, ControlOK, WriteFails, Leave
  <2>2. FilesOK'
    BY DEF TypeOK, FilesOK, WriteFails
  <2>3. ProgressOK'
    BY DEF TypeOK, ProgressOK, WriteFails, progress
  <2> QED
    BY <2>1, <2>2, <2>3
<1> QED
  BY <1>1, NoReportChangedKeepsIInv DEF WriteFails, Leave, TypeOK

LEMMA InterruptKeepsIInv ==
  ASSUME IInv, Interrupt
  PROVE  IInv'
<1>1. ControlOK' /\ FilesOK' /\ ProgressOK'
  <2> TypeOK
    BY DEF IInv
  <2>1. ControlOK'
    BY DEF TypeOK, ControlOK, Interrupt, Leave, Exit
  <2>2. FilesOK'
    BY DEF TypeOK, FilesOK, Interrupt
  <2>3. ProgressOK'
    BY DEF TypeOK, ProgressOK, Interrupt, progress
  <2> QED
    BY <2>1, <2>2, <2>3
<1> QED
  BY <1>1, NoReportChangedKeepsIInv DEF Interrupt, Leave, Exit, TypeOK

LEMMA KillKeepsIInv ==
  ASSUME IInv, Kill
  PROVE  IInv'
<1>1. ControlOK' /\ FilesOK' /\ ProgressOK'
  <2> TypeOK
    BY DEF IInv
  <2>1. ControlOK'
    BY DEF TypeOK, ControlOK, Kill
  <2>2. FilesOK'
    BY DEF TypeOK, FilesOK, Kill, files
  <2>3. ProgressOK'
    BY DEF TypeOK, ProgressOK, Kill, progress
  <2> QED
    BY <2>1, <2>2, <2>3
<1> QED
  BY <1>1, NoReportChangedKeepsIInv DEF Kill, files, TypeOK

-----------------------------------------------------------------------------
(***************************************************************************)
(* The report an update drafts, and the step of the file it stands for.    *)
(***************************************************************************)
LEMMA DraftFollowsReport ==
  ASSUME IInv, pc \in Updating, ~FailedAlready
  PROVE  /\ Drafted \in Reports
         /\ PassedReport(Drafted)
         /\ updating = "create" => Drafted = File!Initial
         /\ updating = "validate" /\ validation = "passed"
              => Drafted.validation = "passed" /\ Drafted.results = outcomes
         /\ updating = "result"
              => /\ Drafted.validation = "passed"
                 /\ Drafted.results = outcomes
                 /\ Undecided(outcomes)
         /\ report' = Drafted => File!Next
<1> USE InitialIsReport
<1>0. /\ updating \in {"create", "validate", "result", "error", "cancel",
                       "finalize"}
      /\ Before
      /\ outcomes \in Seq(Statuses)
      /\ NoFile \notin Reports
  BY ReportConstants DEF IInv, TypeOK, ControlOK, ProgressOK
<1>1. CASE updating = "create"
  <2>1. Drafted = File!Initial /\ report = NoFile
    BY <1>0, <1>1 DEF Drafted, Before
  <2>2. PassedReport(Drafted)
    BY <2>1 DEF File!Initial, PassedReport
  <2>3. report' = Drafted => File!Next
    BY <2>1 DEF File!Next, File!Create
  <2> QED
    BY <1>1, <2>1, <2>2, <2>3
<1>2. CASE updating = "validate"
  <2> DEFINE ok == validation = "passed"
  <2>1. /\ Drafted = File!Validated(report, ok)
        /\ report = File!Initial
        /\ outcomes = << >>
    BY <1>0, <1>2 DEF Drafted, Before
  <2>2. report.validation = "none" /\ report.results = << >>
        /\ report.status = "in_progress"
    BY <2>1 DEF File!Initial
  <2>3. ok \in BOOLEAN
    OBVIOUS
  <2>4. /\ Drafted \in Reports
        /\ Drafted.results = << >>
        /\ Drafted.validation = IF ok THEN "passed" ELSE "failed"
        /\ Drafted.status = IF ok THEN "in_progress" ELSE "failed"
    BY <2>1, <2>2, <2>3, ValidatedIsReport
  <2>5. report' = Drafted => File!Next
    BY <1>0, <2>1, <2>2, <2>3 DEF File!Next, File!Validate
  <2> QED
    BY <1>2, <2>1, <2>4, <2>5 DEF PassedReport
<1>3. CASE updating \in {"result", "error", "cancel"}
  <2>1. PICK results \in Seq(Statuses), status \in Statuses :
          /\ outcomes = Append(results, status)
          /\ (updating = "result") => status # "stopped"
          /\ Len(results) < TestCount
          /\ InTests(results)
    BY <1>0, <1>3 DEF Before
  <2>2. LastOutcome = status
    BY <2>1 DEF LastOutcome
  <2>3. Drafted = File!Recorded(report, status)
    BY <1>3, <2>2 DEF Drafted
  <2>4. /\ Drafted \in Reports
        /\ Drafted.results = outcomes
        /\ Drafted.validation = "passed"
        /\ Drafted.status = IF status = "passed" THEN report.status
                           ELSE "failed"
    BY <2>1, <2>3, RecordedIsReport DEF InTests
  <2>5. report.status # "passed"
    BY <1>0, <2>1, ReportConstants DEF InTests, IInv, PassedReport
  <2>6. PassedReport(Drafted)
    BY <2>4, <2>5 DEF PassedReport
  <2>7. updating = "result" => Undecided(outcomes)
    BY <2>1 DEF InTests, Undecided
  <2>8. report' = Drafted => File!Next
    BY <1>0, <2>1, <2>3
    DEF InTests, Undecided, File!Next, File!Record, Statuses
  <2> QED
    BY <1>3, <2>4, <2>6, <2>7, <2>8
<1>4. CASE updating = "finalize"
  <2>1. /\ Drafted = File!Finalized(report)
        /\ InTests(outcomes)
        /\ Len(outcomes) = TestCount
    BY <1>0, <1>4 DEF Drafted, Before
  <2>2. \A i \in DOMAIN report.results : report.results[i] = "passed"
    BY <1>4 DEF FailedAlready
  <2>3. /\ Drafted \in Reports
        /\ Drafted.results = report.results
        /\ Drafted.validation = report.validation
    BY <2>1, FinalizedIsReport DEF InTests
  <2>4. PassedReport(Drafted)
    BY <2>1, <2>2, <2>3 DEF InTests, PassedReport
  <2>5. report' = Drafted => File!Next
    BY <1>0, <2>1, <2>2 DEF InTests, File!Next, File!Finalize
  <2> QED
    BY <1>4, <2>3, <2>4, <2>5
<1> QED
  BY <1>0, <1>1, <1>2, <1>3, <1>4

-----------------------------------------------------------------------------
(***************************************************************************)
(* Every step keeps the invariant.                                         *)
(***************************************************************************)
LEMMA StepKeepsIInv ==
  ASSUME IInv, [Next]_vars
  PROVE  IInv'
<1> USE DEF Testing, Updating, Writing
<1>0. TypeOK /\ ControlOK /\ FilesOK /\ ProgressOK
  BY DEF IInv, TypeOK
<1>r. (UNCHANGED report) => (report # NoFile => PassedReport(report))'
  BY DEF IInv, PassedReport
<1>1. CASE Prepare
  <2>1. ControlOK'
    BY <1>0, <1>1 DEF ControlOK, Prepare, Goto, Exit, NoUpdate
  <2>2. FilesOK'
    BY <1>0, <1>1 DEF FilesOK, Prepare, NoUpdate, files
  <2>3. ProgressOK'
    BY <1>0, <1>1 DEF ProgressOK, Prepare, progress, NoUpdate
  <2>4. /\ pc = "prepare" /\ pc' \in {"connect", "exited"}
        /\ UNCHANGED <<report, temporary, outcomes>>
    BY <1>1 DEF Prepare, Goto, Exit, NoUpdate, files, progress
  <2> QED
    BY <1>r, <2>1, <2>2, <2>3, <2>4 DEF IInv, TypeOK
<1>2. CASE Connect
  <2>1. ControlOK'
    BY <1>0, <1>2 DEF ControlOK, Connect, Goto, Exit, NoUpdate
  <2>2. FilesOK'
    BY <1>0, <1>2 DEF FilesOK, Connect, NoUpdate, files
  <2>3. ProgressOK'
    BY <1>0, <1>2 DEF ProgressOK, Connect, progress, NoUpdate
  <2>4. /\ pc = "connect" /\ pc' \in {"start_test", "exited"}
        /\ UNCHANGED <<report, temporary, outcomes>>
    BY <1>2 DEF Connect, Goto, Exit, NoUpdate, files, progress
  <2> QED
    BY <1>r, <2>1, <2>2, <2>3, <2>4 DEF IInv, TypeOK
<1>3. CASE StartTest
  <2>1. ControlOK'
    BY <1>0, <1>3 DEF ControlOK, StartTest, Goto, Leave
  <2>2. FilesOK'
    BY <1>0, <1>3 DEF FilesOK, StartTest, files
  <2>3. ProgressOK'
    BY <1>0, <1>3 DEF ProgressOK, StartTest, progress
  <2>4. /\ pc = "start_test"
        /\ \/ pc' = "update" /\ updating' = "create"
           \/ pc' = "close"
        /\ UNCHANGED <<report, temporary, outcomes>>
    BY <1>3 DEF StartTest, Goto, Leave, files, progress
  <2>5. report = NoFile /\ temporary = NoFile /\ outcomes = << >>
    BY <2>4 DEF IInv
  <2>6. pc' = "update" => Before'
    BY <2>4, <2>5 DEF Before
  <2> QED
    BY <1>r, <2>1, <2>2, <2>3, <2>4, <2>5, <2>6 DEF IInv, TypeOK
<1>4. CASE ReadReport
  <2>1. CASE WriteFails
    BY <2>1, WriteFailsKeepsIInv
  <2>2. CASE /\ ~FailedAlready
             /\ draft' = Drafted
             /\ Goto("open_temporary")
             /\ UNCHANGED <<updating, files, broken_off, progress>>
    <3>1. /\ pc = "update" /\ pc' = "open_temporary"
          /\ UNCHANGED <<updating, report, temporary, validation, outcomes>>
      BY <1>4, <2>2 DEF ReadReport, Goto, files, progress
    <3>2. ControlOK'
      BY <1>0, <1>4, <2>2 DEF ControlOK, ReadReport, Goto
    <3>3. FilesOK'
      BY <1>0, <2>2, <3>1, DraftFollowsReport DEF FilesOK
    <3>4. ProgressOK'
      BY <1>0, <2>2 DEF ProgressOK, progress
    <3>5. draft' = Drafted' /\ ~FailedAlready'
      BY <2>2, <3>1 DEF Drafted, FailedAlready, LastOutcome
    <3>6. Before' /\ updating' # "none"
      BY <3>1 DEF IInv, Before, InTests
    <3> QED
      BY <1>r, <3>1, <3>2, <3>3, <3>4, <3>5, <3>6 DEF IInv, TypeOK
  <2> QED
    BY <1>4, <2>1, <2>2 DEF ReadReport
<1>5. CASE KeepFailedReport
  <2>1. ControlOK'
    BY <1>0, <1>5 DEF ControlOK, KeepFailedReport, Leave
  <2>2. FilesOK'
    BY <1>0, <1>5 DEF FilesOK, KeepFailedReport, files
  <2>3. ProgressOK'
    BY <1>0, <1>5 DEF ProgressOK, KeepFailedReport
  <2>4. /\ pc = "update" /\ pc' = "close"
        /\ UNCHANGED <<report, temporary>>
    BY <1>5 DEF KeepFailedReport, Leave, files
  <2>5. temporary' = NoFile
    BY <2>4 DEF IInv
  <2> QED
    BY <2>1, <2>2, <2>3, <2>4, <2>5, NoReportChangedKeepsIInv DEF TypeOK
<1>6. CASE OpenTemporary
  <2>1. CASE WriteFails
    BY <2>1, WriteFailsKeepsIInv
  <2>2. CASE /\ temporary' = Partial
             /\ Goto("fill_temporary")
             /\ UNCHANGED <<updating, draft, report, broken_off, progress>>
    <3>1. /\ pc = "open_temporary" /\ pc' = "fill_temporary"
          /\ UNCHANGED <<updating, draft, report, validation, outcomes>>
      BY <1>6, <2>2 DEF OpenTemporary, Goto, progress
    <3>2. ControlOK'
      BY <1>0, <2>2 DEF ControlOK, Goto
    <3>3. FilesOK'
      BY <1>0, <2>2 DEF FilesOK
    <3>4. ProgressOK'
      BY <1>0, <2>2 DEF ProgressOK, progress
    <3>5. draft' = Drafted' /\ ~FailedAlready'
      BY <3>1 DEF IInv, Drafted, FailedAlready, LastOutcome
    <3>6. Before' /\ updating' # "none"
      BY <3>1 DEF IInv, Before, InTests
    <3> QED
      BY <1>r, <3>1, <3>2, <3>3, <3>4, <3>5, <3>6 DEF IInv, TypeOK
  <2> QED
    BY <1>6, <2>1, <2>2 DEF OpenTemporary
<1>7. CASE FillTemporary
  <2>1. CASE WriteFails
    BY <2>1, WriteFailsKeepsIInv
  <2>2. CASE /\ temporary' = draft
             /\ Goto("replace_report")
             /\ UNCHANGED <<updating, draft, report, broken_off, progress>>
    <3>1. /\ pc = "fill_temporary" /\ pc' = "replace_report"
          /\ temporary' = draft'
          /\ UNCHANGED <<updating, draft, report, validation, outcomes>>
      BY <1>7, <2>2 DEF FillTemporary, Goto, progress
    <3>2. ControlOK'
      BY <1>0, <2>2 DEF ControlOK, Goto
    <3>3. FilesOK'
      BY <1>0, <2>2 DEF FilesOK
    <3>4. ProgressOK'
      BY <1>0, <2>2 DEF ProgressOK, progress
    <3>5. draft' = Drafted' /\ ~FailedAlready'
      BY <3>1 DEF IInv, Drafted, FailedAlready, LastOutcome
    <3>6. Before' /\ updating' # "none"
      BY <3>1 DEF IInv, Before, InTests
    <3> QED
      BY <1>r, <3>1, <3>2, <3>3, <3>4, <3>5, <3>6 DEF IInv, TypeOK
  <2> QED
    BY <1>7, <2>1, <2>2 DEF FillTemporary
<1>8. CASE ReplaceReport
  <2>1. CASE WriteFails
    BY <2>1, WriteFailsKeepsIInv
  <2>2. CASE /\ report' = temporary
             /\ temporary' = NoFile
             /\ updating' = "none"
             /\ AfterUpdate
             /\ UNCHANGED <<draft, broken_off>>
    <3>1. /\ pc = "replace_report"
          /\ report' = Drafted
          /\ ~FailedAlready
      BY <1>8, <2>2 DEF ReplaceReport, IInv
    <3>2. ControlOK'
      BY <1>0, <2>2 DEF ControlOK, AfterUpdate, Goto, Leave, Label
    <3>3. FilesOK'
      BY <1>0, <2>2, <3>1, DraftFollowsReport DEF FilesOK
    <3>4. ProgressOK'
      BY <1>0, <2>2 DEF ProgressOK, progress, AfterUpdate
    <3>5. PassedReport(report)'
      BY <3>1, DraftFollowsReport DEF PassedReport
    <3>6. outcomes' = outcomes
      BY <2>2 DEF AfterUpdate, progress
    <3>7. \/ pc' = "close"
          \/ pc' = "validate" /\ updating = "create"
          \/ /\ pc' = "test"
             /\ \/ updating = "validate" /\ validation = "passed"
                \/ updating = "result"
      BY <2>2 DEF AfterUpdate, Goto, Leave
    <3>8. pc' = "validate" => report' = File!Initial /\ outcomes' = << >>
      BY <3>1, <3>6, <3>7, DraftFollowsReport DEF IInv, Before
    <3>9. pc' = "test" => InTests(outcomes)'
      <4> SUFFICES ASSUME pc' = "test" PROVE InTests(outcomes)'
        OBVIOUS
      <4>1. /\ report' \in Reports
            /\ report'.validation = "passed"
            /\ report'.results = outcomes
        BY <3>1, <3>7, DraftFollowsReport
      <4>2. Undecided(outcomes)
        <5>1. CASE updating = "result"
          BY <3>1, <5>1, DraftFollowsReport
        <5>2. CASE updating = "validate"
          BY <3>1, <5>2 DEF IInv, Before, Undecided
        <5> QED
          BY <3>7, <5>1, <5>2
      <4> QED
        BY <3>6, <4>1, <4>2 DEF InTests, Undecided
    <3> QED
      BY <2>2, <3>2, <3>3, <3>4, <3>5, <3>7, <3>8, <3>9 DEF IInv, TypeOK
  <2> QED
    BY <1>8, <2>1, <2>2 DEF ReplaceReport
<1>9. CASE ValidateSession
  <2>1. ControlOK'
    BY <1>0, <1>9 DEF ControlOK, ValidateSession, Goto
  <2>2. FilesOK'
    BY <1>0, <1>9 DEF FilesOK, ValidateSession, files
  <2>3. ProgressOK'
    BY <1>0, <1>9 DEF ProgressOK, ValidateSession
  <2>4. /\ pc = "validate" /\ pc' = "update"
        /\ updating' = "validate" /\ validation' # "none"
        /\ UNCHANGED <<report, temporary, outcomes>>
    BY <1>9 DEF ValidateSession, Goto, files
  <2>5. Before' /\ temporary = NoFile
    BY <2>4 DEF IInv, Before
  <2> QED
    BY <1>r, <2>1, <2>2, <2>3, <2>4, <2>5 DEF IInv, TypeOK
<1>10. CASE RunTest
  <2>1. PICK outcome \in {"passed", "failed"}, kind \in {"result", "error"} :
          outcomes' = Append(outcomes, outcome) /\ updating' = kind
    BY <1>10 DEF RunTest
  <2>2. ControlOK'
    BY <1>0, <1>10, <2>1 DEF ControlOK, RunTest, Goto
  <2>3. FilesOK'
    BY <1>0, <1>10 DEF FilesOK, RunTest, files
  <2>4. ProgressOK'
    <3>1. outcomes' \in Seq(Statuses) /\ Len(outcomes') <= TestCount
      BY <1>0, <1>10, <2>1, ReportConstants
      DEF ProgressOK, RunTest, TestsLeft, Statuses
    <3> QED
      BY <1>0, <1>10, <3>1, Zenon DEF ProgressOK, RunTest
  <2>5. /\ pc = "test" /\ pc' = "update"
        /\ Len(outcomes) < TestCount
        /\ UNCHANGED <<report, temporary>>
    BY <1>10 DEF RunTest, Goto, files, TestsLeft
  <2>6. InTests(outcomes) /\ temporary = NoFile
    BY <2>5 DEF IInv
  <2>7. Before'
    BY <1>0, <2>1, <2>5, <2>6
    DEF Before, InTests, ProgressOK, Statuses
  <2> QED
    BY <1>r, <2>1, <2>2, <2>3, <2>4, <2>5, <2>6, <2>7 DEF IInv, TypeOK
<1>11. CASE CancelTest
  <2>1. ControlOK'
    BY <1>0, <1>11 DEF ControlOK, CancelTest, Goto, NoUpdate
  <2>2. FilesOK'
    BY <1>0, <1>11 DEF FilesOK, CancelTest, NoUpdate, files
  <2>3. ProgressOK'
    BY <1>0, <1>11 DEF ProgressOK, CancelTest, NoUpdate, progress
  <2>4. /\ pc = "test" /\ pc' = "stop"
        /\ Len(outcomes) < TestCount
        /\ UNCHANGED <<report, temporary, outcomes>>
    BY <1>11 DEF CancelTest, Goto, NoUpdate, files, progress, TestsLeft
  <2>5. InTests(outcomes)' /\ temporary = NoFile
    BY <2>4 DEF IInv, InTests
  <2> QED
    BY <1>r, <2>1, <2>2, <2>3, <2>4, <2>5 DEF IInv, TypeOK
<1>12. CASE StopTest
  <2>1. ControlOK'
    BY <1>0, <1>12 DEF ControlOK, StopTest, Goto
  <2>2. FilesOK'
    BY <1>0, <1>12 DEF FilesOK, StopTest, files
  <2>3. /\ pc = "stop" /\ pc' = "update" /\ updating' = "cancel"
        /\ outcomes' = Append(outcomes, "stopped")
        /\ UNCHANGED <<report, temporary>>
    BY <1>12 DEF StopTest, Goto, files
  <2>4. /\ InTests(outcomes) /\ temporary = NoFile
        /\ Len(outcomes) < TestCount
    BY <2>3 DEF IInv
  <2>5. ProgressOK'
    <3>1. outcomes' \in Seq(Statuses) /\ Len(outcomes') <= TestCount
      BY <1>0, <2>3, <2>4, ReportConstants DEF ProgressOK, Statuses
    <3> QED
      BY <1>0, <1>12, <3>1, Zenon DEF ProgressOK, StopTest
  <2>6. Before'
    BY <1>0, <2>3, <2>4 DEF Before, InTests, ProgressOK, Statuses
  <2> QED
    BY <1>r, <2>1, <2>2, <2>3, <2>4, <2>5, <2>6 DEF IInv, TypeOK
<1>13. CASE FinalizeRun
  <2>1. ControlOK'
    BY <1>0, <1>13 DEF ControlOK, FinalizeRun, Goto
  <2>2. FilesOK'
    BY <1>0, <1>13 DEF FilesOK, FinalizeRun, files
  <2>3. ProgressOK'
    BY <1>0, <1>13 DEF ProgressOK, FinalizeRun, progress
  <2>4. /\ pc = "test" /\ pc' = "update" /\ updating' = "finalize"
        /\ Len(outcomes) = TestCount
        /\ UNCHANGED <<report, temporary, outcomes>>
    BY <1>0, <1>13, ReportConstants
    DEF FinalizeRun, Goto, files, progress, TestsLeft, ProgressOK
  <2>5. InTests(outcomes) /\ temporary = NoFile
    BY <2>4 DEF IInv
  <2>6. Before'
    BY <2>4, <2>5 DEF Before, InTests
  <2> QED
    BY <1>r, <2>1, <2>2, <2>3, <2>4, <2>5, <2>6 DEF IInv, TypeOK
<1>14. CASE ClosePort
  <2>1. ControlOK'
    BY <1>0, <1>14 DEF ControlOK, ClosePort, NoUpdate
  <2>2. FilesOK'
    BY <1>0, <1>14 DEF FilesOK, ClosePort, NoUpdate, files
  <2>3. ProgressOK'
    BY <1>0, <1>14 DEF ProgressOK, ClosePort, NoUpdate, progress
  <2>4. pc' = "closed" /\ temporary' = NoFile /\ UNCHANGED report
    BY <1>14 DEF ClosePort, NoUpdate, files, IInv
  <2> QED
    BY <2>1, <2>2, <2>3, <2>4, NoReportChangedKeepsIInv DEF TypeOK
<1>15. CASE Finish
  <2>1. ControlOK'
    BY <1>0, <1>15
    DEF ControlOK, Finish, Exit, ExitCode, Label, NoUpdate
  <2>2. FilesOK'
    BY <1>0, <1>15 DEF FilesOK, Finish, NoUpdate, files
  <2>3. ProgressOK'
    BY <1>0, <1>15 DEF ProgressOK, Finish, NoUpdate, progress
  <2>4. pc' = "exited" /\ temporary' = NoFile /\ UNCHANGED report
    BY <1>15 DEF Finish, Exit, NoUpdate, files, IInv
  <2> QED
    BY <2>1, <2>2, <2>3, <2>4, NoReportChangedKeepsIInv DEF TypeOK
<1>16. CASE UNCHANGED vars
  <2>1. ControlOK'
    <3>1. (pc \in {"prepare", "connect", "start_test", "update",
                   "open_temporary", "fill_temporary", "replace_report",
                   "validate", "test", "stop", "close", "closed", "exited",
                   "killed"})'
      BY <1>0, <1>16 DEF ControlOK, vars
    <3>2. (updating \in {"none", "create", "validate", "result", "error",
                         "cancel", "finalize"})'
      BY <1>0, <1>16 DEF ControlOK, vars
    <3>3. (leaving \in {"none", "returned", "raised", "cancelled",
                        "interrupted"})'
      BY <1>0, <1>16 DEF ControlOK, vars
    <3>4. (summary \in {"none", "PASS", "FAIL", "NOT COMPLETED"})'
      BY <1>0, <1>16 DEF ControlOK, vars
    <3>5. (exit \in {"none", "0", "1", "2", "130", "traceback", "killed"})'
      BY <1>0, <1>16 DEF ControlOK, vars
    <3> QED
      BY <3>1, <3>2, <3>3, <3>4, <3>5 DEF ControlOK
  <2>2. FilesOK'
    BY <1>0, <1>16 DEF FilesOK, vars, files
  <2>3. ProgressOK'
    BY <1>0, <1>16 DEF ProgressOK, vars, progress
  <2>4. UNCHANGED <<pc, updating, draft, report, temporary, validation,
                    outcomes>>
    BY <1>16 DEF vars, files, progress
  <2>5. Before' = Before /\ Drafted' = Drafted
        /\ FailedAlready' = FailedAlready
    BY <2>4 DEF Before, Drafted, FailedAlready, InTests, LastOutcome
  <2> QED
    BY <1>r, <2>1, <2>2, <2>3, <2>4, <2>5 DEF IInv, TypeOK, InTests
<1> QED
  BY <1>1, <1>2, <1>3, <1>4, <1>5, <1>6, <1>7, <1>8, <1>9, <1>10, <1>11,
     <1>12, <1>13, <1>14, <1>15, <1>16, InterruptKeepsIInv, KillKeepsIInv
  DEF Next, Step

LEMMA InductiveInvariant == Spec => []IInv
BY InitialHoldsIInv, StepKeepsIInv, PTL DEF Spec
-----------------------------------------------------------------------------
(***************************************************************************)
(* The theorems.  The report writer and the runner keep their types.       *)
(***************************************************************************)
THEOREM TypeCorrect == Spec => []TypeOK
<1>1. IInv => TypeOK
  BY DEF IInv
<1> QED
  BY <1>1, InductiveInvariant, PTL

(***************************************************************************)
(* A report that says "passed" holds a passed result of each of any number *)
(* of enabled tests, whatever failed, was cancelled or was killed.         *)
(***************************************************************************)
THEOREM PassedReportIsTrue == Spec => []PassedMeansAllPassed
<1>1. IInv => PassedMeansAllPassed
  BY DEF IInv, PassedMeansAllPassed, PassedReport
<1> QED
  BY <1>1, InductiveInvariant, PTL

(***************************************************************************)
(* Without a kill no temporary file outlives the run.                      *)
(***************************************************************************)
THEOREM TemporaryIsRemoved == Spec => []NoTemporaryLeft
<1>1. IInv => NoTemporaryLeft
  BY DEF IInv, NoTemporaryLeft, Writing
<1> QED
  BY <1>1, InductiveInvariant, PTL

(***************************************************************************)
(* The report file takes the steps of ReportFile only: of the actions of   *)
(* the run, the replacement alone changes it, by the report just drafted.  *)
(***************************************************************************)
LEMMA StepImplementsReportFile ==
  ASSUME IInv, [Next]_vars
  PROVE  [File!Next]_report
<1>1. CASE UNCHANGED report
  BY <1>1
<1>2. CASE ReplaceReport
  <2>1. CASE WriteFails
    BY <2>1 DEF WriteFails
  <2>2. CASE report' = temporary
    <3>1. pc \in Updating /\ ~FailedAlready /\ report' = Drafted
      BY <1>2, <2>2 DEF ReplaceReport, IInv, Updating, Writing
    <3> QED
      BY <3>1, DraftFollowsReport
  <2> QED
    BY <1>2, <2>1, <2>2 DEF ReplaceReport
<1>3. Next => ReplaceReport \/ UNCHANGED report
  BY DEF Next, Step, Prepare, Connect, StartTest, ReadReport, KeepFailedReport,
         OpenTemporary, FillTemporary, ValidateSession, RunTest, CancelTest,
         StopTest, FinalizeRun, ClosePort, Finish, Interrupt, Kill, WriteFails,
         NoUpdate, files
<1> QED
  BY <1>1, <1>2, <1>3 DEF vars, files

THEOREM ReportFileImplemented == Spec => ImplementsReportFile
<1>1. Init => File!Init
  BY DEF Init, File!Init
<1> QED
  BY <1>1, InductiveInvariant, StepImplementsReportFile, PTL
  DEF Spec, ImplementsReportFile, File!Spec
-----------------------------------------------------------------------------
(***************************************************************************)
(* How a run ends, for every number of tests: report, terminal and exit    *)
(* code agree.  A second invariant, on top of the one above, follows the   *)
(* outcomes, the summary and the way the block is left.                    *)
(***************************************************************************)
AllPassed(results) ==
  \A i \in DOMAIN results : results[i] = "passed"

Ended == {"exited", "killed"}
Leaving == {"close", "closed"}

\* An update under way that puts the last outcome into the report.
Recording == pc \in Updating /\ updating \in {"result", "error", "cancel"}

(***************************************************************************)
(* The report holds the outcomes, but for an update under way or given up, *)
(* and a result that is not "passed" decides it.                           *)
(***************************************************************************)
ReportTrue ==
  report # NoFile =>
    /\ ~broken_off /\ ~Recording /\ pc # "killed" => report.results = outcomes
    /\ ~AllPassed(report.results) => report.status = "failed"
    /\ ~broken_off /\ pc \in Leaving \cup {"exited"}
         => report.status # "in_progress"

LastTrue ==
  /\ pc \in Updating /\ updating = "error" => LastOutcome = "failed"
  /\ pc \in Updating /\ updating = "cancel" => LastOutcome = "stopped"

PathTrue ==
  /\ has_path => report # NoFile
  /\ pc \in Testing \cup {"validate"} => has_path
  /\ pc \in Updating => has_path \/ updating = "create"
  /\ summary # "none" \/ leaving \in {"returned", "cancelled"} => has_path

(***************************************************************************)
(* Nothing is concluded before the block is left.                          *)
(***************************************************************************)
OpenTrue ==
  /\ pc \notin Leaving \cup Ended
       => leaving = "none" /\ summary = "none" /\ ~completed
  /\ pc \in Leaving => summary \in {"none", "NOT COMPLETED"}
  /\ pc \in Leaving => leaving # "none"
  /\ pc \notin Ended => exit = "none"
  /\ pc = "killed" => exit = "killed"

CompletedTrue ==
  completed =>
    /\ report # NoFile /\ report.results = outcomes
    /\ Len(outcomes) = TestCount /\ Undecided(outcomes)
    /\ AllPassed(outcomes) => report.status = "passed"

LeavingTrue ==
  /\ leaving = "returned" => completed \/ validation # "passed"
  /\ leaving = "cancelled" =>
       /\ summary = "NOT COMPLETED"
       /\ report.results # << >>
       /\ report.results[Len(report.results)] = "stopped"

EndInvariant ==
  /\ ReportTrue /\ LastTrue /\ PathTrue /\ OpenTrue
  /\ CompletedTrue /\ LeavingTrue
  /\ TerminalAgrees /\ ExitCodeIsTrue
-----------------------------------------------------------------------------
(***************************************************************************)
(* What an update puts into the report.                                    *)
(***************************************************************************)
LEMMA DraftTellsOutcomes ==
  ASSUME IInv, EndInvariant, pc \in Updating, ~FailedAlready
  PROVE  /\ Drafted \in Reports
         /\ Drafted.results = outcomes
         /\ ~AllPassed(Drafted.results) => Drafted.status = "failed"
         /\ updating \in {"error", "cancel"} => Drafted.status = "failed"
         /\ updating = "cancel" => /\ Drafted.results # << >>
                                   /\ LastOutcome = "stopped"
         /\ updating = "validate" /\ validation # "passed"
              => Drafted.status = "failed"
         /\ updating = "finalize"
              => /\ Drafted.status = "passed"
                 /\ Undecided(outcomes)
                 /\ Len(outcomes) = TestCount
<1>0. /\ updating \in {"create", "validate", "result", "error", "cancel",
                       "finalize"}
      /\ Before
      /\ NoFile \notin Reports
      /\ Drafted \in Reports
  BY ReportConstants, DraftFollowsReport DEF IInv, TypeOK, ControlOK
<1>1. CASE updating = "create"
  BY <1>0, <1>1 DEF Drafted, Before, File!Initial, AllPassed
<1>2. CASE updating = "validate"
  <2>1. /\ Drafted = File!Validated(report, validation = "passed")
        /\ report = File!Initial
        /\ outcomes = << >>
    BY <1>0, <1>2 DEF Drafted, Before
  <2>2. report \in Reports /\ report.results = << >>
    BY <2>1, InitialIsReport DEF File!Initial
  <2>3. (validation = "passed") \in BOOLEAN
    OBVIOUS
  <2>4. /\ Drafted.results = << >>
        /\ Drafted.status = IF validation = "passed" THEN report.status
                           ELSE "failed"
    BY <2>1, <2>2, <2>3, ValidatedIsReport
  <2> QED
    BY <1>0, <1>2, <2>1, <2>4 DEF AllPassed
<1>3. CASE updating \in {"result", "error", "cancel"}
  <2>1. PICK results \in Seq(Statuses), status \in Statuses :
          outcomes = Append(results, status) /\ InTests(results)
    BY <1>0, <1>3 DEF Before
  <2>2. LastOutcome = status /\ outcomes # << >>
    BY <2>1 DEF LastOutcome
  <2>3. Drafted = File!Recorded(report, status)
    BY <1>3, <2>2 DEF Drafted
  <2>4. /\ Drafted.results = outcomes
        /\ Drafted.status = IF status = "passed" THEN report.status
                           ELSE "failed"
    BY <2>1, <2>3, RecordedIsReport DEF InTests
  <2>5. ~AllPassed(outcomes) /\ status = "passed" => ~AllPassed(results)
    BY <2>1 DEF AllPassed
  <2>6. ~AllPassed(results) => report.status = "failed"
    BY <1>0, <2>1 DEF EndInvariant, ReportTrue, InTests
  <2>7. /\ updating = "error" => status = "failed"
        /\ updating = "cancel" => status = "stopped"
    BY <2>2 DEF EndInvariant, LastTrue
  <2> QED
    BY <1>0, <1>3, <2>2, <2>4, <2>5, <2>6, <2>7
<1>4. CASE updating = "finalize"
  <2>1. /\ Drafted = File!Finalized(report)
        /\ InTests(outcomes)
        /\ Len(outcomes) = TestCount
    BY <1>0, <1>4 DEF Drafted, Before
  <2>2. AllPassed(report.results)
    BY <1>4 DEF FailedAlready, AllPassed
  <2> QED
    BY <1>0, <1>4, <2>1, <2>2, FinalizedIsReport DEF InTests
<1> QED
  BY <1>0, <1>1, <1>2, <1>3, <1>4

LEMMA InitialHoldsEndInvariant == Init => EndInvariant
BY DEF Init, EndInvariant, ReportTrue, LastTrue, PathTrue, OpenTrue,
       CompletedTrue, LeavingTrue, TerminalAgrees, ExitCodeIsTrue, Updating,
       Testing, Writing, Leaving, Ended
(***************************************************************************)
(* What the last line says of a completed run and of one broken off.       *)
(***************************************************************************)
LEMMA LabelTellsOutcomes ==
  ASSUME EndInvariant, ProgressOK
  PROVE  /\ Label(FALSE) = "NOT COMPLETED"
         /\ completed => Label(completed) =
              IF AllPassed(outcomes) THEN "PASS" ELSE "FAIL"
         /\ ~completed => Label(completed) = "NOT COMPLETED"
<1>1. completed => Len(outcomes) = TestCount /\ Undecided(outcomes)
  BY DEF EndInvariant, CompletedTrue
<1>2. completed \in BOOLEAN
  BY DEF ProgressOK
<1> QED
  BY <1>1, <1>2 DEF Label, Undecided, AllPassed

-----------------------------------------------------------------------------
(***************************************************************************)
(* Steps that conclude nothing: inside the block the report, the outcomes  *)
(* and the terminal stay as they are.                                      *)
(***************************************************************************)
Settled == <<report, has_path, outcomes, completed, leaving, summary, exit,
             broken_off>>

LEMMA QuietStep ==
  ASSUME IInv, EndInvariant, UNCHANGED Settled,
         pc \notin Leaving \cup Ended, pc' \notin Leaving \cup Ended,
         \/ Recording' = Recording /\ UNCHANGED updating
         \/ ~Recording /\ ~Recording',
         PathTrue'
  PROVE  EndInvariant'
<1> USE DEF EndInvariant, Settled
<1>1. leaving = "none" /\ summary = "none" /\ ~completed /\ exit = "none"
  BY DEF OpenTrue, Leaving, Ended
<1>2. ReportTrue'
  BY DEF ReportTrue, AllPassed, Ended, Leaving
<1>3. LastTrue'
  BY DEF LastTrue, Recording, LastOutcome
<1>4. OpenTrue' /\ CompletedTrue' /\ LeavingTrue'
  BY <1>1 DEF OpenTrue, CompletedTrue, LeavingTrue, Ended
<1>5. TerminalAgrees' /\ ExitCodeIsTrue'
  BY <1>1 DEF TerminalAgrees, ExitCodeIsTrue
<1> QED
  BY <1>2, <1>3, <1>4, <1>5

(***************************************************************************)
(* Steps that break the run off.                                           *)
(***************************************************************************)
LEMMA BreakOffStep ==
  ASSUME IInv, EndInvariant,
         UNCHANGED <<report, has_path, outcomes, completed, summary, exit>>,
         pc \notin Leaving \cup Ended, pc' = "close",
         leaving' \in {"raised", "interrupted"},
         broken_off' = TRUE \/ report = NoFile
  PROVE  EndInvariant'
<1> USE DEF EndInvariant
<1>1. summary = "none" /\ ~completed /\ exit = "none"
  BY DEF OpenTrue
<1>2. ReportTrue'
  BY DEF ReportTrue, AllPassed
<1>3. LastTrue' /\ PathTrue'
  BY <1>1 DEF LastTrue, PathTrue, Updating, Writing, Testing
<1>4. OpenTrue' /\ CompletedTrue' /\ LeavingTrue'
  BY <1>1 DEF OpenTrue, CompletedTrue, LeavingTrue, Ended, Leaving
<1>5. TerminalAgrees' /\ ExitCodeIsTrue'
  BY <1>1 DEF TerminalAgrees, ExitCodeIsTrue
<1> QED
  BY <1>2, <1>3, <1>4, <1>5

LEMMA EndStep ==
  ASSUME IInv, EndInvariant,
         UNCHANGED <<report, has_path, validation, outcomes, completed,
                     leaving, summary>>,
         pc \notin Ended,
         \/ pc' = "killed" /\ exit' = "killed"
         \/ /\ pc' = "exited"
            /\ \/ exit' = "traceback" /\ broken_off' = TRUE
               \/ exit' \in {"1", "2"} /\ report = NoFile
  PROVE  EndInvariant'
<1> USE DEF EndInvariant
<1>1. summary # "none" => report # NoFile
  BY DEF PathTrue
<1>2. ReportTrue'
  BY DEF ReportTrue, AllPassed, Leaving
<1>3. LastTrue' /\ PathTrue'
  BY DEF LastTrue, PathTrue, Updating, Writing, Testing
<1>4. OpenTrue'
  BY DEF OpenTrue, Ended, Leaving
<1>5. CompletedTrue' /\ LeavingTrue'
  BY DEF CompletedTrue, LeavingTrue, AllPassed, Undecided
<1>6. TerminalAgrees' /\ ExitCodeIsTrue'
  BY <1>1 DEF TerminalAgrees, ExitCodeIsTrue
<1> QED
  BY <1>2, <1>3, <1>4, <1>5, <1>6

LEMMA WriteFailsKeepsEnd ==
  ASSUME IInv, EndInvariant, WriteFails, pc \in Updating
  PROVE  EndInvariant'
BY BreakOffStep
DEF WriteFails, Leave, progress, Updating, Writing, Leaving, Ended

(***************************************************************************)
(* The results of an update reach the report, and may end the block.       *)
(***************************************************************************)
LEMMA ReplaceKeepsEnd ==
  ASSUME IInv, EndInvariant, pc = "replace_report",
         report' = temporary, updating' = "none", AfterUpdate,
         UNCHANGED broken_off
  PROVE  EndInvariant'
<1> USE DEF EndInvariant
<1>0. /\ pc \in Updating /\ ~FailedAlready
      /\ report' = Drafted
      /\ ControlOK /\ NoFile \notin Reports
      /\ completed \in BOOLEAN /\ completed' \in BOOLEAN
  BY ReportConstants, StepKeepsIInv
  DEF IInv, TypeOK, ProgressOK, Updating, Writing, AfterUpdate, progress
<1>1. /\ outcomes' = outcomes
      /\ exit' = exit
      /\ pc' \in {"validate", "test", "close"}
      /\ exit = "none" /\ leaving = "none" /\ summary = "none" /\ ~completed
  BY DEF AfterUpdate, progress, Goto, Leave, OpenTrue, Leaving, Ended
<1>2. /\ report' \in Reports /\ report' # NoFile
      /\ report'.results = outcomes'
      /\ ~AllPassed(report'.results) => report'.status = "failed"
  BY <1>0, <1>1, DraftTellsOutcomes
<1>3. pc' = "close" => report'.status \in {"passed", "failed"}
  <2> SUFFICES ASSUME pc' = "close"
               PROVE  report'.status \in {"passed", "failed"}
    OBVIOUS
  <2>1. \/ updating = "validate" /\ validation # "passed"
        \/ updating \in {"error", "cancel", "finalize"}
    BY DEF AfterUpdate, Goto, Leave
  <2> QED
    BY <1>0, <2>1, DraftTellsOutcomes
<1>4. ReportTrue'
  BY <1>1, <1>2, <1>3 DEF ReportTrue, AllPassed, Leaving
<1>5. LastTrue'
  BY <1>1 DEF LastTrue, Updating, Writing
<1>6. PathTrue'
  <2>1. has_path'
    BY <1>0 DEF AfterUpdate, progress, PathTrue
  <2> QED
    BY <1>2, <2>1 DEF PathTrue
<1>7. OpenTrue'
  <2>1. ProgressOK
    BY DEF IInv, TypeOK
  <2>2. pc' = "close" =>
          summary' \in {"none", "NOT COMPLETED"} /\ leaving' # "none"
    BY <1>1, <2>1, LabelTellsOutcomes DEF AfterUpdate, Goto, Leave
  <2>3. pc' # "close" =>
          leaving' = "none" /\ summary' = "none" /\ ~completed'
    BY <1>0, <1>1, <2>1 DEF AfterUpdate, progress, Goto, Leave
  <2> QED
    BY <1>1, <2>2, <2>3 DEF OpenTrue, Leaving, Ended
<1>8. completed' => updating = "finalize"
  BY <1>1 DEF AfterUpdate, progress
<1>9. CompletedTrue'
  <2> SUFFICES ASSUME completed' PROVE CompletedTrue'
    BY DEF CompletedTrue
  <2>1. /\ report'.status = "passed"
        /\ Undecided(outcomes) /\ Len(outcomes) = TestCount
    BY <1>0, <1>8, DraftTellsOutcomes
  <2> QED
    BY <1>1, <1>2, <2>1 DEF CompletedTrue, Undecided
<1>10. LeavingTrue'
  <2>1. leaving' = "returned" => completed' \/ validation' # "passed"
    BY <1>1 DEF AfterUpdate, progress, Goto, Leave
  <2>2. leaving' = "cancelled"
          => updating = "cancel" /\ summary' = "NOT COMPLETED"
    BY <1>1 DEF AfterUpdate, Goto, Leave, Label
  <2>3. updating = "cancel" =>
          /\ report'.results # << >>
          /\ report'.results[Len(report'.results)] = "stopped"
    BY <1>0, <1>1, <1>2, DraftTellsOutcomes DEF LastOutcome
  <2> QED
    BY <2>1, <2>2, <2>3 DEF LeavingTrue
<1>11. TerminalAgrees' /\ ExitCodeIsTrue'
  BY <1>1 DEF TerminalAgrees, ExitCodeIsTrue
<1> QED
  BY <1>4, <1>5, <1>6, <1>7, <1>9, <1>10, <1>11

LEMMA KeepFailedKeepsEnd ==
  ASSUME IInv, EndInvariant, KeepFailedReport
  PROVE  EndInvariant'
<1> USE DEF EndInvariant
<1>1. /\ pc = "update" /\ updating = "finalize"
      /\ ~AllPassed(report.results)
      /\ pc' = "close" /\ leaving' = "returned" /\ completed' = TRUE
      /\ UNCHANGED <<report, broken_off, has_path, validation, outcomes,
                     summary, exit>>
  BY DEF KeepFailedReport, FailedAlready, AllPassed, Leave, files
<1>2. /\ InTests(outcomes) /\ Len(outcomes) = TestCount
      /\ NoFile \notin Reports
  BY <1>1, ReportConstants DEF IInv, Before, Updating
<1>3. report.status = "failed"
  BY <1>1, <1>2 DEF ReportTrue, InTests
<1>4. ReportTrue' /\ CompletedTrue'
  BY <1>1, <1>2, <1>3
  DEF ReportTrue, CompletedTrue, InTests, AllPassed, Undecided
<1>5. LastTrue' /\ PathTrue'
  BY <1>1 DEF LastTrue, PathTrue, Updating, Writing, Testing
<1>6. OpenTrue' /\ LeavingTrue'
  BY <1>1 DEF OpenTrue, LeavingTrue, Leaving, Ended
<1>7. TerminalAgrees' /\ ExitCodeIsTrue'
  BY <1>1 DEF OpenTrue, TerminalAgrees, ExitCodeIsTrue, Leaving, Ended
<1> QED
  BY <1>4, <1>5, <1>6, <1>7

(***************************************************************************)
(* A test comes to an outcome that the report does not hold yet.           *)
(***************************************************************************)
LEMMA OutcomeKeepsEnd ==
  ASSUME IInv, EndInvariant, RunTest \/ StopTest
  PROVE  EndInvariant'
<1> USE DEF EndInvariant
<1>1. /\ pc \in Testing /\ pc' = "update"
      /\ UNCHANGED <<report, broken_off, has_path, completed, leaving,
                     summary, exit>>
  BY DEF RunTest, StopTest, Testing, Goto, files
<1>2. PICK outcome \in Statuses, kind \in {"result", "error", "cancel"} :
        /\ outcomes' = Append(outcomes, outcome)
        /\ updating' = kind
        /\ kind = "error" => outcome = "failed"
        /\ kind = "cancel" => outcome = "stopped"
  BY DEF RunTest, StopTest, Statuses
<1>3. outcomes \in Seq(Statuses)
  BY DEF IInv, TypeOK, ProgressOK
<1>4. ReportTrue'
  BY <1>1, <1>2 DEF ReportTrue, AllPassed, Recording, Updating, Leaving
<1>5. LastTrue'
  <2>1. LastOutcome' = outcome
    BY <1>2, <1>3 DEF LastOutcome
  <2> QED
    BY <1>2, <2>1 DEF LastTrue
<1>6. PathTrue'
  BY <1>1 DEF PathTrue, Testing
<1>7. leaving = "none" /\ summary = "none" /\ ~completed /\ exit = "none"
  BY <1>1 DEF OpenTrue, Testing, Leaving, Ended
<1>8. OpenTrue' /\ CompletedTrue' /\ LeavingTrue'
  BY <1>1, <1>7 DEF OpenTrue, CompletedTrue, LeavingTrue, Leaving, Ended
<1>9. TerminalAgrees' /\ ExitCodeIsTrue'
  BY <1>1, <1>7 DEF TerminalAgrees, ExitCodeIsTrue
<1> QED
  BY <1>4, <1>5, <1>6, <1>8, <1>9

LEMMA ClosePortKeepsEnd ==
  ASSUME IInv, EndInvariant, ClosePort
  PROVE  EndInvariant'
<1> USE DEF EndInvariant
<1>1. /\ pc = "close" /\ pc' = "closed"
      /\ leaving' \in {leaving, "raised"}
      /\ UNCHANGED <<report, broken_off, has_path, validation, outcomes,
                     completed, summary, exit>>
  BY DEF ClosePort, NoUpdate, files, progress
<1>2. ReportTrue' /\ CompletedTrue'
  BY <1>1 DEF ReportTrue, CompletedTrue, AllPassed, Undecided, Recording,
              Leaving, Updating, Writing
<1>3. LastTrue' /\ PathTrue'
  BY <1>1 DEF LastTrue, PathTrue, Updating, Writing, Testing
<1>4. OpenTrue' /\ LeavingTrue'
  BY <1>1 DEF OpenTrue, LeavingTrue, Leaving, Ended
<1>5. TerminalAgrees' /\ ExitCodeIsTrue'
  BY <1>1 DEF OpenTrue, TerminalAgrees, ExitCodeIsTrue, Ended
<1> QED
  BY <1>2, <1>3, <1>4, <1>5

LEMMA FinishKeepsEnd ==
  ASSUME IInv, EndInvariant, Finish
  PROVE  EndInvariant'
<1> USE DEF EndInvariant
<1>0. ProgressOK /\ ControlOK
  BY DEF IInv, TypeOK
<1>1. /\ pc = "closed" /\ pc' = "exited" /\ exit' = ExitCode
      /\ UNCHANGED <<report, broken_off, has_path, validation, outcomes,
                     completed, leaving>>
  BY DEF Finish, Exit, NoUpdate, files, progress
<1>2. ReportTrue' /\ CompletedTrue'
  BY <1>1 DEF ReportTrue, CompletedTrue, AllPassed, Undecided, Recording,
              Leaving, Updating, Writing
<1>3. LastTrue'
  BY <1>1 DEF LastTrue, Updating, Writing
<1>4. \/ summary' \in {summary, "NOT COMPLETED"}
      \/ completed /\ leaving = "returned" /\ summary' \in {"PASS", "FAIL"}
  <2>1. /\ summary' # summary => leaving \in {"raised", "returned"}
        /\ leaving = "raised" => summary' \in {summary, Label(FALSE)}
        /\ leaving = "returned" => summary' = Label(completed)
    BY DEF Finish
  <2>2. leaving = "raised" => summary' \in {summary, "NOT COMPLETED"}
    BY <1>0, <2>1, LabelTellsOutcomes
  <2>3. leaving = "returned" /\ completed => summary' \in {"PASS", "FAIL"}
    BY <1>0, <2>1, LabelTellsOutcomes
  <2>4. leaving = "returned" /\ ~completed => summary' = "NOT COMPLETED"
    BY <1>0, <2>1, LabelTellsOutcomes
  <2> HIDE DEF EndInvariant
  <2> QED
    BY <2>1, <2>2, <2>3, <2>4
<1>5. PathTrue'
  <2>1. summary' # "none" => has_path
    BY <1>0, <1>1, LabelTellsOutcomes DEF Finish, PathTrue, ProgressOK
  <2> QED
    BY <1>1, <2>1 DEF PathTrue, Testing, Updating, Writing
<1>6. leaving = "cancelled" => summary' = "NOT COMPLETED"
  BY DEF Finish, LeavingTrue
<1>7. OpenTrue' /\ LeavingTrue'
  BY <1>1, <1>6 DEF OpenTrue, LeavingTrue, Leaving, Ended
<1>8. summary' \in {"PASS", "FAIL"} => completed /\ leaving = "returned"
  BY <1>1, <1>4 DEF OpenTrue, Leaving
<1>9. TerminalAgrees'
  <2>1. summary' = "PASS" => report'.status = "passed"
    BY <1>0, <1>1, <1>8, LabelTellsOutcomes DEF Finish, CompletedTrue
  <2>2. summary' = "FAIL" => report'.status = "failed"
    <3> SUFFICES ASSUME summary' = "FAIL" PROVE report'.status = "failed"
      OBVIOUS
    <3>1. completed /\ ~AllPassed(outcomes)
      BY <1>0, <1>8, LabelTellsOutcomes DEF Finish
    <3> QED
      BY <1>1, <3>1 DEF CompletedTrue, ReportTrue
  <2>3. summary' # "none" /\ ~broken_off' => report'.results = outcomes'
    BY <1>1, <1>2, <1>5 DEF ReportTrue, PathTrue, Recording, Updating, Writing
  <2> QED
    BY <2>1, <2>2, <2>3 DEF TerminalAgrees
<1>10. ExitCodeIsTrue'
  <2>1. exit' = "0" => /\ Len(report'.results) = TestCount
                       /\ summary' \in {"PASS", "FAIL"}
    <3> SUFFICES ASSUME exit' = "0"
                 PROVE  /\ Len(report'.results) = TestCount
                        /\ summary' \in {"PASS", "FAIL"}
      OBVIOUS
    <3>1. leaving \in {"returned", "none"} /\ validation = "passed"
      BY <1>0, <1>1 DEF ExitCode, ControlOK
    <3>2. leaving # "none"
      BY <1>1 DEF OpenTrue, Leaving
    <3>3. completed
      BY <3>1, <3>2 DEF LeavingTrue
    <3> QED
      BY <1>0, <1>1, <3>1, <3>2, <3>3, LabelTellsOutcomes
      DEF Finish, CompletedTrue
  <2>2. exit' = "130" => leaving = "cancelled"
    BY <1>1 DEF ExitCode
  <2> QED
    BY <1>1, <1>6, <2>1, <2>2 DEF ExitCodeIsTrue, LeavingTrue
<1> QED
  BY <1>2, <1>3, <1>5, <1>7, <1>9, <1>10
-----------------------------------------------------------------------------
(***************************************************************************)
(* Every step keeps the invariant.                                         *)
(***************************************************************************)
LEMMA StepKeepsEnd ==
  ASSUME IInv, EndInvariant, [Next]_vars
  PROVE  EndInvariant'
<1>0. PathTrue /\ ControlOK
  BY DEF IInv, TypeOK, EndInvariant
<1>1. CASE Prepare
  <2>1. /\ pc = "prepare" /\ report = NoFile
        /\ UNCHANGED <<report, has_path, validation, outcomes, completed,
                       leaving, summary, broken_off, updating>>
        /\ \/ pc' = "connect" /\ exit' = exit
           \/ pc' = "exited" /\ exit' \in {"1", "2"}
    BY <1>1 DEF Prepare, Goto, Exit, NoUpdate, files, progress, IInv
  <2>2. CASE pc' = "connect"
    <3>1. PathTrue'
      BY <1>0, <2>1, <2>2 DEF PathTrue, Testing, Updating, Writing
    <3> QED
      BY <2>1, <2>2, <3>1, QuietStep
      DEF Settled, Leaving, Ended, Recording, Updating, Writing
  <2>3. CASE pc' = "exited"
    BY <2>1, <2>3, EndStep DEF Ended
  <2> QED
    BY <2>1, <2>2, <2>3
<1>2. CASE Connect
  <2>1. /\ pc = "connect" /\ report = NoFile
        /\ UNCHANGED <<report, has_path, validation, outcomes, completed,
                       leaving, summary, broken_off, updating>>
        /\ \/ pc' = "start_test" /\ exit' = exit
           \/ pc' = "exited" /\ exit' \in {"1", "2"}
    BY <1>2 DEF Connect, Goto, Exit, NoUpdate, files, progress, IInv
  <2>2. CASE pc' = "start_test"
    <3>1. PathTrue'
      BY <1>0, <2>1, <2>2 DEF PathTrue, Testing, Updating, Writing
    <3> QED
      BY <2>1, <2>2, <3>1, QuietStep
      DEF Settled, Leaving, Ended, Recording, Updating, Writing
  <2>3. CASE pc' = "exited"
    BY <2>1, <2>3, EndStep DEF Ended
  <2> QED
    BY <2>1, <2>2, <2>3
<1>3. CASE StartTest
  <2>1. /\ pc = "start_test" /\ report = NoFile
        /\ UNCHANGED <<report, has_path, outcomes, completed, summary, exit,
                       broken_off>>
        /\ \/ pc' = "update" /\ updating' = "create" /\ leaving' = leaving
           \/ pc' = "close" /\ leaving' = "raised"
    BY <1>3 DEF StartTest, Goto, Leave, files, progress, IInv
  <2>2. CASE pc' = "update"
    <3>1. PathTrue'
      BY <1>0, <2>1, <2>2 DEF PathTrue, Testing
    <3> QED
      BY <2>1, <2>2, <3>1, QuietStep
      DEF Settled, Leaving, Ended, Recording, Updating, Writing
  <2>3. CASE pc' = "close"
    BY <2>1, <2>3, BreakOffStep DEF Leaving, Ended
  <2> QED
    BY <2>1, <2>2, <2>3
<1>4. CASE \/ ReadReport /\ ~WriteFails
           \/ OpenTemporary /\ ~WriteFails
           \/ FillTemporary /\ ~WriteFails
  <2>1. /\ pc \in Updating /\ pc' \in Updating
        /\ UNCHANGED <<updating, validation>> /\ UNCHANGED Settled
    BY <1>4
    DEF ReadReport, OpenTemporary, FillTemporary, Goto, files, progress,
        Settled, Updating, Writing
  <2>2. PathTrue'
    BY <1>0, <2>1 DEF PathTrue, Settled, Testing, Updating, Writing
  <2> QED
    BY <2>1, <2>2, QuietStep
    DEF Leaving, Ended, Recording, Updating, Writing
<1>5. CASE ReadReport \/ OpenTemporary \/ FillTemporary \/ ReplaceReport
  <2>1. pc \in Updating
    BY <1>5
    DEF ReadReport, OpenTemporary, FillTemporary, ReplaceReport, Updating,
        Writing
  <2>2. CASE WriteFails
    BY <2>1, <2>2, WriteFailsKeepsEnd
  <2>3. CASE ReplaceReport /\ ~WriteFails
    BY <2>3, ReplaceKeepsEnd DEF ReplaceReport
  <2> QED
    BY <1>4, <1>5, <2>2, <2>3
<1>6. CASE ValidateSession \/ CancelTest \/ FinalizeRun
  <2>1. /\ pc \in Testing \cup {"validate"}
        /\ \/ pc' = "update" /\ updating' \in {"validate", "finalize"}
           \/ pc' = "stop"
        /\ UNCHANGED Settled
    BY <1>6
    DEF ValidateSession, CancelTest, FinalizeRun, Goto, NoUpdate, files,
        progress, Settled, Testing
  <2>2. PathTrue'
    BY <1>0, <2>1 DEF PathTrue, Settled, Testing, Updating, Writing
  <2> QED
    BY <2>1, <2>2, QuietStep
    DEF Leaving, Ended, Recording, Updating, Writing, Testing
<1>7. CASE Interrupt
  <2>1. /\ pc \notin Ended
        /\ UNCHANGED <<report, has_path, validation, outcomes, completed,
                       summary>>
        /\ broken_off' = TRUE
        /\ \/ /\ pc \notin Leaving /\ pc' = "close"
              /\ leaving' = "interrupted" /\ exit' = exit
           \/ pc' = "exited" /\ exit' = "traceback" /\ leaving' = leaving
    BY <1>7
    DEF Interrupt, InBlock, Running, Leave, Exit, progress, Leaving, Ended
  <2> QED
    BY <2>1, BreakOffStep, EndStep
<1>8. CASE Kill
  BY <1>8, EndStep DEF Kill, Running, files, progress, Ended
<1>9. CASE UNCHANGED vars
  <2>1. UNCHANGED <<pc, updating, validation>> /\ UNCHANGED Settled
    BY <1>9 DEF vars, files, progress, Settled
  <2>2. ReportTrue'
    BY <2>1 DEF EndInvariant, ReportTrue, Settled, Recording, AllPassed
  <2>3. LastTrue' /\ PathTrue'
    BY <2>1 DEF EndInvariant, LastTrue, PathTrue, Settled, LastOutcome
  <2>4. OpenTrue'
    BY <2>1 DEF EndInvariant, OpenTrue, Settled
  <2>5. CompletedTrue' /\ LeavingTrue'
    BY <2>1
    DEF EndInvariant, CompletedTrue, LeavingTrue, Settled, AllPassed, Undecided
  <2>6. TerminalAgrees' /\ ExitCodeIsTrue'
    BY <2>1 DEF EndInvariant, TerminalAgrees, ExitCodeIsTrue, Settled
  <2> QED
    BY <2>2, <2>3, <2>4, <2>5, <2>6 DEF EndInvariant
<1> QED
  BY <1>1, <1>2, <1>3, <1>5, <1>6, <1>7, <1>8, <1>9, KeepFailedKeepsEnd,
     OutcomeKeepsEnd, ClosePortKeepsEnd, FinishKeepsEnd
  DEF Next, Step

LEMMA EndIsInvariant == Spec => []EndInvariant
BY InitialHoldsEndInvariant, StepKeepsEnd, InductiveInvariant, PTL DEF Spec
-----------------------------------------------------------------------------
(***************************************************************************)
(* A FULL TEST line that says PASS or FAIL is what the report says, and    *)
(* the results in it are those of the tests, for any number of tests.      *)
(***************************************************************************)
THEOREM TerminalTellsReport == Spec => []TerminalAgrees
<1>1. EndInvariant => TerminalAgrees
  BY DEF EndInvariant
<1> QED
  BY <1>1, EndIsInvariant, PTL

(***************************************************************************)
(* A run that ends with an exit code leaves its report decided, whichever  *)
(* way the block was left, if every update of the report succeeded and     *)
(* Ctrl-C came only within a test.                                         *)
(***************************************************************************)
THEOREM EndedReportIsDecided == Spec => []EndedRunIsDecided
<1>1. IInv /\ EndInvariant => EndedRunIsDecided
  <2> SUFFICES ASSUME IInv, EndInvariant PROVE EndedRunIsDecided
    OBVIOUS
  <2>1. exit \in {"0", "1", "2", "130"} => pc = "exited"
    BY DEF EndInvariant, OpenTrue, Ended
  <2> QED
    BY <2>1 DEF EndInvariant, EndedRunIsDecided, ReportTrue
<1> QED
  BY <1>1, EndIsInvariant, InductiveInvariant, PTL

(***************************************************************************)
(* Exit code 0 stands for a full report and a verdict on the terminal, 130 *)
(* for a report whose last result is "stopped".                            *)
(***************************************************************************)
THEOREM ExitCodeTellsRun == Spec => []ExitCodeIsTrue
<1>1. EndInvariant => ExitCodeIsTrue
  BY DEF EndInvariant
<1> QED
  BY <1>1, EndIsInvariant, PTL

-----------------------------------------------------------------------------

(***************************************************************************)
(* Every step of the preparation leaves the run of RunReport alone or is   *)
(* its step of that name.                                                  *)
(***************************************************************************)
LEMMA StepsOfRun == BoardNext => [Next]_vars
<1> SUFFICES ASSUME BoardNext PROVE [Next]_vars
  OBVIOUS
<1>1. CASE LoadConfigurations
  BY <1>1 DEF LoadConfigurations, GoOnWith, GiveUp, Next, Step
<1>2. CASE BuildFirmware
  BY <1>2 DEF BuildFirmware, GoOnWith, GiveUp, Next, Step
<1>3. CASE SelectProbe
  BY <1>3 DEF SelectProbe, GoOnWith, GiveUp, Next, Step
<1>4. CASE ProgramAndVerify
  BY <1>4 DEF ProgramAndVerify, GoOnWith, GiveUp, Next, Step
<1>5. CASE Reset
  BY <1>5 DEF Reset, GiveUp, Next, Step
<1>6. CASE FindPort
  BY <1>6 DEF FindPort
<1>7. CASE NoPort \/ OpenPort
  BY <1>7 DEF NoPort, OpenPort, Next, Step
<1>8. CASE BeginSession
  BY <1>8 DEF BeginSession, Next, Step
<1>9. CASE InSession
  BY <1>9 DEF InSession, Next, Step
<1>10. CASE Enumerate \/ LeaveBus
  BY <1>10 DEF Enumerate, LeaveBus
<1>11. CASE BreakOff
  BY <1>11 DEF BreakOff, Next
<1> QED
  BY <1>1, <1>2, <1>3, <1>4, <1>5, <1>6, <1>7, <1>8, <1>9, <1>10, <1>11
  DEF BoardNext

(***************************************************************************)
(* The prepared run is a run as RunReport describes it, so all that is     *)
(* proved of RunReport holds of it.                                        *)
(***************************************************************************)
THEOREM BoardRunIsRun == BoardSpec => Spec
<1>1. BoardInit => Init
  BY DEF BoardInit
<1>2. [BoardNext]_runVars => [Next]_vars
  BY StepsOfRun DEF runVars
<1> QED
  BY <1>1, <1>2, PTL DEF BoardSpec, Spec

(***************************************************************************)
(* However the preparation and the tests end, a report that says "passed"  *)
(* holds a passed validation and a passed result of every enabled test.    *)
(***************************************************************************)
THEOREM PassedBoardPassedAll == BoardSpec => []PassedMeansAllPassed
BY BoardRunIsRun, PassedReportIsTrue, PTL
-----------------------------------------------------------------------------
(***************************************************************************)
(* The step of the preparation knows what has been done to the board; the  *)
(* port is looked for only after that.                                     *)
(***************************************************************************)
ChoicesOK ==
  /\ requested_port \in Boards \cup {Nobody}
  /\ image \in [Boards -> {"other", "partial", "verified"}]
  /\ listed \in SUBSET Boards
  /\ preparing \in {"configuration", "build", "probes", "program", "reset",
                    "done"}
  /\ absent \in BOOLEAN

Prepared ==
  /\ preparing \in {"program", "reset", "done"} => probe \in Boards
  /\ preparing \in {"reset", "done"} => image[probe] = "verified"
  /\ preparing = "done" => pc # "prepare"
  /\ preparing # "done" => pc \in {"prepare", "exited", "killed"}

\* Without a port the run has not got to a report; a port that was found is
\* the right one or one of the two exceptions.
PortOK ==
  /\ port = Nobody =>
       report = NoFile /\ pc \in {"prepare", "connect", "exited", "killed"}
  /\ port # Nobody =>
       /\ preparing = "done"
       /\ \/ port = probe
          \/ requested_port \notin {probe, Nobody}
          \/ absent /\ requested_port = Nobody

BoardInvariant == ChoicesOK /\ Prepared /\ PortOK

(***************************************************************************)
(* A selection is one board of those found, and the only one if none was   *)
(* asked for.                                                              *)
(***************************************************************************)
LEMMA MatchIsUnique ==
  ASSUME NEW found \in SUBSET Boards, NEW requested,
         NEW match \in Matches(found, requested)
  PROVE  /\ match \in found
         /\ requested = Nobody => found = {match}
         /\ requested # Nobody => match = requested
<1> DEFINE named == IF requested = Nobody THEN found ELSE found \cap {requested}
<1>1. match \in named /\ Cardinality(named) = 1
  BY DEF Matches
<1>2. IsFiniteSet(named)
  BY BenchConstants, FS_Subset
<1>3. \E board : named = {board}
  BY <1>1, <1>2, FS_Singleton
<1> QED
  BY <1>1, <1>3

(***************************************************************************)
(* Once there is a port, the steps of RunReport leave alone what the port  *)
(* and the image promise; without one they are not there to be taken.      *)
(***************************************************************************)
LEMMA SessionNeedsPort ==
  ASSUME BoardInvariant, BeginSession \/ InSession
  PROVE  port # Nobody /\ pc' \notin {"prepare", "connect"}
<1>1. pc \notin {"prepare", "connect", "exited", "killed"}
  BY DEF BeginSession, InSession, StartTest, ReadReport, KeepFailedReport,
         OpenTemporary, FillTemporary, ReplaceReport, ValidateSession, RunTest,
         CancelTest, StopTest, FinalizeRun, ClosePort, Finish
<1>2. pc' \notin {"prepare", "connect"}
  BY DEF BeginSession, InSession, StartTest, ReadReport, KeepFailedReport,
         OpenTemporary, FillTemporary, ReplaceReport, ValidateSession, RunTest,
         CancelTest, StopTest, FinalizeRun, ClosePort, Finish, Goto, Leave,
         Exit, WriteFails, AfterUpdate
<1> QED
  BY <1>1, <1>2 DEF BoardInvariant, PortOK

LEMMA BoardInvariantInitially == BoardInit => BoardInvariant
BY DEF BoardInit, Init, BoardInvariant, ChoicesOK, Prepared, PortOK

LEMMA BoardInvariantStep ==
  BoardInvariant /\ [BoardNext]_runVars => BoardInvariant'
<1> SUFFICES ASSUME BoardInvariant, [BoardNext]_runVars
             PROVE  BoardInvariant'
  OBVIOUS
<1> USE BenchConstants DEF BoardInvariant, ChoicesOK, Prepared, PortOK,
        requests, choices, bench
<1>1. CASE LoadConfigurations
  BY <1>1 DEF LoadConfigurations, GoOnWith, GiveUp, Prepare, Goto, Exit,
              NoUpdate, files, vars, progress
<1>2. CASE BuildFirmware
  BY <1>2 DEF BuildFirmware, GoOnWith, GiveUp, Prepare, Goto, Exit,
              NoUpdate, files, vars, progress
<1>3. CASE SelectProbe
  <2>1. PICK probes \in SUBSET Boards :
          \/ /\ probe' \in Matches(probes, requested_serial)
             /\ GoOnWith("program")
          \/ /\ GiveUp("1")
             /\ UNCHANGED probe
    BY <1>3 DEF SelectProbe
  <2>2. probe' \in Matches(probes, requested_serial) => probe' \in Boards
    BY MatchIsUnique
  <2> QED
    BY <1>3, <2>1, <2>2
    DEF SelectProbe, GoOnWith, GiveUp, Prepare, Goto, Exit, NoUpdate, files,
        vars, progress
<1>4. CASE ProgramAndVerify
  BY <1>4 DEF ProgramAndVerify, UnderReset, GoOnWith, GiveUp, Prepare, Goto,
              Exit, NoUpdate, files, vars, progress
<1>5. CASE Reset
  BY <1>5 DEF Reset, UnderReset, GiveUp, Prepare, Goto, Exit, NoUpdate, files,
              progress
<1>6. CASE FindPort
  <2>1. port' \in Matches(listed, requested_port) /\ pc = "connect"
    BY <1>6 DEF FindPort
  <2>2. /\ port' \in listed
        /\ requested_port = Nobody => listed = {port'}
        /\ requested_port # Nobody => port' = requested_port
    BY <2>1, MatchIsUnique
  <2>3. \/ port' = probe
        \/ requested_port \notin {probe, Nobody}
        \/ absent' /\ requested_port = Nobody
    BY <1>6, <2>2 DEF FindPort
  <2>4. preparing = "done"
    BY <2>1
  <2> QED
    BY <1>6, <2>2, <2>3, <2>4 DEF FindPort, vars, files
<1>7. CASE NoPort \/ OpenPort
  BY <1>7 DEF NoPort, OpenPort, Connect, Goto, Exit, NoUpdate, files
<1>8. CASE BeginSession \/ InSession
  <2>1. port # Nobody /\ pc' \notin {"prepare", "connect"}
    BY <1>8, SessionNeedsPort
  <2>2. UNCHANGED <<requests, choices, bench>>
    BY <1>8 DEF BeginSession, InSession
  <2> QED
    BY <2>1, <2>2
<1>9. CASE Enumerate \/ LeaveBus
  BY <1>9 DEF Enumerate, LeaveBus, vars, files
<1>10. CASE BreakOff
  <2>1. UNCHANGED report /\ pc' \in {"close", "exited", "killed"}
    BY <1>10 DEF BreakOff, Interrupt, Kill, Leave, Exit, files
  <2>2. pc' = "close" => pc \notin {"prepare", "connect", "exited", "killed"}
    BY <1>10 DEF BreakOff, Interrupt, Kill, Leave, Exit, InBlock, Running
  <2> QED
    BY <1>10, <2>1, <2>2 DEF BreakOff, UnderReset
<1>11. CASE UNCHANGED runVars
  BY <1>11 DEF runVars, vars, files
<1> QED
  BY <1>1, <1>2, <1>3, <1>4, <1>5, <1>6, <1>7, <1>8, <1>9, <1>10, <1>11
  DEF BoardNext

(***************************************************************************)
(* The board that is reported on is the board that was programmed,         *)
(* verified and reset, with the two exceptions ReportIsOfFlashedBoard      *)
(* names, for any number of boards on the bench.                           *)
(***************************************************************************)
THEOREM FlashedBoardReported == BoardSpec => []ReportIsOfFlashedBoard
<1>1. BoardInvariant => ReportIsOfFlashedBoard
  BY DEF BoardInvariant, Prepared, PortOK, ReportIsOfFlashedBoard
<1> QED
  BY <1>1, BoardInvariantInitially, BoardInvariantStep, PTL DEF BoardSpec
=============================================================================
