----------------------------- MODULE ReportFile -----------------------------
(***************************************************************************)
(* What a reader of the results directory may ever find of one test run:   *)
(* the report is created in progress, validated once, extended by one      *)
(* result at a time, and decided once.  Every version is a whole report.   *)
(***************************************************************************)
EXTENDS Naturals, Sequences

CONSTANTS
  TestCount,  \* enabled tests of the configuration
  NoFile      \* there is no report

VARIABLE report

Initial == [status |-> "in_progress", validation |-> "none", results |-> << >>]

Validated(old, ok) ==
  [old EXCEPT !.validation = IF ok THEN "passed" ELSE "failed",
              !.status = IF ok THEN @ ELSE "failed"]

Recorded(old, status) ==
  [old EXCEPT !.results = Append(@, status),
              !.status = IF status = "passed" THEN @ ELSE "failed"]

Finalized(old) == [old EXCEPT !.status = "passed"]

Init == report = NoFile

Create ==
  /\ report = NoFile
  /\ report' = Initial

Validate ==
  /\ report # NoFile
  /\ report.validation = "none"
  /\ \E ok \in BOOLEAN : report' = Validated(report, ok)

\* A stopped test is the last one.
Record ==
  /\ report # NoFile
  /\ report.validation = "passed"
  /\ Len(report.results) < TestCount
  /\ \A i \in DOMAIN report.results : report.results[i] # "stopped"
  /\ \E status \in {"passed", "failed", "stopped"} :
       report' = Recorded(report, status)

Finalize ==
  /\ report # NoFile
  /\ report.validation = "passed"
  /\ Len(report.results) = TestCount
  /\ \A i \in DOMAIN report.results : report.results[i] = "passed"
  /\ report' = Finalized(report)

Next == Create \/ Validate \/ Record \/ Finalize

Spec == Init /\ [][Next]_report
=============================================================================
