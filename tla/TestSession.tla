---------------------------- MODULE TestSession ----------------------------
(***************************************************************************)
(* A whole component run: the board tester (board_tester/fc_test) against  *)
(* the firmware of SessionProtocol.                                        *)
(*                                                                         *)
(* The tester's main thread opens the session, then runs the enabled tests *)
(* one after the other (runner.run).  Each test is a RUN_COMPONENT_TEST,   *)
(* its acknowledgement, and messages until the firmware reports a verdict  *)
(* or the operator's decision makes the handler stop the test              *)
(* (protocol/component_session.py, tests/*/handler.py).  An error ends the *)
(* run; Ctrl-C stops the test under way and ends the run.                  *)
(*                                                                         *)
(* Handlers of live tests (tests/live_operator.py) read the answer in a    *)
(* thread of their own that stays in input() until the operator types a    *)
(* line.  The line goes to the thread that has waited longest, whatever    *)
(* test that thread belongs to.                                            *)
(*                                                                         *)
(* Contents of events, the session validation and the report file are left *)
(* out; a request is written in one step (write_line has no failure here). *)
(***************************************************************************)
EXTENDS SessionProtocol

CONSTANTS
  TestOrders,         \* configurations: types of the enabled tests, in order
  HostBuffer,         \* bound: messages the host's driver keeps for the tester
  OperatorMayCancel,  \* whether the operator presses Ctrl-C
  DeviceMayStall      \* whether an answer may miss its two-second deadline

ASSUME TestConstants ==
  /\ TestOrders \subseteq Seq(ProductionTests)
  /\ \A order \in TestOrders : IsInjective(order)
  /\ HostBuffer \in Nat \ {0}
  /\ OperatorMayCancel \in BOOLEAN
  /\ DeviceMayStall \in BOOLEAN

VARIABLES
  test_order,      \* the configuration of this run
  inbox,           \* messages at the host, not yet read by the tester
  current,         \* 0 during START_TEST, then the number of the test
  tester,          \* what the main thread does next
  prompt_started,  \* live handler: the reader thread was started
  readers,         \* tests whose prompt waits in input(), oldest first
  answer,          \* the operator's answer to the test's prompt, if any
  failures,        \* history: tests whose failure the firmware reported
  results          \* the results recorded so far

testerVars == <<inbox, current, tester, prompt_started, readers, answer,
                failures, results>>
testVars == <<vars, testerVars>>

Tests == DOMAIN test_order
TestType == test_order[current]
CommandId == current + 1
StopId == CommandId + 1000
Ended == tester \in {"finished", "aborted", "cancelled"}

(***************************************************************************)
(* How each handler involves the operator: not at all, when the test has   *)
(* started, on an event, or with a live display once an event arrived.     *)
(***************************************************************************)
AsksOnStart == {"status_led_red", "status_led_green"}
AsksOnEvent == {"rgb_led"}
Live == {"imu", "barometer"}
ReadyEvent(type) ==
  CASE type = "imu" -> "imu_ready"
    [] type = "barometer" -> "barometer_ready"

TestInit ==
  /\ Init
  /\ test_order \in TestOrders
  /\ inbox = << >>
  /\ current = 0
  /\ tester = "begin"
  /\ prompt_started = FALSE
  /\ readers = << >>
  /\ answer = "none"
  /\ failures = {}
  /\ results = << >>
-----------------------------------------------------------------------------
(***************************************************************************)
(* The firmware's steps, and a message that reaches the host.              *)
(***************************************************************************)
FirmwareStep ==
  /\ \/ ReceiveLine \/ ServeTransmission \/ AnswerRequest \/ RequestsDone
     \/ SkipComponent
  /\ UNCHANGED testerVars

ComponentStep ==
  /\ ProcessComponent
  /\ failures' =
       IF /\ transmit_lines' # transmit_lines
          /\ Last(transmit_lines').detail \in {"failed", "component_failure"}
       THEN failures \cup {active_definition}
       ELSE failures
  /\ UNCHANGED <<inbox, current, tester, prompt_started, readers, answer,
                 results>>

Deliver ==
  /\ ~Ended
  /\ Len(inbox) < HostBuffer
  /\ HostReceives
  /\ inbox' = Append(inbox, Head(transmit_lines))
  /\ UNCHANGED <<current, tester, prompt_started, readers, answer, failures,
                 results>>
-----------------------------------------------------------------------------
(***************************************************************************)
(* Building blocks of the tester's steps.                                  *)
(***************************************************************************)
Write(type, id, test) ==
  /\ wire' = Append(wire, [type |-> type, command_id |-> id,
                           test_type |-> test])
  /\ host_waiting' = Append(host_waiting, id)
  /\ requests' = requests + 1
  /\ UNCHANGED <<received_lines, transmit_lines, transmission,
                 transmitted_lines_dropped, runnerVars, phase, host_view>>

WriteStop == Write("STOP_COMPONENT_TEST", StopId, NoTest)

Result(status, reason) ==
  [test |-> TestType, status |-> status, reason |-> reason,
   answer |-> answer]

\* The handler of the next test starts afresh.
NextTest ==
  /\ current' = current + 1
  /\ tester' = IF current = Len(test_order) THEN "finished" ELSE "begin"
  /\ prompt_started' = FALSE
  /\ answer' = "none"
  /\ UNCHANGED readers

Complete(status, reason) ==
  /\ results' = Append(results, Result(status, reason))
  /\ NextTest

\* The run ends with the exception; a test under way is recorded as failed.
Abort(reason) ==
  /\ tester' = "aborted"
  /\ results' = IF current = 0 THEN results
                ELSE Append(results, Result("failed", reason))
  /\ UNCHANGED <<current, prompt_started, readers, answer>>

Cancelled(reason) ==
  /\ tester' = "cancelled"
  /\ results' = Append(results, Result("stopped", reason))
  /\ UNCHANGED <<current, prompt_started, readers, answer>>

(***************************************************************************)
(* The checks of decode_start_test_response and                            *)
(* decode_component_test_message on the message read.                      *)
(***************************************************************************)
Correlated(message, id) ==
  message.command_id = id /\ message.test_type = TestType

IsFirstResponse(message) ==
  IF current = 0
  THEN message.type = "START_TEST_RESPONSE" /\ message.command_id = CommandId
  ELSE message.type = "TEST_STARTED" /\ Correlated(message, CommandId)

IsStopResponse(message) ==
  message.type = "TEST_STOPPED" /\ Correlated(message, StopId)

IsEvent(message) ==
  message.type = "TEST_EVENT" /\ Correlated(message, CommandId)

IsCompletion(message) ==
  message.type = "TEST_COMPLETED" /\ Correlated(message, CommandId)
-----------------------------------------------------------------------------
(***************************************************************************)
(* start_test and the head of run_component_test.                          *)
(***************************************************************************)
Begin ==
  /\ tester = "begin"
  /\ IF current = 0 THEN Write("START_TEST", CommandId, NoTest)
                    ELSE Write("RUN_COMPONENT_TEST", CommandId, TestType)
  /\ tester' = "await_first"
  /\ UNCHANGED <<inbox, current, prompt_started, readers, answer, failures,
                 results>>

ReadFirst ==
  /\ tester = "await_first"
  /\ inbox # << >>
  /\ inbox' = Tail(inbox)
  /\ LET message == Head(inbox)
     IN \/ /\ ~IsFirstResponse(message)
           /\ Abort("protocol_error")
        \/ /\ IsFirstResponse(message)
           /\ current = 0
           /\ NextTest
           /\ UNCHANGED results
        \/ /\ IsFirstResponse(message)
           /\ current # 0 /\ TestType \in AsksOnStart
           /\ tester' = "prompting"
           /\ readers' = Append(readers, current)
           /\ UNCHANGED <<current, prompt_started, answer, results>>
        \/ /\ IsFirstResponse(message)
           /\ current # 0 /\ TestType \notin AsksOnStart
           /\ tester' = "listening"
           /\ UNCHANGED <<current, prompt_started, readers, answer, results>>
  /\ UNCHANGED <<vars, failures>>

(***************************************************************************)
(* The loop of run_component_test.                                         *)
(***************************************************************************)
ReadMessage ==
  /\ tester = "listening"
  /\ inbox # << >>
  /\ inbox' = Tail(inbox)

\* A message that is no event is the verdict, or an error.
ReadCompletion ==
  /\ ReadMessage
  /\ ~IsEvent(Head(inbox))
  /\ IF IsCompletion(Head(inbox))
     THEN Complete(Head(inbox).detail, "verdict")
     ELSE Abort("protocol_error")
  /\ UNCHANGED <<vars, failures>>

\* RgbLedTestHandler: the operator is asked in the main thread.
ReadColourActive ==
  /\ ReadMessage
  /\ IsEvent(Head(inbox))
  /\ TestType \in AsksOnEvent /\ Head(inbox).detail = "rgb_colour_active"
  /\ tester' = "prompting"
  /\ readers' = Append(readers, current)
  /\ UNCHANGED <<vars, current, prompt_started, answer, failures, results>>

\* SdCardTestHandler, and the events without effect on the lifecycle.
ReadPlainEvent ==
  /\ ReadMessage
  /\ IsEvent(Head(inbox))
  /\ TestType \notin Live
  /\ ~(TestType \in AsksOnEvent /\ Head(inbox).detail = "rgb_colour_active")
  /\ UNCHANGED <<vars, current, tester, prompt_started, readers, answer,
                 failures, results>>

\* Fault: the answer is looked for only when the prompt is shown.
ReadLiveEventOnce ==
  /\ ReadMessage
  /\ IsEvent(Head(inbox))
  /\ TestType \in Live
  /\ LET asks == Head(inbox).detail = ReadyEvent(TestType) /\ ~prompt_started
     IN /\ prompt_started' = (prompt_started \/ asks)
        /\ readers' = IF asks THEN Append(readers, current) ELSE readers
  /\ UNCHANGED <<vars, tester, current, answer, failures, results>>

(***************************************************************************)
(* LiveOperatorTestHandler.handle_event: start the prompt once, and stop   *)
(* the test if the answer is there.                                        *)
(***************************************************************************)
ReadLiveEvent ==
  /\ ReadMessage
  /\ IsEvent(Head(inbox))
  /\ TestType \in Live
  /\ LET asks == Head(inbox).detail = ReadyEvent(TestType) /\ ~prompt_started
     IN /\ prompt_started' = (prompt_started \/ asks)
        /\ readers' = IF asks THEN Append(readers, current) ELSE readers
  /\ \/ /\ answer = "none"
        /\ UNCHANGED <<vars, tester>>
     \/ /\ answer # "none"
        /\ WriteStop
        /\ tester' = "await_stop"
  /\ UNCHANGED <<current, answer, failures, results>>

(***************************************************************************)
(* The operator types a line.  It answers the current test only if the     *)
(* reader that gets it belongs to the current test.                        *)
(***************************************************************************)
OperatorAnswers ==
  /\ ~Ended
  /\ readers # << >>
  /\ readers' = Tail(readers)
  /\ \E a \in {"yes", "no"} :
       answer' = IF Head(readers) = current THEN a ELSE answer
  /\ UNCHANGED <<vars, inbox, current, tester, prompt_started, failures,
                 results>>

\* confirm() of the LED handlers, once prompt_yes_no returns.
Confirm ==
  /\ tester = "prompting"
  /\ answer # "none"
  /\ WriteStop
  /\ tester' = "await_stop"
  /\ UNCHANGED <<inbox, current, prompt_started, readers, answer, failures,
                 results>>

\* Fault: messages before the acknowledgement are skipped.
ReadStopResponseSkipping ==
  /\ tester = "await_stop"
  /\ inbox # << >>
  /\ inbox' = Tail(inbox)
  /\ IF IsStopResponse(Head(inbox))
     THEN Complete(IF answer = "yes" THEN "passed" ELSE "failed", "operator")
     ELSE UNCHANGED <<current, tester, prompt_started, readers, answer,
                      results>>
  /\ UNCHANGED <<vars, failures>>

(***************************************************************************)
(* stop_component_test: the next message has to be the acknowledgement.    *)
(***************************************************************************)
ReadStopResponse ==
  /\ tester = "await_stop"
  /\ inbox # << >>
  /\ inbox' = Tail(inbox)
  /\ \/ /\ IsStopResponse(Head(inbox))
        /\ Complete(IF answer = "yes" THEN "passed" ELSE "failed", "operator")
     \/ /\ ~IsStopResponse(Head(inbox))
        /\ Abort("protocol_error")
  /\ UNCHANGED <<vars, failures>>

(***************************************************************************)
(* Ctrl-C while a handler runs: the runner stops the test and ends the run.*)
(***************************************************************************)
Cancel ==
  /\ OperatorMayCancel
  /\ current \in Tests
  /\ tester \in {"begin", "await_first", "listening", "prompting",
                 "await_stop"}
  /\ WriteStop
  /\ tester' = "cancelling"
  /\ UNCHANGED <<inbox, current, prompt_started, readers, answer, failures,
                 results>>

\* Fault: whatever message comes is taken for the acknowledgement.
ReadCancelAnyResponse ==
  /\ tester = "cancelling"
  /\ inbox # << >>
  /\ inbox' = Tail(inbox)
  /\ Cancelled("acknowledged")
  /\ UNCHANGED <<vars, failures>>

ReadCancelResponse ==
  /\ tester = "cancelling"
  /\ inbox # << >>
  /\ inbox' = Tail(inbox)
  /\ Cancelled(IF IsStopResponse(Head(inbox)) THEN "acknowledged"
                                              ELSE "unacknowledged")
  /\ UNCHANGED <<vars, failures>>

(***************************************************************************)
(* read_line gives up.  In the loop of run_component_test that changes     *)
(* nothing.                                                                *)
(***************************************************************************)
Timeout ==
  /\ DeviceMayStall
  /\ inbox = << >>
  /\ \/ tester \in {"await_first", "await_stop"} /\ Abort("timeout")
     \/ tester = "cancelling" /\ Cancelled("unacknowledged")
  /\ UNCHANGED <<vars, inbox, failures>>
-----------------------------------------------------------------------------
Device == FirmwareStep \/ ComponentStep \/ Deliver

MainThread ==
  \/ Begin \/ ReadFirst
  \/ ReadCompletion
  \/ ReadColourActive \/ ReadPlainEvent \/ ReadLiveEvent
  \/ Confirm \/ ReadStopResponse \/ ReadCancelResponse

TestNext ==
  /\ Device \/ MainThread \/ OperatorAnswers \/ Cancel \/ Timeout
  /\ UNCHANGED test_order

TestSpec == TestInit /\ [][TestNext]_<<testVars, test_order>>

(***************************************************************************)
(* The firmware's loop and the tester's main thread run on; the operator   *)
(* answers a prompt in the end, and handles the card when told to; a       *)
(* component that can report something does so in the end, although each   *)
(* single call of process() may still find its timer running.              *)
(***************************************************************************)
Report == ComponentStep /\ transmit_lines' # transmit_lines

FairTestSpec ==
  /\ TestSpec
  /\ WF_testVars(FirmwareStep \/ ComponentStep)
  /\ SF_testVars(ReceiveLine /\ UNCHANGED testerVars)
  /\ SF_testVars(Report)
  /\ WF_testVars(Deliver)
  /\ WF_testVars(MainThread)
  /\ WF_testVars(OperatorAnswers)
-----------------------------------------------------------------------------
(***************************************************************************)
(* Each request finds the line quiet: when the tester begins a test, the   *)
(* firmware has no active test, and no message of the tests before is on   *)
(* its way in either direction that could be taken for one of this test.   *)
(***************************************************************************)
CleanStart ==
  tester = "begin" =>
    /\ Idle
    /\ inbox = << >> /\ Undelivered = << >>
    /\ wire = << >> /\ received_lines = << >>

(***************************************************************************)
(* A test passes only when the firmware reported no failure of it: neither *)
(* an answer that races with a failing component nor a failure on its way  *)
(* while the test is being stopped lets a broken component pass.           *)
(***************************************************************************)
PassedMeansHealthy ==
  \A i \in DOMAIN results :
    results[i].status = "passed" => results[i].test \notin failures

(***************************************************************************)
(* "operator cancelled test" without the remark that the acknowledgement   *)
(* was not received: every component of the board is off.                  *)
(***************************************************************************)
CancelledMeansOff ==
  tester = "cancelled" /\ Last(results).reason = "acknowledged"
  => \A t \in ProductionTests : component[t] = Off

(***************************************************************************)
(* Every run comes to an end if the operator answers, however samples,     *)
(* failures, answers, acknowledgements, Ctrl-C and deadlines interleave.   *)
(***************************************************************************)
RunEnds == <>Ended

(***************************************************************************)
(* DEVELOPMENT.md: "Enter accepts; `n` records failure. The tester sends   *)
(* the usual stop request before persisting the operator decision."  When  *)
(* the operator accepted a component that never failed, its result is a    *)
(* pass.                                                                   *)
(***************************************************************************)
DecisionRecorded ==
  \A i \in DOMAIN results :
    results[i].answer = "yes" /\ results[i].test \notin failures
    => results[i].status = "passed"

(***************************************************************************)
(* The same promise, "Enter accepts": while the prompt of the current test *)
(* is shown, the next line the operator types is the answer to it.         *)
(***************************************************************************)
AnswerReachesPrompt ==
  (\E i \in DOMAIN readers : readers[i] = current) => Head(readers) = current
=============================================================================
