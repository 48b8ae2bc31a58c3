-------------------------- MODULE SessionProtocol --------------------------
(***************************************************************************)
(* The firmware's main loop above the transport: session_protocol.c        *)
(* dispatches complete request lines and drives the component test runner  *)
(* (component_test_runner.c), which runs one component at a time.          *)
(*                                                                         *)
(* Each turn of application_run first moves lines between USB and the two  *)
(* bounded queues (usb_cdc_transport_process), then answers requests while *)
(* a response would find room, then gives the active component one call of *)
(* process() if its message would find room.                               *)
(*                                                                         *)
(* The transport appears as UsbReceivePath and UsbTransmitPath leave it:   *)
(* requests arrive whole and in order and are dropped when the line queue  *)
(* is full; the oldest outgoing line reaches the host at any time after    *)
(* its transfer started and frees its place in the next turn.              *)
(***************************************************************************)
EXTENDS Naturals, Sequences, SequencesExt, ComponentBehaviours

CONSTANTS
  LineQueueDepth,   \* USB_CDC_LINE_QUEUE_DEPTH, 2
  TransmitDepth,    \* USB_CDC_TRANSMIT_QUEUE_DEPTH, 2
  RequestedTypes,   \* the test types the host asks for, also unknown ones
  MaxRequests,      \* bound: how many requests the host sends
  MaxOnWire         \* bound: requests sent and not yet framed

ASSUME SessionConstants ==
  /\ LineQueueDepth \in Nat \ {0}
  /\ TransmitDepth \in Nat \ {0}
  /\ MaxRequests \in Nat
  /\ MaxOnWire \in Nat \ {0}

VARIABLES
  wire,              \* requests sent by the host, not yet framed
  received_lines,    \* complete requests waiting for the session
  transmit_lines,    \* messages to the host, oldest first
  transmission,      \* of the oldest message: "idle", "active", "completed"
  transmitted_lines_dropped,  \* statistic: messages that found no room
  active_definition, \* runner: the type of the active test, or NoTest
  active_command_id, \* runner: the command that started it, or 0
  component,         \* the state of each component
  phase,             \* "transport", "requests" or "component"
  requests,          \* history: number of requests sent
  host_waiting,      \* history: command ids of the answers the host awaits
  host_view          \* history: the test the host believes active

transportVars == <<wire, received_lines, transmit_lines, transmission,
                   transmitted_lines_dropped>>
runnerVars == <<active_definition, active_command_id, component>>
hostVars == <<requests, host_waiting, host_view>>
vars == <<transportVars, runnerVars, phase, hostVars>>

NoTest == "none"
Idle == active_definition = NoTest
-----------------------------------------------------------------------------
(***************************************************************************)
(* Messages.  The answer to a request json_protocol_parse_request refuses  *)
(* carries command id 0.  A line the parser refuses is an "INVALID"        *)
(* request here; RUN_COMPONENT_TEST with an unknown type is well formed.   *)
(***************************************************************************)
Message(type, id, test, detail) ==
  [type |-> type, command_id |-> id, test_type |-> test, detail |-> detail]

Error(id, code) == Message("ERROR", id, NoTest, code)

RequestType ==
  {"START_TEST", "RUN_COMPONENT_TEST", "STOP_COMPONENT_TEST", "INVALID"}

\* Only RUN_COMPONENT_TEST carries a test type.
TypesIn(type) ==
  IF type = "RUN_COMPONENT_TEST" THEN RequestedTypes ELSE {NoTest}

AnswerId(request) ==
  IF request.type = "INVALID" THEN 0 ELSE request.command_id

(***************************************************************************)
(* usb_cdc_transport_can_queue_line and usb_cdc_transport_queue_line.      *)
(***************************************************************************)
CanQueueLine == Len(transmit_lines) < TransmitDepth

QueueResponse(message) ==
  \/ /\ Len(transmit_lines) < TransmitDepth
     /\ transmit_lines' = Append(transmit_lines, message)
     /\ UNCHANGED transmitted_lines_dropped
  \/ /\ Len(transmit_lines) = TransmitDepth
     /\ transmitted_lines_dropped' = transmitted_lines_dropped + 1
     /\ UNCHANGED transmit_lines

(***************************************************************************)
(* component_test_runner_start.  The session has checked that no test is   *)
(* active and the parser that the id is positive.                          *)
(***************************************************************************)
RunnerStart(type, id) ==
  /\ active_definition' = type
  /\ active_command_id' = id
  /\ \E s \in Starts[type] : component' = [component EXCEPT ![type] = s]

(***************************************************************************)
(* component_test_runner_stop, and the end of a test in                    *)
(* component_test_runner_process: the definition's stop() is called and    *)
(* the runner is idle again.                                               *)
(***************************************************************************)
\* Fault: the runner forgets the test without stopping it.
RunnerForget ==
  /\ active_definition' = NoTest
  /\ active_command_id' = 0
  /\ UNCHANGED component

RunnerRelease ==
  /\ active_definition' = NoTest
  /\ active_command_id' = 0
  /\ component' = [component EXCEPT ![active_definition] = Off]
-----------------------------------------------------------------------------
Init ==
  /\ wire = << >>
  /\ received_lines = << >>
  /\ transmit_lines = << >>
  /\ transmission = "idle"
  /\ transmitted_lines_dropped = 0
  /\ active_definition = NoTest
  /\ active_command_id = 0
  /\ component = [t \in ProductionTests |-> Off]
  /\ phase = "transport"
  /\ requests = 0
  /\ host_waiting = << >>
  /\ host_view = <<NoTest, 0>>

(***************************************************************************)
(* The host sends a request with a command id of its own.                  *)
(***************************************************************************)
HostSends ==
  /\ requests < MaxRequests
  /\ Len(wire) < MaxOnWire
  /\ requests' = requests + 1
  /\ \E type \in RequestType : \E test \in TypesIn(type) :
       LET request == [type |-> type, command_id |-> requests + 1,
                       test_type |-> test]
       IN /\ wire' = Append(wire, request)
          /\ host_waiting' = Append(host_waiting, AnswerId(request))
  /\ UNCHANGED <<received_lines, transmit_lines, transmission,
                 transmitted_lines_dropped, runnerVars, phase, host_view>>

(***************************************************************************)
(* process_received_bytes: the next line is framed and queued, or dropped  *)
(* by completed_line when the queue is full.                               *)
(***************************************************************************)
ReceiveLine ==
  /\ phase = "transport"
  /\ wire # << >>
  /\ wire' = Tail(wire)
  /\ \/ /\ Len(received_lines) < LineQueueDepth
        /\ received_lines' = Append(received_lines, Head(wire))
        /\ UNCHANGED host_waiting
     \/ /\ Len(received_lines) = LineQueueDepth
        /\ host_waiting' =
             RemoveAt(host_waiting, Len(host_waiting) - Len(wire) + 1)
        /\ UNCHANGED received_lines
  /\ UNCHANGED <<transmit_lines, transmission, transmitted_lines_dropped,
                 runnerVars, phase, requests, host_view>>

(***************************************************************************)
(* finish_completed_transmission and start_pending_transmission.           *)
(***************************************************************************)
ServeTransmission ==
  /\ phase = "transport"
  /\ phase' = "requests"
  /\ transmit_lines' = IF transmission = "completed" THEN Tail(transmit_lines)
                                                     ELSE transmit_lines
  /\ transmission' = IF transmit_lines' = << >> THEN "idle" ELSE "active"
  /\ UNCHANGED <<wire, received_lines, transmitted_lines_dropped, runnerVars,
                 hostVars>>

(***************************************************************************)
(* What a host can conclude from a message: the test it believes active    *)
(* afterwards, or "confused" when the message contradicts what it has seen.*)
(***************************************************************************)
Observe(view, message) ==
  LET test == <<message.test_type, message.command_id>>
      idle == view = <<NoTest, 0>>
      expected ==
        /\ message.type = "TEST_STARTED" => idle
        /\ message.type \in {"TEST_EVENT", "TEST_COMPLETED"} => view = test
        /\ message.type = "TEST_STOPPED" => ~idle /\ view[1] = test[1]
        /\ message.detail = "test_already_active" => ~idle
        /\ message.detail = "no_active_test" => idle
  IN IF ~expected THEN <<"confused", 0>>
     ELSE IF message.type = "TEST_STARTED" THEN test
     ELSE IF message.type \in {"TEST_COMPLETED", "TEST_STOPPED"}
          THEN <<NoTest, 0>>
     ELSE view

IsAnswer(message) == message.type \notin {"TEST_EVENT", "TEST_COMPLETED"}

(***************************************************************************)
(* The transfer of the oldest message completes at the host.               *)
(***************************************************************************)
HostReceives ==
  /\ transmission = "active"
  /\ transmission' = "completed"
  /\ LET message == Head(transmit_lines)
     IN /\ host_view' = Observe(host_view, message)
        /\ host_waiting' = IF IsAnswer(message) THEN Tail(host_waiting)
                                                ELSE host_waiting
  /\ UNCHANGED <<wire, received_lines, transmit_lines,
                 transmitted_lines_dropped, runnerVars, phase, requests>>
-----------------------------------------------------------------------------
(***************************************************************************)
(* process_line, one alternative per branch.                               *)
(***************************************************************************)
\* Fault: a malformed request is ignored.
IgnoreInvalid(request) ==
  /\ request.type = "INVALID"
  /\ UNCHANGED <<transmit_lines, transmitted_lines_dropped, runnerVars>>

RefuseInvalid(request) ==
  /\ request.type = "INVALID"
  /\ QueueResponse(Error(0, "invalid_request"))
  /\ UNCHANGED runnerVars

StartSession(request) ==
  /\ request.type = "START_TEST"
  /\ QueueResponse(Message("START_TEST_RESPONSE", request.command_id, NoTest,
                           "ok"))
  /\ UNCHANGED runnerVars

RunComponentTest(request) ==
  /\ request.type = "RUN_COMPONENT_TEST"
  /\ \/ /\ ~Idle
        /\ QueueResponse(Error(request.command_id, "test_already_active"))
        /\ UNCHANGED runnerVars
     \/ /\ Idle /\ request.test_type \notin ProductionTests
        /\ QueueResponse(Error(request.command_id, "unsupported_test_type"))
        /\ UNCHANGED runnerVars
     \/ /\ Idle /\ request.test_type \in ProductionTests
        /\ RunnerStart(request.test_type, request.command_id)
        /\ QueueResponse(Message("TEST_STARTED", request.command_id,
                                 request.test_type, "running"))

\* Fault: the stop is acknowledged and not carried out.
StopAcknowledgedOnly(request) ==
  /\ request.type = "STOP_COMPONENT_TEST"
  /\ \/ /\ Idle
        /\ QueueResponse(Error(request.command_id, "no_active_test"))
        /\ UNCHANGED runnerVars
     \/ /\ ~Idle
        /\ QueueResponse(Message("TEST_STOPPED", request.command_id,
                                 active_definition, "stopped"))
        /\ UNCHANGED runnerVars

StopComponentTest(request) ==
  /\ request.type = "STOP_COMPONENT_TEST"
  /\ \/ /\ Idle
        /\ QueueResponse(Error(request.command_id, "no_active_test"))
        /\ UNCHANGED runnerVars
     \/ /\ ~Idle
        /\ RunnerRelease
        /\ QueueResponse(Message("TEST_STOPPED", request.command_id,
                                 active_definition, "stopped"))

ProcessLine(request) ==
  \/ RefuseInvalid(request)
  \/ StartSession(request)
  \/ RunComponentTest(request)
  \/ StopComponentTest(request)

\* Faults: room for the response is not awaited; the end of the test is.
RequestWaiting == received_lines # << >>
RequestWaitingAndIdle == CanQueueLine /\ received_lines # << >> /\ Idle

(***************************************************************************)
(* One turn of the loop in session_protocol_process: a request stays       *)
(* queued until its response has somewhere to go.                          *)
(***************************************************************************)
MayTakeRequest == CanQueueLine /\ received_lines # << >>

AnswerRequest ==
  /\ phase = "requests"
  /\ MayTakeRequest
  /\ received_lines' = Tail(received_lines)
  /\ ProcessLine(Head(received_lines))
  /\ UNCHANGED <<wire, transmission, phase, hostVars>>

RequestsDone ==
  /\ phase = "requests"
  /\ ~MayTakeRequest
  /\ phase' = "component"
  /\ UNCHANGED <<transportVars, runnerVars, hostVars>>

(***************************************************************************)
(* The rest of session_protocol_process: component_test_runner_process and *)
(* the message for what it returned.                                       *)
(***************************************************************************)
TestActive == ~Idle   \* fault: room for the report is not awaited
MayProcessComponent == CanQueueLine /\ ~Idle

ReportStep(step) ==
  \/ /\ step.result = "running"
     /\ component' = [component EXCEPT ![active_definition] = step.to]
     /\ UNCHANGED <<active_definition, active_command_id, transmit_lines,
                    transmitted_lines_dropped>>
  \/ /\ step.result \in Terminal
     /\ RunnerRelease
     /\ QueueResponse(Message("TEST_COMPLETED", active_command_id,
                              active_definition, step.result))
  \/ /\ step.result \notin Terminal \cup {"running"}
     /\ component' = [component EXCEPT ![active_definition] = step.to]
     /\ QueueResponse(Message("TEST_EVENT", active_command_id,
                              active_definition, step.result))
     /\ UNCHANGED <<active_definition, active_command_id>>

ProcessComponent ==
  /\ phase = "component"
  /\ MayProcessComponent
  /\ phase' = "transport"
  /\ \E step \in Steps[active_definition] :
       /\ step.from = component[active_definition]
       /\ ReportStep(step)
  /\ UNCHANGED <<wire, received_lines, transmission, hostVars>>

SkipComponent ==
  /\ phase = "component"
  /\ ~MayProcessComponent
  /\ phase' = "transport"
  /\ UNCHANGED <<transportVars, runnerVars, hostVars>>

MainLoop ==
  \/ ReceiveLine \/ ServeTransmission
  \/ AnswerRequest \/ RequestsDone
  \/ ProcessComponent \/ SkipComponent

Next == HostSends \/ HostReceives \/ MainLoop

Spec == Init /\ [][Next]_vars

(***************************************************************************)
(* The main loop never blocks, and a line that reached the ring is framed  *)
(* before the turn goes on often enough; the host reads what is sent.      *)
(***************************************************************************)
FairSpec ==
  /\ Spec
  /\ WF_vars(MainLoop)
  /\ SF_vars(ReceiveLine)
  /\ WF_vars(HostReceives)
-----------------------------------------------------------------------------
(***************************************************************************)
(* Readings of the state that the properties use: the messages the host    *)
(* has not received yet, what it will believe when it has read them, and   *)
(* the command ids that messages answer and requests await.                *)
(***************************************************************************)
Undelivered ==
  IF transmission = "completed" THEN Tail(transmit_lines) ELSE transmit_lines

ViewAfter(view, messages) ==
  LET seen[i \in 0..Len(messages)] ==
        IF i = 0 THEN view ELSE Observe(seen[i - 1], messages[i])
  IN seen[Len(messages)]

AnsweredIds(messages) ==
  LET ids[i \in 0..Len(messages)] ==
        IF i = 0 THEN << >>
        ELSE IF IsAnswer(messages[i])
             THEN Append(ids[i - 1], messages[i].command_id) ELSE ids[i - 1]
  IN ids[Len(messages)]

AwaitedIds(requestSeq) ==
  [i \in DOMAIN requestSeq |-> AnswerId(requestSeq[i])]

Request ==
  [type : RequestType, command_id : 1..MaxRequests,
   test_type : RequestedTypes \cup {NoTest}]
MessageType ==
  {"START_TEST_RESPONSE", "TEST_STARTED", "TEST_EVENT", "TEST_COMPLETED",
   "TEST_STOPPED", "ERROR"}
Detail ==
  {"ok", "running", "stopped", "invalid_request", "test_already_active",
   "unsupported_test_type", "no_active_test"}
  \cup UNION {{step.result : step \in Steps[t]} : t \in ProductionTests}
MessageToHost ==
  [type : MessageType, command_id : 0..MaxRequests,
   test_type : ProductionTests \cup {NoTest}, detail : Detail]
-----------------------------------------------------------------------------
(***************************************************************************)
(* Every variable keeps its type; neither queue outgrows its depth, and a  *)
(* transfer is under way only for a queued message.                        *)
(***************************************************************************)
TypeOK ==
  /\ wire \in Seq(Request) /\ Len(wire) <= MaxOnWire
  /\ received_lines \in Seq(Request) /\ Len(received_lines) <= LineQueueDepth
  /\ transmit_lines \in Seq(MessageToHost)
  /\ Len(transmit_lines) <= TransmitDepth
  /\ transmission \in {"idle", "active", "completed"}
  /\ transmission # "idle" => transmit_lines # << >>
  /\ transmitted_lines_dropped \in Nat
  /\ active_definition \in ProductionTests \cup {NoTest}
  /\ active_command_id \in 0..MaxRequests
  /\ DOMAIN component = ProductionTests
  /\ phase \in {"transport", "requests", "component"}
  /\ requests \in 0..MaxRequests

(***************************************************************************)
(* Backpressure (docs/findings-v1-tester.md): requests and component steps *)
(* wait until a message has somewhere to go, so no response, event or      *)
(* terminal result is ever refused by the transmit queue.                  *)
(***************************************************************************)
NoMessageDropped == transmitted_lines_dropped = 0

(***************************************************************************)
(* One test at a time, and none behind the host's back: exactly the        *)
(* component of the active test has been started and not stopped, and the  *)
(* runner remembers the command that started it.                           *)
(***************************************************************************)
OnlyActiveComponentOn ==
  /\ \A t \in ProductionTests : component[t] # Off <=> t = active_definition
  /\ Idle <=> active_command_id = 0

(***************************************************************************)
(* The host can follow the firmware: read in order after what the host has *)
(* seen, the messages still on their way never contradict themselves (no   *)
(* event or verdict of a test that is not active, no second start, no      *)
(* rejection without cause), and end in the runner's present state.        *)
(***************************************************************************)
HostCanFollow ==
  ViewAfter(host_view, Undelivered) = <<active_definition, active_command_id>>

(***************************************************************************)
(* Each request that was not dropped on reception is answered exactly      *)
(* once, with its own command id and in the order of the requests,         *)
(* whatever events are interleaved.                                        *)
(***************************************************************************)
AnswersInOrder ==
  host_waiting =
    AnsweredIds(Undelivered) \o AwaitedIds(received_lines \o wire)

(***************************************************************************)
(* Each request is answered in the end, also while a component reports     *)
(* events without pause.                                                   *)
(***************************************************************************)
EveryRequestAnswered == (host_waiting # << >>) ~> (host_waiting = << >>)
=============================================================================
