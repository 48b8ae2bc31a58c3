----------------------- MODULE SessionProtocol_proofs -----------------------
(***************************************************************************)
(* Theorems about the session protocol and the component test runner, for  *)
(* every depth of the two queues, every number of requests and every set   *)
(* of requested types.                                                     *)
(***************************************************************************)
EXTENDS SessionProtocol, SequenceTheorems, WellFoundedInduction, TLAPS

Inv == TypeOK /\ OnlyActiveComponentOn /\ NoMessageDropped

QueueOK ==
  /\ transmit_lines \in Seq(MessageToHost)
  /\ Len(transmit_lines) <= TransmitDepth
  /\ transmit_lines # << >>
  /\ transmitted_lines_dropped = 0

RunnerOK ==
  /\ active_definition \in ProductionTests \cup {NoTest}
  /\ active_command_id \in 0..MaxRequests
  /\ DOMAIN component = ProductionTests
  /\ OnlyActiveComponentOn
-----------------------------------------------------------------------------
(***************************************************************************)
(* What ComponentBehaviours says of each component: no start and no step   *)
(* leaves it switched off, and no type is called "none".                   *)
(***************************************************************************)
LEMMA StartsAreOn == \A t \in ProductionTests : Off \notin Starts[t]
<1>1. /\ Off \notin StatusLedStarts /\ Off \notin RgbLedStarts
      /\ Off \notin ImuStarts /\ Off \notin BarometerStarts
      /\ Off \notin SdCardStarts
  BY DEF Off, StatusLedStarts, RgbLedStarts, ImuStarts, BarometerStarts,
         SdCardStarts
<1> QED
  BY <1>1 DEF ProductionTests, Starts

LEMMA StepsAreOn == \A t \in ProductionTests : \A s \in Steps[t] : s.to # Off
<1>1. \A s \in StatusLedSteps : s.to # Off
  BY DEF StatusLedSteps, Step, Off
<1>2. \A s \in RgbLedSteps : s.to # Off
  BY DEF RgbLedSteps, Step, Off
<1>3. \A s \in ImuSteps : s.to # Off
  BY DEF ImuSteps, Step, Off
<1>4. \A s \in BarometerSteps : s.to # Off
  BY DEF BarometerSteps, Step, Off
<1>5. \A s \in SdCardSteps : s.to # Off
  BY DEF SdCardSteps, Step, Off
<1> QED
  BY <1>1, <1>2, <1>3, <1>4, <1>5 DEF ProductionTests, Steps

LEMMA NoTestIsNoType == NoTest \notin ProductionTests
BY DEF NoTest, ProductionTests

LEMMA ResultIsDetail ==
  ASSUME NEW t \in ProductionTests, NEW s \in Steps[t]
  PROVE  s.result \in Detail
BY DEF Detail
-----------------------------------------------------------------------------
(***************************************************************************)
(* The two calls by which the session changes what it shares: a message    *)
(* put into the queue where there is room, the runner started and          *)
(* released.                                                               *)
(***************************************************************************)
LEMMA QueuedNotDropped ==
  ASSUME Inv, CanQueueLine, NEW message \in MessageToHost,
         QueueResponse(message)
  PROVE  QueueOK'
<1>1. /\ transmit_lines \in Seq(MessageToHost)
      /\ Len(transmit_lines) \in Nat
      /\ Len(transmit_lines) < TransmitDepth
      /\ TransmitDepth \in Nat
  BY SessionConstants DEF Inv, TypeOK, CanQueueLine
<1>2. /\ transmit_lines' = Append(transmit_lines, message)
      /\ transmitted_lines_dropped' = transmitted_lines_dropped
  BY <1>1 DEF QueueResponse
<1>3. /\ transmit_lines' \in Seq(MessageToHost)
      /\ Len(transmit_lines') = Len(transmit_lines) + 1
  BY <1>1, <1>2, AppendProperties
<1>4. transmit_lines' # << >>
  BY <1>1, <1>3
<1> QED
  BY <1>1, <1>2, <1>3, <1>4 DEF QueueOK, Inv, NoMessageDropped

LEMMA StartedIsOn ==
  ASSUME Inv, Idle, NEW type \in ProductionTests, NEW id \in 1..MaxRequests,
         RunnerStart(type, id)
  PROVE  RunnerOK'
<1>1. PICK s \in Starts[type] : component' = [component EXCEPT ![type] = s]
  BY DEF RunnerStart
<1>2. s # Off /\ type # NoTest
  BY StartsAreOn, NoTestIsNoType
<1>3. DOMAIN component = ProductionTests
  BY DEF Inv, TypeOK
<1>4. \A t \in ProductionTests : component[t] = Off
  BY NoTestIsNoType DEF Inv, OnlyActiveComponentOn, Idle
<1>5. /\ active_definition' = type /\ active_command_id' = id
      /\ id # 0 /\ id \in 0..MaxRequests
  BY SessionConstants DEF RunnerStart
<1>6. /\ DOMAIN component' = ProductionTests
      /\ \A t \in ProductionTests :
           component'[t] = IF t = type THEN s ELSE component[t]
  BY <1>1, <1>3
<1>7. OnlyActiveComponentOn'
  BY <1>2, <1>4, <1>5, <1>6 DEF OnlyActiveComponentOn, Idle
<1> QED
  BY <1>5, <1>6, <1>7 DEF RunnerOK

LEMMA ReleasedIsOff ==
  ASSUME Inv, RunnerRelease
  PROVE  RunnerOK'
<1>1. DOMAIN component = ProductionTests
  BY DEF Inv, TypeOK
<1>2. /\ DOMAIN component' = ProductionTests
      /\ \A t \in ProductionTests :
           component'[t] = IF t = active_definition THEN Off ELSE component[t]
  BY <1>1 DEF RunnerRelease
<1>3. /\ active_definition' = NoTest /\ active_command_id' = 0
      /\ 0 \in 0..MaxRequests
  BY SessionConstants DEF RunnerRelease
<1>4. \A t \in ProductionTests : component'[t] = Off
  BY <1>2 DEF Inv, OnlyActiveComponentOn
<1>5. OnlyActiveComponentOn'
  BY <1>3, <1>4, NoTestIsNoType DEF OnlyActiveComponentOn, Idle
<1> QED
  BY <1>2, <1>3, <1>5 DEF RunnerOK

LEMMA RunnerKept ==
  ASSUME Inv, UNCHANGED runnerVars
  PROVE  RunnerOK'
BY DEF Inv, TypeOK, OnlyActiveComponentOn, Idle, RunnerOK, runnerVars
-----------------------------------------------------------------------------
(***************************************************************************)
(* One request answered, one call of the active component.                 *)
(***************************************************************************)
LEMMA RequestAnswered ==
  ASSUME Inv, CanQueueLine, NEW request \in Request, ProcessLine(request)
  PROVE  QueueOK' /\ RunnerOK'
<1> DEFINE id == request.command_id
<1>1. /\ id \in 1..MaxRequests /\ id \in 0..MaxRequests
      /\ 0 \in 0..MaxRequests
  BY SessionConstants DEF Request
<1>2. \A code \in Detail : /\ Error(id, code) \in MessageToHost
                           /\ Error(0, code) \in MessageToHost
  BY <1>1 DEF Error, Message, MessageToHost, MessageType
<1>3. CASE RefuseInvalid(request)
  <2>1. Error(0, "invalid_request") \in MessageToHost
    BY <1>2 DEF Detail
  <2> QED
    BY <1>3, <2>1, QueuedNotDropped, RunnerKept DEF RefuseInvalid
<1>4. CASE StartSession(request)
  <2>1. Message("START_TEST_RESPONSE", id, NoTest, "ok") \in MessageToHost
    BY <1>1 DEF Message, MessageToHost, MessageType, Detail
  <2> QED
    BY <1>4, <2>1, QueuedNotDropped, RunnerKept DEF StartSession
<1>5. CASE RunComponentTest(request)
  <2>1. /\ Error(id, "test_already_active") \in MessageToHost
        /\ Error(id, "unsupported_test_type") \in MessageToHost
    BY <1>2 DEF Detail
  <2>2. CASE /\ UNCHANGED runnerVars
             /\ \/ QueueResponse(Error(id, "test_already_active"))
                \/ QueueResponse(Error(id, "unsupported_test_type"))
    BY <2>1, <2>2, QueuedNotDropped, RunnerKept
  <2>3. CASE /\ Idle /\ request.test_type \in ProductionTests
             /\ RunnerStart(request.test_type, id)
             /\ QueueResponse(Message("TEST_STARTED", id, request.test_type,
                                      "running"))
    <3>1. Message("TEST_STARTED", id, request.test_type, "running")
            \in MessageToHost
      BY <1>1, <2>3 DEF Message, MessageToHost, MessageType, Detail
    <3> QED
      BY <1>1, <2>3, <3>1, QueuedNotDropped, StartedIsOn
  <2> QED
    BY <1>5, <2>2, <2>3 DEF RunComponentTest
<1>6. CASE StopComponentTest(request)
  <2>1. CASE /\ QueueResponse(Error(id, "no_active_test"))
             /\ UNCHANGED runnerVars
    <3>1. Error(id, "no_active_test") \in MessageToHost
      BY <1>2 DEF Detail
    <3> QED
      BY <2>1, <3>1, QueuedNotDropped, RunnerKept
  <2>2. CASE /\ RunnerRelease
             /\ QueueResponse(Message("TEST_STOPPED", id, active_definition,
                                      "stopped"))
    <3>1. Message("TEST_STOPPED", id, active_definition, "stopped")
            \in MessageToHost
      BY <1>1 DEF Message, MessageToHost, MessageType, Detail, Inv, TypeOK
    <3> QED
      BY <2>2, <3>1, QueuedNotDropped, ReleasedIsOff
  <2> QED
    BY <1>6, <2>1, <2>2 DEF StopComponentTest
<1> QED
  BY <1>3, <1>4, <1>5, <1>6 DEF ProcessLine

LEMMA ComponentReported ==
  ASSUME Inv, MayProcessComponent, NEW step \in Steps[active_definition],
         ReportStep(step)
  PROVE  /\ \/ QueueOK'
            \/ UNCHANGED <<transmit_lines, transmitted_lines_dropped>>
         /\ RunnerOK'
<1> DEFINE Keeps ==
             component' = [component EXCEPT ![active_definition] = step.to]
<1>1. active_definition \in ProductionTests
  BY DEF MayProcessComponent, Idle, Inv, TypeOK
<1>2. step.to # Off /\ step.result \in Detail
  BY <1>1, StepsAreOn, ResultIsDetail
<1>3. \A type \in MessageType :
        Message(type, active_command_id, active_definition, step.result)
          \in MessageToHost
  BY <1>1, <1>2 DEF Message, MessageToHost, Inv, TypeOK
<1>4. CanQueueLine
  BY DEF MayProcessComponent
<1>5. ASSUME Keeps, UNCHANGED <<active_definition, active_command_id>>
      PROVE  RunnerOK'
  <2>1. /\ DOMAIN component' = ProductionTests
        /\ \A t \in ProductionTests :
             component'[t] = IF t = active_definition THEN step.to
                                                      ELSE component[t]
    BY <1>5 DEF Inv, TypeOK
  <2>2. OnlyActiveComponentOn'
    BY <1>2, <1>5, <2>1 DEF Inv, OnlyActiveComponentOn, Idle
  <2> QED
    BY <1>5, <2>1, <2>2 DEF RunnerOK, Inv, TypeOK
<1>6. CASE /\ Keeps
           /\ UNCHANGED <<active_definition, active_command_id,
                          transmit_lines, transmitted_lines_dropped>>
  BY <1>5, <1>6
<1>7. CASE /\ RunnerRelease
           /\ QueueResponse(Message("TEST_COMPLETED", active_command_id,
                                    active_definition, step.result))
  BY <1>3, <1>4, <1>7, QueuedNotDropped, ReleasedIsOff DEF MessageType
<1>8. CASE /\ Keeps
           /\ QueueResponse(Message("TEST_EVENT", active_command_id,
                                    active_definition, step.result))
           /\ UNCHANGED <<active_definition, active_command_id>>
  BY <1>3, <1>4, <1>5, <1>8, QueuedNotDropped DEF MessageType
<1> QED
  BY <1>6, <1>7, <1>8 DEF ReportStep
-----------------------------------------------------------------------------
LEMMA InitInv == Init => Inv
<1> SUFFICES ASSUME Init PROVE Inv
  OBVIOUS
<1>1. TypeOK
  BY SessionConstants DEF Init, TypeOK, runnerVars
<1>2. OnlyActiveComponentOn
  BY NoTestIsNoType DEF Init, OnlyActiveComponentOn, Idle
<1> QED
  BY <1>1, <1>2 DEF Init, Inv, NoMessageDropped

LEMMA NextInv == Inv /\ [Next]_vars => Inv'
<1> SUFFICES ASSUME Inv, [Next]_vars PROVE Inv'
  OBVIOUS
<1>0. /\ wire \in Seq(Request) /\ received_lines \in Seq(Request)
      /\ transmit_lines \in Seq(MessageToHost)
      /\ Len(wire) \in Nat /\ Len(received_lines) \in Nat
      /\ Len(transmit_lines) \in Nat
      /\ Len(wire) <= MaxOnWire /\ Len(received_lines) <= LineQueueDepth
      /\ Len(transmit_lines) <= TransmitDepth
      /\ MaxOnWire \in Nat /\ LineQueueDepth \in Nat
      /\ TransmitDepth \in Nat /\ MaxRequests \in Nat
      /\ requests \in 0..MaxRequests
  BY SessionConstants DEF Inv, TypeOK
<1>1. CASE HostSends
  <2>1. PICK type \in RequestType, test \in RequestedTypes \cup {NoTest} :
          wire' = Append(wire, [type |-> type, command_id |-> requests + 1,
                                test_type |-> test])
    BY <1>1 DEF HostSends, TypesIn
  <2>2. requests + 1 \in 1..MaxRequests /\ requests + 1 \in 0..MaxRequests
    BY <1>0, <1>1 DEF HostSends
  <2>3. wire' \in Seq(Request) /\ Len(wire') <= MaxOnWire
    BY <1>0, <1>1, <2>1, <2>2, AppendProperties DEF HostSends, Request
  <2> QED
    BY <1>1, <2>2, <2>3
       DEF HostSends, Inv, TypeOK, NoMessageDropped, OnlyActiveComponentOn,
           Idle, runnerVars
<1>2. CASE HostReceives
  BY <1>2 DEF HostReceives, Inv, TypeOK, NoMessageDropped,
              OnlyActiveComponentOn, Idle, runnerVars
<1>3. CASE ReceiveLine
  <2>1. wire # << >> /\ wire' = Tail(wire)
    BY <1>3 DEF ReceiveLine
  <2>2. /\ Head(wire) \in Request
        /\ wire' \in Seq(Request) /\ Len(wire') <= MaxOnWire
    BY <1>0, <2>1, HeadTailProperties
  <2>3. /\ received_lines' \in Seq(Request)
        /\ Len(received_lines') <= LineQueueDepth
    <3>1. \/ received_lines' = received_lines
          \/ /\ Len(received_lines) < LineQueueDepth
             /\ received_lines' = Append(received_lines, Head(wire))
      BY <1>3 DEF ReceiveLine
    <3>2. LET longer == Append(received_lines, Head(wire))
          IN longer \in Seq(Request) /\ Len(longer) = Len(received_lines) + 1
      BY <1>0, <2>2, AppendProperties
    <3>3. CASE received_lines' = received_lines
      BY <1>0, <3>3
    <3>4. CASE /\ Len(received_lines) < LineQueueDepth
               /\ received_lines' = Append(received_lines, Head(wire))
      <4>1. Len(received_lines') = Len(received_lines) + 1
        BY <3>2, <3>4
      <4>2. received_lines' \in Seq(Request)
        BY <3>2, <3>4, Zenon
      <4> QED
        BY <1>0, <3>4, <4>1, <4>2
    <3> QED
      BY <3>1, <3>3, <3>4
  <2> QED
    BY <1>3, <2>2, <2>3
       DEF ReceiveLine, Inv, TypeOK, NoMessageDropped,
           OnlyActiveComponentOn, Idle, runnerVars
<1>4. CASE ServeTransmission
  <2>1. /\ transmit_lines' \in Seq(MessageToHost)
        /\ Len(transmit_lines') <= TransmitDepth
    <3>1. CASE transmission = "completed"
      <4>1. transmit_lines # << >> /\ transmit_lines' = Tail(transmit_lines)
        BY <1>4, <3>1 DEF ServeTransmission, Inv, TypeOK
      <4> QED
        BY <1>0, <4>1, HeadTailProperties
    <3>2. CASE transmission # "completed"
      BY <1>0, <1>4, <3>2 DEF ServeTransmission
    <3> QED
      BY <3>1, <3>2
  <2>2. /\ transmission' \in {"idle", "active", "completed"}
        /\ transmission' # "idle" => transmit_lines' # << >>
    BY <1>4 DEF ServeTransmission
  <2> QED
    BY <1>4, <2>1, <2>2
       DEF ServeTransmission, Inv, TypeOK, NoMessageDropped,
           OnlyActiveComponentOn, Idle,
           runnerVars, hostVars
<1>5. CASE AnswerRequest
  <2>1. /\ CanQueueLine /\ received_lines # << >>
        /\ received_lines' = Tail(received_lines)
        /\ ProcessLine(Head(received_lines))
    BY <1>5 DEF AnswerRequest, MayTakeRequest
  <2>2. /\ Head(received_lines) \in Request
        /\ received_lines' \in Seq(Request)
        /\ Len(received_lines') <= LineQueueDepth
    BY <1>0, <2>1, HeadTailProperties
  <2>3. QueueOK' /\ RunnerOK'
    BY <2>1, <2>2, RequestAnswered
  <2> QED
    BY <1>0, <1>5, <2>2, <2>3
       DEF AnswerRequest, Inv, TypeOK, NoMessageDropped, QueueOK, RunnerOK,
           hostVars
<1>6. CASE RequestsDone
  BY <1>6 DEF RequestsDone, Inv, TypeOK, NoMessageDropped,
              OnlyActiveComponentOn, Idle,
              transportVars, runnerVars, hostVars
<1>7. CASE ProcessComponent
  <2>1. PICK step \in Steps[active_definition] : ReportStep(step)
    BY <1>7 DEF ProcessComponent
  <2>2. /\ \/ QueueOK'
           \/ UNCHANGED <<transmit_lines, transmitted_lines_dropped>>
        /\ RunnerOK'
    BY <1>7, <2>1, ComponentReported DEF ProcessComponent
  <2>3. /\ transmit_lines' \in Seq(MessageToHost)
        /\ Len(transmit_lines') <= TransmitDepth
        /\ transmitted_lines_dropped' = 0
        /\ transmission' # "idle" => transmit_lines' # << >>
    BY <1>0, <1>7, <2>2 DEF ProcessComponent, QueueOK, Inv, TypeOK,
                            NoMessageDropped
  <2> QED
    BY <1>0, <1>7, <2>2, <2>3
       DEF ProcessComponent, Inv, TypeOK, NoMessageDropped, RunnerOK,
           hostVars
<1>8. CASE SkipComponent
  BY <1>8 DEF SkipComponent, Inv, TypeOK, NoMessageDropped,
              OnlyActiveComponentOn, Idle,
              transportVars, runnerVars, hostVars
<1>9. CASE UNCHANGED vars
  BY <1>9 DEF vars, Inv, TypeOK, NoMessageDropped, OnlyActiveComponentOn,
              Idle, transportVars,
              runnerVars, hostVars
<1> QED
  BY <1>1, <1>2, <1>3, <1>4, <1>5, <1>6, <1>7, <1>8, <1>9 DEF Next, MainLoop

LEMMA Invariant == Spec => []Inv
BY InitInv, NextInv, PTL DEF Spec
-----------------------------------------------------------------------------
(***************************************************************************)
(* The queues keep to their depths and hold whole requests and messages,   *)
(* and a transfer is under way only for a queued message.                  *)
(***************************************************************************)
THEOREM TypeCorrect == Spec => []TypeOK
<1>1. Inv => TypeOK
  BY DEF Inv
<1> QED
  BY <1>1, Invariant, PTL

(***************************************************************************)
(* Whatever the host asks for and however slowly it reads, at most the     *)
(* component of the active test is switched on, and the runner is idle     *)
(* exactly when no command is remembered.                                  *)
(***************************************************************************)
THEOREM OneComponentOn == Spec => []OnlyActiveComponentOn
<1>1. Inv => OnlyActiveComponentOn
  BY DEF Inv
<1> QED
  BY <1>1, Invariant, PTL

(***************************************************************************)
(* can_queue_line, asked before a request is taken and before a component  *)
(* is called, is enough for usb_cdc_transport_queue_line never to refuse.  *)
(***************************************************************************)
THEOREM BackpressureHolds == Spec => []NoMessageDropped
<1>1. Inv => NoMessageDropped
  BY DEF Inv
<1> QED
  BY <1>1, Invariant, PTL
-----------------------------------------------------------------------------
(***************************************************************************)
(* What the host concludes from the messages on their way to it, and which *)
(* requests they answer, are recursive readings of the queue.  A set of    *)
(* naturals that holds 0 and, with each number up to n, the next one,      *)
(* holds them all.                                                         *)
(***************************************************************************)
LEMMA Induction ==
  ASSUME NEW n \in Nat, NEW S, 0 \in S,
         \A i \in 1..n : i - 1 \in S => i \in S
  PROVE  \A i \in 0..n : i \in S
<1> DEFINE R == OpToRel(<, Nat)
           T == {i \in Nat : i \in 0..n /\ i \notin S}
<1> SUFFICES ASSUME T # {} PROVE FALSE
  OBVIOUS
<1>1. IsWellFoundedOn(R, Nat)
  BY NatLessThanWellFounded
<1>2. \A x, y \in Nat : x < y => <<x, y>> \in R
  BY DEF OpToRel
<1> HIDE DEF R
<1>3. PICK i \in T : \A y \in T : <<y, i>> \notin R
  <2>1. T \subseteq Nat
    OBVIOUS
  <2> HIDE DEF T
  <2> QED
    BY <1>1, <2>1, WFMin
<1>4. i \in 1..n /\ i - 1 \in Nat /\ i - 1 < i /\ i \in Nat
  BY <1>3
<1>5. i - 1 \in T
  BY <1>3, <1>4
<1> QED
  BY <1>2, <1>3, <1>4, <1>5

(***************************************************************************)
(* The views of a host that reads the messages one by one.                 *)
(***************************************************************************)
Views(s, view, messages) ==
  s = [i \in 0..Len(messages) |->
         IF i = 0 THEN view ELSE Observe(s[i - 1], messages[i])]

LEMMA ViewsExist ==
  ASSUME NEW view, NEW M, NEW messages \in Seq(M)
  PROVE  \E s : Views(s, view, messages)
<1> DEFINE n == Len(messages)
           Upto(k) ==
             \E s : s = [i \in 0..k |->
                           IF i = 0 THEN view
                                    ELSE Observe(s[i - 1], messages[i])]
           S == {k \in 0..n : Upto(k)}
<1>0. n \in Nat
  OBVIOUS
<1>1. 0 \in S
  <2> DEFINE g == [i \in 0..0 |-> view]
  <2>1. g = [i \in 0..0 |->
               IF i = 0 THEN view ELSE Observe(g[i - 1], messages[i])]
    OBVIOUS
  <2> HIDE DEF g
  <2>2. Upto(0)
    BY <2>1
  <2> QED
    BY <1>0, <2>2
<1>2. ASSUME NEW k \in 1..n, k - 1 \in S
      PROVE  k \in S
  <2>1. PICK g : g = [i \in 0..(k - 1) |->
                        IF i = 0 THEN view ELSE Observe(g[i - 1], messages[i])]
    BY <1>2
  <2> DEFINE h == [i \in 0..k |-> IF i < k THEN g[i]
                                  ELSE Observe(g[k - 1], messages[k])]
  <2>2. h = [i \in 0..k |->
               IF i = 0 THEN view ELSE Observe(h[i - 1], messages[i])]
    <3> SUFFICES ASSUME NEW i \in 0..k
                 PROVE  h[i] = IF i = 0 THEN view
                                        ELSE Observe(h[i - 1], messages[i])
      OBVIOUS
    <3>1. CASE i = k
      <4>1. h[k - 1] = g[k - 1]
        BY <1>0
      <4> QED
        BY <1>0, <3>1, <4>1
    <3>2. CASE i < k
      <4>1. h[i] = g[i] /\ i \in 0..(k - 1)
        BY <1>0, <3>2
      <4>2. i # 0 => h[i - 1] = g[i - 1]
        BY <1>0, <3>2
      <4> HIDE DEF h
      <4> QED
        BY <2>1, <4>1, <4>2
    <3> QED
      BY <1>0, <3>1, <3>2
  <2> HIDE DEF h
  <2>3. Upto(k)
    BY <2>2
  <2> QED
    BY <1>0, <2>3
<1> HIDE DEF S
<1>3. \A i \in 0..n : i \in S
  BY <1>0, <1>1, <1>2, Induction
<1>4. n \in S
  BY <1>0, <1>3
<1> QED
  BY <1>4 DEF S, Views

LEMMA ViewsRead ==
  ASSUME NEW view, NEW M, NEW messages \in Seq(M)
  PROVE  \E s : /\ s[0] = view
                /\ \A i \in 1..Len(messages) :
                     s[i] = Observe(s[i - 1], messages[i])
                /\ ViewAfter(view, messages) = s[Len(messages)]
<1> DEFINE seen == CHOOSE s : Views(s, view, messages)
<1>1. ViewAfter(view, messages) = seen[Len(messages)]
  BY DEF ViewAfter, Views
<1>2. Views(seen, view, messages)
  BY ViewsExist
<1> HIDE DEF seen
<1>3. /\ seen[0] = view
      /\ \A i \in 1..Len(messages) :
           seen[i] = Observe(seen[i - 1], messages[i])
  BY <1>2 DEF Views
<1> QED
  BY <1>1, <1>3

LEMMA ViewsAgree ==
  ASSUME NEW view, NEW M, NEW messages \in Seq(M), NEW s,
         s[0] = view,
         \A i \in 1..Len(messages) : s[i] = Observe(s[i - 1], messages[i])
  PROVE  ViewAfter(view, messages) = s[Len(messages)]
<1>1. PICK t : /\ t[0] = view
               /\ \A i \in 1..Len(messages) :
                    t[i] = Observe(t[i - 1], messages[i])
               /\ ViewAfter(view, messages) = t[Len(messages)]
  BY ViewsRead
<1> DEFINE S == {i \in Nat : s[i] = t[i]}
<1>2. Len(messages) \in Nat /\ 0 \in S
  BY <1>1
<1>3. \A i \in 1..Len(messages) : i - 1 \in S => i \in S
  BY <1>1, <1>2
<1> HIDE DEF S
<1>4. \A i \in 0..Len(messages) : i \in S
  BY <1>2, <1>3, Induction
<1>5. Len(messages) \in S
  BY <1>2, <1>4
<1> QED
  BY <1>1, <1>5 DEF S

LEMMA ViewAfterNone ==
  ASSUME NEW view
  PROVE  ViewAfter(view, << >>) = view
<1> DEFINE none == << >>
<1>1. none \in Seq({}) /\ Len(none) = 0
  BY EmptySeq
<1> HIDE DEF none
<1>2. \E s : s[0] = view /\ ViewAfter(view, none) = s[Len(none)]
  <2>1. none \in Seq({})
    BY <1>1
  <2>2. \E s : /\ s[0] = view
               /\ \A i \in 1..Len(none) : s[i] = Observe(s[i - 1], none[i])
               /\ ViewAfter(view, none) = s[Len(none)]
    BY <2>1, ViewsRead
  <2> QED
    BY <2>2
<1>3. ViewAfter(view, none) = view
  BY <1>1, <1>2
<1> QED
  BY <1>3 DEF none

LEMMA ViewAfterAppended ==
  ASSUME NEW view, NEW M, NEW messages \in Seq(M), NEW m \in M
  PROVE  ViewAfter(view, Append(messages, m))
           = Observe(ViewAfter(view, messages), m)
<1> DEFINE n == Len(messages)
           longer == Append(messages, m)
<1>1. /\ longer \in Seq(M) /\ Len(longer) = n + 1 /\ n \in Nat
      /\ longer[n + 1] = m
      /\ \A i \in 1..n : longer[i] = messages[i]
  BY AppendProperties
<1> HIDE DEF longer
<1>2. PICK t : /\ t[0] = view
               /\ \A i \in 1..Len(longer) : t[i] = Observe(t[i - 1], longer[i])
               /\ ViewAfter(view, longer) = t[Len(longer)]
  BY <1>1, ViewsRead
<1>3. \A i \in 1..n : t[i] = Observe(t[i - 1], messages[i])
  BY <1>1, <1>2
<1>4. ViewAfter(view, messages) = t[n]
  BY <1>2, <1>3, ViewsAgree
<1>5. t[n + 1] = Observe(t[n], m)
  <2>1. n + 1 \in 1..Len(longer) /\ (n + 1) - 1 = n
    BY <1>1
  <2> QED
    BY <1>1, <1>2, <2>1
<1> QED
  BY <1>1, <1>2, <1>4, <1>5 DEF longer

LEMMA ViewAfterRead ==
  ASSUME NEW view, NEW M, NEW messages \in Seq(M), messages # << >>
  PROVE  ViewAfter(Observe(view, Head(messages)), Tail(messages))
           = ViewAfter(view, messages)
<1> DEFINE n == Len(messages)
           rest == Tail(messages)
<1>1. /\ rest \in Seq(M) /\ Len(rest) = n - 1 /\ n \in Nat \ {0}
      /\ Head(messages) = messages[1]
      /\ \A i \in 1..(n - 1) : rest[i] = messages[i + 1]
  BY HeadTailProperties
<1>2. PICK t : /\ t[0] = view
               /\ \A i \in 1..n : t[i] = Observe(t[i - 1], messages[i])
               /\ ViewAfter(view, messages) = t[n]
  BY ViewsRead
<1> DEFINE u == [i \in 0..(n - 1) |-> t[i + 1]]
<1> HIDE DEF rest
<1>3. u[0] = Observe(view, Head(messages)) /\ u[n - 1] = t[n]
  BY <1>1, <1>2
<1>4. \A i \in 1..(n - 1) : u[i] = Observe(u[i - 1], rest[i])
  <2> SUFFICES ASSUME NEW i \in 1..(n - 1)
               PROVE  u[i] = Observe(u[i - 1], rest[i])
    OBVIOUS
  <2>1. u[i] = t[i + 1] /\ u[i - 1] = t[i]
    BY <1>1
  <2>2. i + 1 \in 1..n /\ (i + 1) - 1 = i
    BY <1>1
  <2> HIDE DEF u
  <2> QED
    BY <1>1, <1>2, <2>1, <2>2
<1> HIDE DEF u
<1>5. ViewAfter(Observe(view, Head(messages)), rest) = u[Len(rest)]
  BY <1>1, <1>3, <1>4, ViewsAgree
<1> QED
  BY <1>1, <1>2, <1>3, <1>5 DEF rest

(***************************************************************************)
(* The command ids that a sequence of messages answers.                    *)
(***************************************************************************)
Answering(ids, message) ==
  IF IsAnswer(message) THEN Append(ids, message.command_id) ELSE ids

IdsUpto(s, messages) ==
  s = [i \in 0..Len(messages) |->
         IF i = 0 THEN << >>
         ELSE IF IsAnswer(messages[i])
              THEN Append(s[i - 1], messages[i].command_id) ELSE s[i - 1]]

LEMMA IdsExist ==
  ASSUME NEW M, NEW messages \in Seq(M)
  PROVE  \E s : IdsUpto(s, messages)
<1> DEFINE n == Len(messages)
           Next1(ids, i) == IF IsAnswer(messages[i])
                            THEN Append(ids, messages[i].command_id) ELSE ids
           Upto(k) ==
             \E s : s = [i \in 0..k |->
                           IF i = 0 THEN << >> ELSE Next1(s[i - 1], i)]
           S == {k \in 0..n : Upto(k)}
<1>0. n \in Nat
  OBVIOUS
<1>1. 0 \in S
  <2> DEFINE g == [i \in 0..0 |-> << >>]
  <2>1. g = [i \in 0..0 |-> IF i = 0 THEN << >> ELSE Next1(g[i - 1], i)]
    OBVIOUS
  <2> HIDE DEF g
  <2>2. Upto(0)
    BY <2>1
  <2> QED
    BY <1>0, <2>2
<1>2. ASSUME NEW k \in 1..n, k - 1 \in S
      PROVE  k \in S
  <2>1. PICK g : g = [i \in 0..(k - 1) |->
                        IF i = 0 THEN << >> ELSE Next1(g[i - 1], i)]
    BY <1>2
  <2> DEFINE h == [i \in 0..k |-> IF i < k THEN g[i] ELSE Next1(g[k - 1], k)]
  <2>2. h = [i \in 0..k |-> IF i = 0 THEN << >> ELSE Next1(h[i - 1], i)]
    <3> HIDE DEF Next1
    <3> SUFFICES ASSUME NEW i \in 0..k
                 PROVE  h[i] = IF i = 0 THEN << >> ELSE Next1(h[i - 1], i)
      OBVIOUS
    <3>1. CASE i = k
      <4>1. h[k - 1] = g[k - 1]
        BY <1>0
      <4> QED
        BY <1>0, <3>1, <4>1
    <3>2. CASE i < k
      <4>1. h[i] = g[i] /\ i \in 0..(k - 1)
        BY <1>0, <3>2
      <4>2. i # 0 => h[i - 1] = g[i - 1]
        BY <1>0, <3>2
      <4> HIDE DEF h
      <4> QED
        BY <2>1, <4>1, <4>2
    <3> QED
      BY <1>0, <3>1, <3>2
  <2> HIDE DEF h
  <2>3. Upto(k)
    BY <2>2
  <2> QED
    BY <1>0, <2>3
<1> HIDE DEF S
<1>3. \A i \in 0..n : i \in S
  BY <1>0, <1>1, <1>2, Induction
<1>4. n \in S
  BY <1>0, <1>3
<1> QED
  BY <1>4 DEF S, IdsUpto

LEMMA IdsRead ==
  ASSUME NEW M, NEW messages \in Seq(M)
  PROVE  \E s : /\ s[0] = << >>
                /\ \A i \in 1..Len(messages) :
                     s[i] = Answering(s[i - 1], messages[i])
                /\ AnsweredIds(messages) = s[Len(messages)]
<1> DEFINE ids == CHOOSE s : IdsUpto(s, messages)
<1>1. AnsweredIds(messages) = ids[Len(messages)]
  BY DEF AnsweredIds, IdsUpto
<1>2. IdsUpto(ids, messages)
  BY IdsExist
<1> HIDE DEF ids
<1>3. ids[0] = << >>
  BY <1>2 DEF IdsUpto
<1>4. ASSUME NEW i \in 1..Len(messages)
      PROVE  ids[i] = Answering(ids[i - 1], messages[i])
  <2>1. i \in 0..Len(messages) /\ i # 0
    OBVIOUS
  <2> QED
    BY <1>2, <2>1 DEF IdsUpto, Answering
<1> QED
  BY <1>1, <1>3, <1>4

LEMMA IdsAgree ==
  ASSUME NEW M, NEW messages \in Seq(M), NEW s, s[0] = << >>,
         \A i \in 1..Len(messages) : s[i] = Answering(s[i - 1], messages[i])
  PROVE  AnsweredIds(messages) = s[Len(messages)]
<1>1. PICK t : /\ t[0] = << >>
               /\ \A i \in 1..Len(messages) :
                    t[i] = Answering(t[i - 1], messages[i])
               /\ AnsweredIds(messages) = t[Len(messages)]
  BY IdsRead
<1> DEFINE S == {i \in Nat : s[i] = t[i]}
<1>2. Len(messages) \in Nat /\ 0 \in S
  BY <1>1
<1>3. \A i \in 1..Len(messages) : i - 1 \in S => i \in S
  BY <1>1, <1>2
<1> HIDE DEF S
<1>4. \A i \in 0..Len(messages) : i \in S
  BY <1>2, <1>3, Induction
<1>5. Len(messages) \in S
  BY <1>2, <1>4
<1> QED
  BY <1>1, <1>5 DEF S

LEMMA NoneAnswered == AnsweredIds(<< >>) = << >>
<1>1. << >> \in Seq({}) /\ Len(<< >>) = 0
  OBVIOUS
<1> QED
  BY <1>1, IdsRead

LEMMA AppendedAnswered ==
  ASSUME NEW M, NEW messages \in Seq(M), NEW m \in M
  PROVE  AnsweredIds(Append(messages, m))
           = Answering(AnsweredIds(messages), m)
<1> DEFINE n == Len(messages)
           longer == Append(messages, m)
<1>1. /\ longer \in Seq(M) /\ Len(longer) = n + 1 /\ n \in Nat
      /\ longer[n + 1] = m
      /\ \A i \in 1..n : longer[i] = messages[i]
  BY AppendProperties
<1> HIDE DEF longer
<1>2. PICK t : /\ t[0] = << >>
               /\ \A i \in 1..Len(longer) :
                    t[i] = Answering(t[i - 1], longer[i])
               /\ AnsweredIds(longer) = t[Len(longer)]
  BY <1>1, IdsRead
<1>3. \A i \in 1..n : t[i] = Answering(t[i - 1], messages[i])
  BY <1>1, <1>2
<1>4. AnsweredIds(messages) = t[n]
  BY <1>2, <1>3, IdsAgree
<1>5. t[n + 1] = Answering(t[n], m)
  <2>1. n + 1 \in 1..Len(longer) /\ (n + 1) - 1 = n
    BY <1>1
  <2> QED
    BY <1>1, <1>2, <2>1
<1> QED
  BY <1>1, <1>2, <1>4, <1>5 DEF longer

LEMMA FirstAnswered ==
  ASSUME NEW messages \in Seq(MessageToHost), messages # << >>
  PROVE  /\ AnsweredIds(messages) \in Seq(Nat)
         /\ IsAnswer(Head(messages)) => AnsweredIds(messages) # << >>
         /\ AnsweredIds(Tail(messages))
              = IF IsAnswer(Head(messages)) THEN Tail(AnsweredIds(messages))
                                            ELSE AnsweredIds(messages)
<1> DEFINE n == Len(messages)
           rest == Tail(messages)
           first == IsAnswer(Head(messages))
<1>1. /\ rest \in Seq(MessageToHost) /\ Len(rest) = n - 1
      /\ n \in Nat \ {0}
      /\ Head(messages) = messages[1]
      /\ \A i \in 1..(n - 1) : rest[i] = messages[i + 1]
  BY HeadTailProperties
<1>9. \A i \in 1..n : messages[i].command_id \in Nat
  <2>1. \A i \in 1..n : messages[i] \in MessageToHost
    OBVIOUS
  <2>2. \A m \in MessageToHost : m.command_id \in Nat
    BY SessionConstants DEF MessageToHost
  <2> QED
    BY <2>1, <2>2
<1>2. PICK t : /\ t[0] = << >>
               /\ \A i \in 1..n : t[i] = Answering(t[i - 1], messages[i])
               /\ AnsweredIds(messages) = t[n]
  BY IdsRead
<1> HIDE DEF rest
<1>3. \A i \in 1..n : t[i] \in Seq(Nat) /\ (first => t[i] # << >>)
  <2> DEFINE S == {i \in Nat : i = 0 \/ (/\ t[i] \in Seq(Nat)
                                         /\ first => t[i] # << >>)}
  <2>1. ASSUME NEW i \in 1..n, i - 1 \in S
        PROVE  i \in S
    <3>1. t[i - 1] \in Seq(Nat)
      <4>1. i - 1 = 0 => t[i - 1] \in Seq(Nat)
        <5>1. << >> \in Seq(Nat)
          OBVIOUS
        <5> QED
          BY <1>2, <5>1
      <4> QED
        BY <2>1, <4>1
    <3>2. t[i] = Answering(t[i - 1], messages[i])
      BY <1>2
    <3>3. /\ Append(t[i - 1], messages[i].command_id) \in Seq(Nat)
          /\ Append(t[i - 1], messages[i].command_id) # << >>
      <4>1. messages[i].command_id \in Nat
        BY <1>9
      <4>2. \A s \in Seq(Nat) : \A x \in Nat :
              Append(s, x) \in Seq(Nat) /\ Append(s, x) # << >>
        OBVIOUS
      <4> QED
        BY <3>1, <4>1, <4>2
    <3>4. t[i] \in Seq(Nat)
      BY <3>1, <3>2, <3>3 DEF Answering
    <3>5. first => t[i] # << >>
      <4>1. CASE i = 1
        BY <1>1, <3>2, <3>3, <4>1 DEF Answering
      <4>2. CASE i # 1
        BY <1>1, <2>1, <3>2, <3>3, <4>2 DEF Answering
      <4> QED
        BY <4>1, <4>2
    <3> QED
      BY <3>4, <3>5
  <2>2. 0 \in S
    OBVIOUS
  <2> HIDE DEF S
  <2>3. \A i \in 0..n : i \in S
    BY <1>1, <2>1, <2>2, Induction
  <2> QED
    BY <1>1, <2>3 DEF S
<1> DEFINE u == [i \in 0..(n - 1) |-> IF first THEN Tail(t[i + 1])
                                               ELSE t[i + 1]]
<1>4. u[0] = << >>
  <2>1. t[1] = Answering(<< >>, messages[1])
    BY <1>1, <1>2
  <2>2. \A x : Tail(Append(<< >>, x)) = << >>
    OBVIOUS
  <2>3. u[0] = IF first THEN Tail(t[1]) ELSE t[1]
    BY <1>1
  <2> HIDE DEF u
  <2>4. CASE first
    BY <1>1, <2>1, <2>2, <2>3, <2>4 DEF Answering
  <2>5. CASE ~first
    BY <1>1, <2>1, <2>3, <2>5 DEF Answering
  <2> QED
    BY <2>4, <2>5
<1>5. \A i \in 1..(n - 1) : u[i] = Answering(u[i - 1], rest[i])
  <2> SUFFICES ASSUME NEW i \in 1..(n - 1)
               PROVE  u[i] = Answering(u[i - 1], rest[i])
    OBVIOUS
  <2>1. /\ u[i] = IF first THEN Tail(t[i + 1]) ELSE t[i + 1]
        /\ u[i - 1] = IF first THEN Tail(t[i]) ELSE t[i]
    BY <1>1
  <2>2. i + 1 \in 1..n /\ i \in 1..n /\ (i + 1) - 1 = i
    BY <1>1
  <2>3. t[i + 1] = Answering(t[i], rest[i])
    BY <1>1, <1>2, <2>2
  <2>4. first => /\ t[i] \in Seq(Nat) /\ t[i] # << >>
    BY <1>3, <2>2
  <2>5. \A id \in Nat : first => Tail(Append(t[i], id)) = Append(Tail(t[i]), id)
    <3>1. \A s \in Seq(Nat) : \A id \in Nat :
            s # << >> => Tail(Append(s, id)) = Append(Tail(s), id)
      OBVIOUS
    <3> QED
      BY <2>4, <3>1
  <2>6. rest[i].command_id \in Nat
    BY <1>1, <1>9, <2>2
  <2> HIDE DEF u
  <2> QED
    BY <2>1, <2>3, <2>5, <2>6 DEF Answering
<1>6. u[n - 1] = IF first THEN Tail(t[n]) ELSE t[n]
  BY <1>1
<1> HIDE DEF u
<1>7. AnsweredIds(rest) = u[n - 1]
  BY <1>1, <1>4, <1>5, IdsAgree
<1>8. t[n] \in Seq(Nat) /\ (first => t[n] # << >>)
  BY <1>1, <1>3
<1> QED
  BY <1>2, <1>6, <1>7, <1>8 DEF rest
-----------------------------------------------------------------------------
(***************************************************************************)
(* Each step of the session queues at most one message, and what the host  *)
(* concludes from it takes the view that fits the runner before the step   *)
(* to the one that fits it afterwards.                                     *)
(***************************************************************************)
Now == <<active_definition, active_command_id>>

Tells(message) ==
  /\ message \in MessageToHost
  /\ QueueResponse(message)
  /\ Observe(Now, message) = Now'

LEMMA StepsAreNoRejections ==
  \A t \in ProductionTests : \A s \in Steps[t] :
    s.result \notin {"test_already_active", "no_active_test"}
<1>1. \A s \in StatusLedSteps :
        s.result \notin {"test_already_active", "no_active_test"}
  BY DEF StatusLedSteps, Step
<1>2. \A s \in RgbLedSteps :
        s.result \notin {"test_already_active", "no_active_test"}
  BY DEF RgbLedSteps, Step
<1>3. \A s \in ImuSteps :
        s.result \notin {"test_already_active", "no_active_test"}
  BY DEF ImuSteps, Step
<1>4. \A s \in BarometerSteps :
        s.result \notin {"test_already_active", "no_active_test"}
  BY DEF BarometerSteps, Step
<1>5. \A s \in SdCardSteps :
        s.result \notin {"test_already_active", "no_active_test"}
  BY DEF SdCardSteps, Step
<1> QED
  BY <1>1, <1>2, <1>3, <1>4, <1>5 DEF ProductionTests, Steps

LEMMA RunnerIsIdleOrActive ==
  ASSUME Inv
  PROVE  /\ Idle <=> Now = <<NoTest, 0>>
         /\ Idle <=> active_definition = NoTest
BY DEF Inv, OnlyActiveComponentOn, Idle, Now

LEMMA RequestTold ==
  ASSUME Inv, CanQueueLine, NEW request \in Request, ProcessLine(request)
  PROVE  \E message : /\ Tells(message) /\ IsAnswer(message)
                      /\ message.command_id = AnswerId(request)
<1> DEFINE id == request.command_id
<1>1. /\ id \in 1..MaxRequests /\ id \in 0..MaxRequests
      /\ 0 \in 0..MaxRequests
  BY SessionConstants DEF Request
<1>2. \A code \in Detail : /\ Error(id, code) \in MessageToHost
                           /\ Error(0, code) \in MessageToHost
  BY <1>1 DEF Error, Message, MessageToHost, MessageType
<1>3. CASE RefuseInvalid(request)
  <2> DEFINE message == Error(0, "invalid_request")
  <2>1. message \in MessageToHost
    BY <1>2 DEF Detail
  <2>2. Now' = Now
    BY <1>3 DEF RefuseInvalid, runnerVars, Now
  <2>3. Observe(Now, message) = Now
    BY DEF Observe, Error, Message
  <2>4. IsAnswer(message) /\ message.command_id = AnswerId(request)
    BY <1>3 DEF IsAnswer, Error, Message, AnswerId, RefuseInvalid
  <2> QED
    BY <1>3, <2>1, <2>2, <2>3, <2>4 DEF RefuseInvalid, Tells
<1>4. CASE StartSession(request)
  <2> DEFINE message == Message("START_TEST_RESPONSE", id, NoTest, "ok")
  <2>1. message \in MessageToHost
    BY <1>1 DEF Message, MessageToHost, MessageType, Detail
  <2>2. Now' = Now
    BY <1>4 DEF StartSession, runnerVars, Now
  <2>3. Observe(Now, message) = Now
    BY DEF Observe, Message
  <2>4. IsAnswer(message) /\ message.command_id = AnswerId(request)
    BY <1>4 DEF IsAnswer, Message, AnswerId, StartSession
  <2> QED
    BY <1>4, <2>1, <2>2, <2>3, <2>4 DEF StartSession, Tells
<1>5. CASE RunComponentTest(request)
  <2>0. request.type = "RUN_COMPONENT_TEST" /\ AnswerId(request) = id
    BY <1>5 DEF RunComponentTest, AnswerId
  <2>1. CASE /\ ~Idle
             /\ QueueResponse(Error(id, "test_already_active"))
             /\ UNCHANGED runnerVars
    <3> DEFINE message == Error(id, "test_already_active")
    <3>1. message \in MessageToHost
      BY <1>2 DEF Detail
    <3>2. Now' = Now
      BY <2>1 DEF runnerVars, Now
    <3>3. Observe(Now, message) = Now
      BY <2>1, RunnerIsIdleOrActive DEF Observe, Error, Message
    <3>4. IsAnswer(message) /\ message.command_id = AnswerId(request)
      BY <2>0 DEF IsAnswer, Error, Message
    <3> QED
      BY <2>1, <3>1, <3>2, <3>3, <3>4 DEF Tells
  <2>2. CASE /\ QueueResponse(Error(id, "unsupported_test_type"))
             /\ UNCHANGED runnerVars
    <3> DEFINE message == Error(id, "unsupported_test_type")
    <3>1. message \in MessageToHost
      BY <1>2 DEF Detail
    <3>2. Now' = Now
      BY <2>2 DEF runnerVars, Now
    <3>3. Observe(Now, message) = Now
      BY DEF Observe, Error, Message
    <3>4. IsAnswer(message) /\ message.command_id = AnswerId(request)
      BY <2>0 DEF IsAnswer, Error, Message
    <3> QED
      BY <2>2, <3>1, <3>2, <3>3, <3>4 DEF Tells
  <2>3. CASE /\ Idle /\ request.test_type \in ProductionTests
             /\ RunnerStart(request.test_type, id)
             /\ QueueResponse(Message("TEST_STARTED", id, request.test_type,
                                      "running"))
    <3> DEFINE message == Message("TEST_STARTED", id, request.test_type,
                                  "running")
    <3>1. message \in MessageToHost
      BY <1>1, <2>3 DEF Message, MessageToHost, MessageType, Detail
    <3>2. Now' = <<request.test_type, id>>
      BY <2>3 DEF RunnerStart, Now
    <3>3. Observe(Now, message) = <<request.test_type, id>>
      BY <2>3, RunnerIsIdleOrActive DEF Observe, Message
    <3>4. IsAnswer(message) /\ message.command_id = AnswerId(request)
      BY <2>0 DEF IsAnswer, Message
    <3> QED
      BY <2>3, <3>1, <3>2, <3>3, <3>4 DEF Tells
  <2> QED
    BY <1>5, <2>1, <2>2, <2>3 DEF RunComponentTest
<1>6. CASE StopComponentTest(request)
  <2>0. request.type = "STOP_COMPONENT_TEST" /\ AnswerId(request) = id
    BY <1>6 DEF StopComponentTest, AnswerId
  <2>1. CASE /\ Idle
             /\ QueueResponse(Error(id, "no_active_test"))
             /\ UNCHANGED runnerVars
    <3> DEFINE message == Error(id, "no_active_test")
    <3>1. message \in MessageToHost
      BY <1>2 DEF Detail
    <3>2. Now' = Now
      BY <2>1 DEF runnerVars, Now
    <3>3. Observe(Now, message) = Now
      BY <2>1, RunnerIsIdleOrActive DEF Observe, Error, Message
    <3>4. IsAnswer(message) /\ message.command_id = AnswerId(request)
      BY <2>0 DEF IsAnswer, Error, Message
    <3> QED
      BY <2>1, <3>1, <3>2, <3>3, <3>4 DEF Tells
  <2>2. CASE /\ ~Idle
             /\ RunnerRelease
             /\ QueueResponse(Message("TEST_STOPPED", id, active_definition,
                                      "stopped"))
    <3> DEFINE message == Message("TEST_STOPPED", id, active_definition,
                                  "stopped")
    <3>1. message \in MessageToHost
      BY <1>1 DEF Message, MessageToHost, MessageType, Detail, Inv, TypeOK
    <3>2. Now' = <<NoTest, 0>>
      BY <2>2 DEF RunnerRelease, Now
    <3>3. Observe(Now, message) = <<NoTest, 0>>
      BY <2>2, RunnerIsIdleOrActive DEF Observe, Message, Now
    <3>4. IsAnswer(message) /\ message.command_id = AnswerId(request)
      BY <2>0 DEF IsAnswer, Message
    <3> QED
      BY <2>2, <3>1, <3>2, <3>3, <3>4 DEF Tells
  <2> QED
    BY <1>6, <2>1, <2>2 DEF StopComponentTest
<1> QED
  BY <1>3, <1>4, <1>5, <1>6 DEF ProcessLine

LEMMA ReportTold ==
  ASSUME Inv, MayProcessComponent, NEW step \in Steps[active_definition],
         ReportStep(step)
  PROVE  \/ transmit_lines' = transmit_lines /\ Now' = Now
         \/ \E message : Tells(message) /\ ~IsAnswer(message)
<1>1. active_definition \in ProductionTests /\ ~Idle
  BY DEF MayProcessComponent, Idle, Inv, TypeOK
<1>2. /\ step.result \in Detail
      /\ step.result \notin {"test_already_active", "no_active_test"}
  BY <1>1, ResultIsDetail, StepsAreNoRejections
<1>3. \A type \in MessageType :
        Message(type, active_command_id, active_definition, step.result)
          \in MessageToHost
  BY <1>1, <1>2 DEF Message, MessageToHost, Inv, TypeOK
<1>4. CASE UNCHANGED <<active_definition, active_command_id, transmit_lines>>
  BY <1>4 DEF Now
<1>5. CASE /\ RunnerRelease
           /\ QueueResponse(Message("TEST_COMPLETED", active_command_id,
                                    active_definition, step.result))
  <2> DEFINE message == Message("TEST_COMPLETED", active_command_id,
                                active_definition, step.result)
  <2>1. message \in MessageToHost
    BY <1>3 DEF MessageType
  <2>2. Now' = <<NoTest, 0>>
    BY <1>5 DEF RunnerRelease, Now
  <2>3. Observe(Now, message) = <<NoTest, 0>>
    BY <1>2 DEF Observe, Message, Now
  <2>4. ~IsAnswer(message)
    BY DEF IsAnswer, Message
  <2> QED
    BY <1>5, <2>1, <2>2, <2>3, <2>4 DEF Tells
<1>6. CASE /\ QueueResponse(Message("TEST_EVENT", active_command_id,
                                    active_definition, step.result))
           /\ UNCHANGED <<active_definition, active_command_id>>
  <2> DEFINE message == Message("TEST_EVENT", active_command_id,
                                active_definition, step.result)
  <2>1. message \in MessageToHost
    BY <1>3 DEF MessageType
  <2>2. Now' = Now
    BY <1>6 DEF Now
  <2>3. Observe(Now, message) = Now
    BY <1>2 DEF Observe, Message, Now
  <2>4. ~IsAnswer(message)
    BY DEF IsAnswer, Message
  <2> QED
    BY <1>6, <2>1, <2>2, <2>3, <2>4 DEF Tells
<1> QED
  BY <1>4, <1>5, <1>6 DEF ReportStep
-----------------------------------------------------------------------------
(***************************************************************************)
(* The messages on their way: a queued message joins them, a received one  *)
(* leaves them, and the transport on the board changes nothing of them.    *)
(***************************************************************************)
LEMMA UndeliveredType ==
  ASSUME Inv
  PROVE  Undelivered \in Seq(MessageToHost)
<1>1. CASE transmission = "completed"
  <2>1. transmit_lines # << >> /\ transmit_lines \in Seq(MessageToHost)
    BY <1>1 DEF Inv, TypeOK
  <2> QED
    BY <1>1, <2>1 DEF Undelivered
<1>2. CASE transmission # "completed"
  BY <1>2 DEF Undelivered, Inv, TypeOK
<1> QED
  BY <1>1, <1>2

LEMMA MessageJoins ==
  ASSUME Inv, CanQueueLine, NEW message \in MessageToHost,
         QueueResponse(message), UNCHANGED transmission
  PROVE  Undelivered' = Append(Undelivered, message)
<1>1. /\ transmit_lines \in Seq(MessageToHost)
      /\ transmission # "idle" => transmit_lines # << >>
  BY DEF Inv, TypeOK
<1>2. transmit_lines' = Append(transmit_lines, message)
  <2>1. Len(transmit_lines) < TransmitDepth
    BY DEF CanQueueLine
  <2>2. Len(transmit_lines) \in Nat /\ TransmitDepth \in Nat
    BY <1>1, SessionConstants
  <2> QED
    BY <2>1, <2>2 DEF QueueResponse
<1>3. transmit_lines # << >> =>
        Tail(Append(transmit_lines, message))
          = Append(Tail(transmit_lines), message)
  <2>1. \A s \in Seq(MessageToHost) : \A m \in MessageToHost :
          s # << >> => Tail(Append(s, m)) = Append(Tail(s), m)
    OBVIOUS
  <2> QED
    BY <1>1, <2>1
<1> QED
  BY <1>1, <1>2, <1>3 DEF Undelivered

(***************************************************************************)
(* The ids that queued requests await.                                     *)
(***************************************************************************)
LEMMA AwaitedType ==
  ASSUME NEW s \in Seq(Request)
  PROVE  /\ AwaitedIds(s) \in Seq(Nat) /\ Len(AwaitedIds(s)) = Len(s)
         /\ \A i \in 1..Len(s) : AwaitedIds(s)[i] = AnswerId(s[i])
<1>1. \A r \in Request : AnswerId(r) \in Nat
  BY SessionConstants DEF AnswerId, Request
<1>2. DOMAIN s = 1..Len(s) /\ Len(s) \in Nat
      /\ \A i \in 1..Len(s) : s[i] \in Request
  OBVIOUS
<1>3. AwaitedIds(s) \in [1..Len(s) -> Nat]
  BY <1>1, <1>2 DEF AwaitedIds
<1> QED
  BY <1>2, <1>3 DEF AwaitedIds

LEMMA AwaitedConcat ==
  ASSUME NEW s \in Seq(Request), NEW t \in Seq(Request)
  PROVE  AwaitedIds(s \o t) = AwaitedIds(s) \o AwaitedIds(t)
<1>1. /\ s \o t \in Seq(Request) /\ Len(s \o t) = Len(s) + Len(t)
      /\ Len(s) \in Nat /\ Len(t) \in Nat
      /\ \A i \in 1..Len(s) + Len(t) :
           (s \o t)[i] = IF i <= Len(s) THEN s[i] ELSE t[i - Len(s)]
  BY ConcatProperties
<1> DEFINE a == AwaitedIds(s \o t)
           b == AwaitedIds(s) \o AwaitedIds(t)
<1>2. a \in Seq(Nat) /\ Len(a) = Len(s) + Len(t)
  BY <1>1, AwaitedType
<1>3. /\ AwaitedIds(s) \in Seq(Nat) /\ AwaitedIds(t) \in Seq(Nat)
      /\ Len(AwaitedIds(s)) = Len(s) /\ Len(AwaitedIds(t)) = Len(t)
  BY AwaitedType
<1>4. /\ b \in Seq(Nat) /\ Len(b) = Len(s) + Len(t)
      /\ \A i \in 1..Len(s) + Len(t) :
           b[i] = IF i <= Len(s) THEN AwaitedIds(s)[i]
                                 ELSE AwaitedIds(t)[i - Len(s)]
  <2> DEFINE u == AwaitedIds(s)
             v == AwaitedIds(t)
  <2>1. /\ u \in Seq(Nat) /\ v \in Seq(Nat)
        /\ Len(u) = Len(s) /\ Len(v) = Len(t)
    BY <1>3
  <2> HIDE DEF u, v
  <2>2. /\ u \o v \in Seq(Nat) /\ Len(u \o v) = Len(u) + Len(v)
        /\ \A i \in 1..Len(u) + Len(v) :
             (u \o v)[i] = IF i <= Len(u) THEN u[i] ELSE v[i - Len(u)]
    BY <2>1, ConcatProperties
  <2> QED
    BY <2>1, <2>2 DEF u, v
<1>5. ASSUME NEW i \in 1..Len(s) + Len(t)
      PROVE  a[i] = b[i]
  <2>1. a[i] = AnswerId((s \o t)[i])
    BY <1>1, AwaitedType
  <2>2. CASE i <= Len(s)
    <3>1. i \in 1..Len(s)
      BY <1>1, <2>2
    <3>2. AwaitedIds(s)[i] = AnswerId(s[i])
      BY <3>1, AwaitedType
    <3> HIDE DEF a, b
    <3> QED
      BY <1>1, <1>4, <2>1, <2>2, <3>2
  <2>3. CASE i > Len(s)
    <3>1. i - Len(s) \in 1..Len(t) /\ ~(i <= Len(s))
      BY <1>1, <2>3
    <3>2. AwaitedIds(t)[i - Len(s)] = AnswerId(t[i - Len(s)])
      BY <3>1, AwaitedType
    <3> HIDE DEF a, b
    <3> QED
      BY <1>1, <1>4, <2>1, <3>1, <3>2
  <2> HIDE DEF a, b
  <2> QED
    BY <1>1, <2>2, <2>3
<1> HIDE DEF a, b
<1>6. a = b
  BY <1>1, <1>2, <1>4, <1>5, SeqEqual
<1> QED
  BY <1>6 DEF a, b

-----------------------------------------------------------------------------
(***************************************************************************)
(* A message the host cannot be surprised by: from the view it will have   *)
(* when it has read everything before, it concludes how things now stand.  *)
(***************************************************************************)
LEMMA ToldIsFollowed ==
  ASSUME Inv, HostCanFollow, CanQueueLine, NEW message, Tells(message),
         UNCHANGED <<transmission, host_view>>
  PROVE  HostCanFollow'
<1>1. Undelivered' = Append(Undelivered, message)
  BY MessageJoins DEF Tells
<1>2. ViewAfter(host_view, Append(Undelivered, message))
        = Observe(ViewAfter(host_view, Undelivered), message)
  BY UndeliveredType, ViewAfterAppended DEF Tells
<1>3. ViewAfter(host_view', Undelivered') = Now'
  BY <1>1, <1>2 DEF HostCanFollow, Tells, Now
<1> QED
  BY <1>3 DEF HostCanFollow, Now

LEMMA InitFollow == Init => HostCanFollow /\ AnswersInOrder
<1> SUFFICES ASSUME Init PROVE HostCanFollow /\ AnswersInOrder
  OBVIOUS
<1>1. Undelivered = << >>
  BY DEF Init, Undelivered
<1>2. HostCanFollow
  BY <1>1, ViewAfterNone DEF Init, HostCanFollow
<1>3. << >> \o << >> = << >> /\ << >> \in Seq(Request) /\ Len(<< >>) = 0
  OBVIOUS
<1>4. AwaitedIds(<< >>) = << >>
  <2>1. AwaitedIds(<< >>) \in Seq(Nat) /\ Len(AwaitedIds(<< >>)) = 0
    BY <1>3, AwaitedType
  <2> QED
    BY <2>1, EmptySeq
<1>5. AnswersInOrder
  BY <1>1, <1>3, <1>4, NoneAnswered DEF Init, AnswersInOrder
<1> QED
  BY <1>2, <1>5

(***************************************************************************)
(* What reaches the host, and what the transport does on the board.        *)
(***************************************************************************)
LEMMA MessageLeaves ==
  ASSUME Inv, HostReceives
  PROVE  /\ Undelivered # << >>
         /\ Head(Undelivered) = Head(transmit_lines)
         /\ Undelivered' = Tail(Undelivered)
BY DEF Inv, TypeOK, HostReceives, Undelivered

LEMMA ServedUnseen ==
  ASSUME Inv, ServeTransmission
  PROVE  Undelivered' = Undelivered
<1>1. transmission' # "completed"
  BY DEF ServeTransmission
<1> QED
  BY <1>1 DEF ServeTransmission, Undelivered

LEMMA NextFollow ==
  ASSUME Inv, HostCanFollow, [Next]_vars
  PROVE  HostCanFollow'
<1>1. CASE HostReceives
  <2> DEFINE message == Head(transmit_lines)
  <2>1. host_view' = Observe(host_view, Head(Undelivered))
    BY <1>1, MessageLeaves DEF HostReceives
  <2>2. ViewAfter(host_view', Undelivered') = ViewAfter(host_view, Undelivered)
    BY <1>1, <2>1, MessageLeaves, UndeliveredType, ViewAfterRead
  <2> QED
    BY <1>1, <2>2 DEF HostReceives, HostCanFollow, runnerVars
<1>2. CASE ServeTransmission
  BY <1>2, ServedUnseen DEF ServeTransmission, HostCanFollow, runnerVars,
                            hostVars
<1>3. CASE AnswerRequest
  <2>1. /\ CanQueueLine /\ received_lines # << >>
        /\ ProcessLine(Head(received_lines))
    BY <1>3 DEF AnswerRequest, MayTakeRequest
  <2>2. Head(received_lines) \in Request
    BY <2>1, HeadTailProperties DEF Inv, TypeOK
  <2> QED
    BY <1>3, <2>1, <2>2, RequestTold, ToldIsFollowed
       DEF AnswerRequest, hostVars
<1>4. CASE ProcessComponent
  <2>1. PICK step \in Steps[active_definition] : ReportStep(step)
    BY <1>4 DEF ProcessComponent
  <2>2. MayProcessComponent /\ CanQueueLine
    BY <1>4 DEF ProcessComponent, MayProcessComponent
  <2>3. CASE transmit_lines' = transmit_lines /\ Now' = Now
    BY <1>4, <2>3 DEF ProcessComponent, HostCanFollow, Undelivered, Now,
                      hostVars
  <2>4. CASE \E message : Tells(message) /\ ~IsAnswer(message)
    BY <1>4, <2>2, <2>4, ToldIsFollowed DEF ProcessComponent, hostVars
  <2> QED
    BY <2>1, <2>2, <2>3, <2>4, ReportTold
<1>5. CASE UNCHANGED <<transmit_lines, transmission, runnerVars, host_view>>
  BY <1>5 DEF HostCanFollow, Undelivered, runnerVars
<1>6. CASE HostSends \/ ReceiveLine \/ RequestsDone \/ SkipComponent
           \/ UNCHANGED vars
  BY <1>5, <1>6 DEF HostSends, ReceiveLine, RequestsDone, SkipComponent, vars,
                    transportVars, hostVars
<1> QED
  BY <1>1, <1>2, <1>3, <1>4, <1>6 DEF Next, MainLoop
-----------------------------------------------------------------------------
(***************************************************************************)
(* Sequences that grow at one end and shrink at the other.                 *)
(***************************************************************************)
LEMMA AwaitedFirst ==
  ASSUME NEW s \in Seq(Request), s # << >>
  PROVE  AwaitedIds(s) = <<AnswerId(Head(s))>> \o AwaitedIds(Tail(s))
<1>1. /\ Head(s) \in Request /\ Tail(s) \in Seq(Request)
      /\ Len(Tail(s)) = Len(s) - 1 /\ Head(s) = s[1]
      /\ \A i \in 1..Len(s) - 1 : Tail(s)[i] = s[i + 1]
      /\ Len(s) \in Nat
  BY HeadTailProperties
<1>2. s = <<Head(s)>> \o Tail(s)
  OBVIOUS
<1>3. <<Head(s)>> \in Seq(Request) /\ Len(<<Head(s)>>) = 1
      /\ <<Head(s)>>[1] = Head(s)
  BY <1>1
<1>4. AwaitedIds(s) = AwaitedIds(<<Head(s)>>) \o AwaitedIds(Tail(s))
  BY <1>1, <1>2, <1>3, AwaitedConcat
<1>5. AwaitedIds(<<Head(s)>>) = <<AnswerId(Head(s))>>
  <2> DEFINE head == <<Head(s)>>
             one == AwaitedIds(head)
  <2>0. head \in Seq(Request) /\ Len(head) = 1 /\ head[1] = Head(s)
        /\ 1 \in 1..Len(head)
    BY <1>3
  <2> HIDE DEF head
  <2>1. one \in Seq(Nat) /\ Len(one) = 1 /\ one[1] = AnswerId(Head(s))
    BY <2>0, AwaitedType
  <2> HIDE DEF one
  <2>2. one = <<one[1]>>
    BY <2>1
  <2> QED
    BY <2>1, <2>2 DEF one, head
<1> QED
  BY <1>4, <1>5

LEMMA AwaitedLast ==
  ASSUME NEW s \in Seq(Request), NEW r \in Request
  PROVE  AwaitedIds(Append(s, r)) = Append(AwaitedIds(s), AnswerId(r))
<1>1. <<r>> \in Seq(Request) /\ <<r>> # << >> /\ Head(<<r>>) = r
      /\ Tail(<<r>>) = << >> /\ << >> \in Seq(Request) /\ Len(<< >>) = 0
  OBVIOUS
<1>2. AwaitedIds(<< >>) = << >>
  <2>1. AwaitedIds(<< >>) \in Seq(Nat) /\ Len(AwaitedIds(<< >>)) = 0
    BY <1>1, AwaitedType
  <2> QED
    BY <2>1, EmptySeq
<1>3. AwaitedIds(<<r>>) = <<AnswerId(r)>>
  <2>1. AwaitedIds(<<r>>) = <<AnswerId(r)>> \o << >>
    BY <1>1, <1>2, AwaitedFirst
  <2> QED
    BY <2>1
<1>4. Append(s, r) = s \o <<r>>
  BY AppendIsConcat
<1>5. AwaitedIds(s \o <<r>>) = AwaitedIds(s) \o <<AnswerId(r)>>
  BY <1>1, <1>3, AwaitedConcat
<1>6. AwaitedIds(s) \in Seq(Nat) /\ AnswerId(r) \in Nat
  <2>1. AnswerId(r) \in Nat
    BY SessionConstants DEF AnswerId, Request
  <2> QED
    BY <2>1, AwaitedType
<1>7. Append(AwaitedIds(s), AnswerId(r)) = AwaitedIds(s) \o <<AnswerId(r)>>
  BY <1>6, AppendIsConcat
<1> QED
  BY <1>4, <1>5, <1>7

LEMMA AnsweredType ==
  ASSUME NEW messages \in Seq(MessageToHost)
  PROVE  AnsweredIds(messages) \in Seq(Nat)
<1>1. CASE messages = << >>
  <2>1. << >> \in Seq(Nat)
    OBVIOUS
  <2> QED
    BY <1>1, <2>1, NoneAnswered
<1>2. CASE messages # << >>
  BY <1>2, FirstAnswered
<1> QED
  BY <1>1, <1>2

(***************************************************************************)
(* The request that is dropped is the one at the head of the wire, and its *)
(* id is the one the history forgets.                                      *)
(***************************************************************************)
LEMMA ConcatGroups ==
  ASSUME NEW x \in Seq(Nat), NEW y \in Seq(Nat), NEW z \in Seq(Nat)
  PROVE  (x \o y) \o z = x \o (y \o z)
OBVIOUS

LEMMA ConcatGrows ==
  ASSUME NEW x \in Seq(Nat), NEW y \in Seq(Nat), NEW e \in Nat
  PROVE  /\ Append(x \o y, e) = x \o Append(y, e)
         /\ x \o (<<e>> \o y) = Append(x, e) \o y
<1>1. Append(x \o y, e) = x \o Append(y, e)
  <2>1. x \o y \in Seq(Nat) /\ <<e>> \in Seq(Nat)
    OBVIOUS
  <2>2. Append(x \o y, e) = (x \o y) \o <<e>> /\ Append(y, e) = y \o <<e>>
    BY <2>1, AppendIsConcat
  <2>3. (x \o y) \o <<e>> = x \o (y \o <<e>>)
    BY <2>1, ConcatGroups, Zenon
  <2> QED
    BY <2>2, <2>3, Zenon
<1>2. x \o (<<e>> \o y) = Append(x, e) \o y
  <2>1. <<e>> \in Seq(Nat) /\ Append(x, e) = x \o <<e>>
    BY AppendIsConcat
  <2>2. (x \o <<e>>) \o y = x \o (<<e>> \o y)
    BY <2>1, ConcatGroups, Zenon
  <2> QED
    BY <2>1, <2>2, Zenon
<1> QED
  BY <1>1, <1>2

LEMMA TailOfConcat ==
  ASSUME NEW x \in Seq(Nat), NEW y \in Seq(Nat), x # << >>
  PROVE  Tail(x \o y) = Tail(x) \o y
<1>1. /\ Tail(x) \in Seq(Nat) /\ Len(Tail(x)) = Len(x) - 1
      /\ \A i \in 1..Len(x) - 1 : Tail(x)[i] = x[i + 1]
      /\ Len(x) \in Nat /\ Len(x) >= 1 /\ Len(y) \in Nat
  BY HeadTailProperties, EmptySeq
<1> DEFINE s == x \o y
<1>2. /\ s \in Seq(Nat) /\ Len(s) = Len(x) + Len(y)
      /\ \A i \in 1..Len(x) + Len(y) :
           s[i] = IF i <= Len(x) THEN x[i] ELSE y[i - Len(x)]
  BY ConcatProperties
<1> DEFINE t == Tail(x) \o y
<1>3. /\ t \in Seq(Nat) /\ Len(t) = Len(x) - 1 + Len(y)
      /\ \A i \in 1..Len(x) - 1 + Len(y) :
           t[i] = IF i <= Len(x) - 1 THEN Tail(x)[i] ELSE y[i - (Len(x) - 1)]
  BY <1>1, ConcatProperties
<1> HIDE DEF s, t
<1>4. /\ s # << >> /\ Tail(s) \in Seq(Nat) /\ Len(Tail(s)) = Len(s) - 1
      /\ \A i \in 1..Len(s) - 1 : Tail(s)[i] = s[i + 1]
  <2>1. s # << >>
    BY <1>1, <1>2, EmptySeq
  <2> QED
    BY <1>2, <2>1, HeadTailProperties
<1>5. ASSUME NEW i \in 1..Len(t) PROVE Tail(s)[i] = t[i]
  <2>1. /\ i \in 1..Len(x) - 1 + Len(y) /\ i + 1 \in 1..Len(x) + Len(y)
        /\ i <= Len(x) - 1 <=> i + 1 <= Len(x)
        /\ (i + 1) - Len(x) = i - (Len(x) - 1)
    BY <1>1, <1>3
  <2>2. Tail(s)[i] = s[i + 1]
    BY <1>1, <1>2, <1>4, <2>1
  <2>3. CASE i <= Len(x) - 1
    <3>1. i \in 1..Len(x) - 1 /\ i + 1 <= Len(x)
      BY <1>1, <2>1, <2>3
    <3>2. t[i] = Tail(x)[i] /\ s[i + 1] = x[i + 1]
      BY <1>2, <1>3, <2>1, <2>3, <3>1
    <3> QED
      BY <1>1, <2>2, <3>1, <3>2
  <2>4. CASE ~(i <= Len(x) - 1)
    BY <1>2, <1>3, <2>1, <2>2, <2>4
  <2> QED
    BY <2>3, <2>4
<1>6. Len(Tail(s)) = Len(t)
  BY <1>1, <1>2, <1>3, <1>4
<1>7. Tail(s) = t
  BY <1>3, <1>4, <1>5, <1>6, SeqEqual
<1> QED
  BY <1>7 DEF s, t

LEMMA MiddleRemoved ==
  ASSUME NEW b \in Seq(Nat), NEW id \in Nat, NEW c \in Seq(Nat)
  PROVE  RemoveAt(b \o (<<id>> \o c), Len(b) + 1) = b \o c
<1> DEFINE v == <<id>> \o c
           n == Len(b)
           m == Len(c)
<1>1. n \in Nat /\ m \in Nat
  OBVIOUS
<1>2. /\ v \in Seq(Nat) /\ Len(v) = 1 + m
      /\ \A i \in 1..m : v[i + 1] = c[i]
  OBVIOUS
<1> HIDE DEF v
<1> DEFINE h == b \o v
<1>3. /\ h \in Seq(Nat) /\ Len(h) = n + (1 + m)
      /\ \A i \in 1..n + (1 + m) :
           h[i] = IF i <= n THEN b[i] ELSE v[i - n]
  <2>1. v \in Seq(Nat) /\ Len(v) = 1 + Len(c)
    BY <1>2
  <2> QED
    BY <2>1, ConcatProperties
<1> HIDE DEF h
<1> DEFINE p == SubSeq(h, 1, (n + 1) - 1)
           q == SubSeq(h, (n + 1) + 1, Len(h))
<1>4. p = b
  <2>1. /\ (n + 1) - 1 = n /\ \A i \in 1..n : h[i] = b[i] /\ h[i] \in Nat
    BY <1>1, <1>3
  <2>2. /\ SubSeq(h, 1, n) \in Seq(Nat) /\ Len(SubSeq(h, 1, n)) = n
        /\ \A i \in 1..n : SubSeq(h, 1, n)[i] = h[i]
    BY <1>1, <2>1, SubSeqProperties
  <2>3. SubSeq(h, 1, n) = b
    BY <2>1, <2>2, SeqEqual
  <2> QED
    BY <2>1, <2>3
<1>5. q = c
  <2> DEFINE r == SubSeq(h, n + 2, n + 1 + m)
  <2> HIDE DEF n, m
  <2>1. /\ (n + 1) + 1 = n + 2 /\ Len(h) = n + 1 + m
        /\ n + 2 \in Int /\ n + 1 + m \in Int
        /\ (n + 1 + m) - (n + 2) + 1 = m
        /\ n + 2 <= n + 1 + m <=> 1 <= m
    BY <1>1, <1>3
  <2>2. \A i \in n + 2 .. n + 1 + m : h[i] \in Nat
    BY <1>1, <1>3 DEF n
  <2>3. /\ r \in Seq(Nat)
        /\ Len(r) = IF n + 2 <= n + 1 + m
                      THEN (n + 1 + m) - (n + 2) + 1 ELSE 0
        /\ \A i \in 1..(n + 1 + m) - (n + 2) + 1 : r[i] = h[(n + 2) + i - 1]
    BY <2>1, <2>2, SubSeqProperties
  <2> HIDE DEF r
  <2>4. Len(r) = m
    BY <1>1, <2>1, <2>3
  <2>5. ASSUME NEW i \in 1..m PROVE r[i] = c[i]
    <3>1. /\ r[i] = h[(n + 2) + i - 1] /\ (n + 2) + i - 1 = n + 1 + i
          /\ n + 1 + i \in 1..n + (1 + m) /\ ~(n + 1 + i <= n)
          /\ (n + 1 + i) - n = i + 1
      BY <1>1, <2>1, <2>3
    <3>2. h[n + 1 + i] = v[(n + 1 + i) - n]
      BY <1>3, <3>1
    <3> QED
      BY <1>2, <3>1, <3>2
  <2>6. Len(r) = Len(c)
    BY <2>4 DEF m
  <2>7. r = c
    BY <2>3, <2>4, <2>5, <2>6, SeqEqual
  <2>8. q = r
    BY <2>1 DEF r
  <2> QED
    BY <2>7, <2>8
<1>6. RemoveAt(h, n + 1) = p \o q
  BY DEF RemoveAt
<1>7. RemoveAt(h, n + 1) = b \o c
  BY <1>4, <1>5, <1>6
<1> QED
  BY <1>7 DEF h, v

LEMMA DroppedForgotten ==
  ASSUME NEW a \in Seq(Nat), NEW r \in Seq(Request), NEW w \in Seq(Request),
         w # << >>
  PROVE  RemoveAt(a \o AwaitedIds(r \o w),
                  Len(a \o AwaitedIds(r \o w)) - Len(w) + 1)
           = a \o AwaitedIds(r \o Tail(w))
<1> DEFINE h == a \o AwaitedIds(r \o w)
           b == a \o AwaitedIds(r)
           c == AwaitedIds(Tail(w))
           id == AnswerId(Head(w))
<1>1. /\ Tail(w) \in Seq(Request) /\ Len(Tail(w)) = Len(w) - 1
      /\ Len(w) \in Nat \ {0} /\ Head(w) \in Request
  BY HeadTailProperties
<1>2. /\ AwaitedIds(r) \in Seq(Nat) /\ c \in Seq(Nat) /\ Len(c) = Len(w) - 1
  BY <1>1, AwaitedType
<1>3. id \in Nat
  BY <1>1, SessionConstants DEF AnswerId, Request
<1>4. AwaitedIds(r \o w) = AwaitedIds(r) \o (<<id>> \o c)
  BY <1>1, AwaitedConcat, AwaitedFirst
<1>5. AwaitedIds(r \o Tail(w)) = AwaitedIds(r) \o c
  BY <1>1, AwaitedConcat
<1>6. b \in Seq(Nat)
  BY <1>2
<1>7. h = b \o (<<id>> \o c)
  <2> DEFINE u == AwaitedIds(r)
             v == <<id>> \o c
  <2>1. u \in Seq(Nat) /\ v \in Seq(Nat)
    BY <1>2, <1>3
  <2> HIDE DEF u, v
  <2>2. (a \o u) \o v = a \o (u \o v)
    BY <2>1, ConcatGroups
  <2> QED
    BY <1>4, <2>2 DEF u, v
<1>8. a \o AwaitedIds(r \o Tail(w)) = b \o c
  <2> DEFINE u == AwaitedIds(r)
  <2>1. u \in Seq(Nat)
    BY <1>2
  <2> HIDE DEF u, c
  <2>2. (a \o u) \o c = a \o (u \o c)
    BY <1>2, <2>1, ConcatGroups
  <2> QED
    BY <1>5, <2>2 DEF u
<1> HIDE DEF b, c, id, h
<1>9. Len(h) = Len(b) + Len(w) /\ Len(h) - Len(w) + 1 = Len(b) + 1
  <2> DEFINE v == <<id>> \o c
  <2>1. v \in Seq(Nat) /\ Len(v) = 1 + Len(c) /\ Len(b) \in Nat
    BY <1>2, <1>3, <1>6
  <2>2. h = b \o v
    BY <1>7
  <2> HIDE DEF v
  <2>3. Len(h) = Len(b) + Len(v)
    BY <1>6, <2>1, <2>2, ConcatProperties
  <2>4. Len(w) \in Nat /\ Len(c) = Len(w) - 1
    BY <1>1, <1>2
  <2> DEFINE n == Len(b)
             m == Len(w)
             k == Len(c)
  <2>5. n \in Nat /\ m \in Nat /\ k = m - 1 /\ Len(h) = n + (1 + k)
    BY <2>1, <2>3, <2>4
  <2> HIDE DEF n, m, k
  <2>6. Len(h) = n + m /\ Len(h) - m + 1 = n + 1
    BY <2>5
  <2> QED
    BY <2>6 DEF n, m
<1>10. RemoveAt(h, Len(b) + 1) = b \o c
  BY <1>2, <1>3, <1>6, <1>7, MiddleRemoved
<1>11. RemoveAt(h, Len(h) - Len(w) + 1) = a \o AwaitedIds(r \o Tail(w))
  BY <1>8, <1>9, <1>10
<1> QED
  BY <1>11 DEF h

LEMMA NextInOrder ==
  ASSUME Inv, AnswersInOrder, [Next]_vars
  PROVE  AnswersInOrder'
<1> DEFINE a == AnsweredIds(Undelivered)
           queue == received_lines \o wire
<1>0. /\ received_lines \in Seq(Request) /\ wire \in Seq(Request)
      /\ Undelivered \in Seq(MessageToHost)
  BY UndeliveredType DEF Inv, TypeOK
<1>1. a \in Seq(Nat) /\ queue \in Seq(Request) /\ host_waiting = a \o AwaitedIds(queue)
      /\ AwaitedIds(queue) \in Seq(Nat)
  <2>1. queue \in Seq(Request)
    BY <1>0
  <2> QED
    BY <1>0, <2>1, AnsweredType, AwaitedType DEF AnswersInOrder
<1>2. CASE HostSends
  <2>1. PICK type \in RequestType, test \in RequestedTypes \cup {NoTest} :
          LET r == [type |-> type, command_id |-> requests + 1,
                    test_type |-> test]
          IN wire' = Append(wire, r)
             /\ host_waiting' = Append(host_waiting, AnswerId(r))
    BY <1>2 DEF HostSends, TypesIn
  <2> DEFINE r == [type |-> type, command_id |-> requests + 1,
                   test_type |-> test]
  <2>2. requests + 1 \in 1..MaxRequests
    BY <1>2, SessionConstants DEF HostSends, Inv, TypeOK
  <2>3. r \in Request
    BY <2>2 DEF Request
  <2>4. wire' = Append(wire, r)
        /\ host_waiting' = Append(host_waiting, AnswerId(r))
    BY <2>1
  <2> HIDE DEF r
  <2>5. received_lines \o Append(wire, r) = Append(queue, r)
    BY <1>0, <2>3
  <2>6. AnswerId(r) \in Nat
    BY <2>3, SessionConstants DEF AnswerId, Request
  <2>7. AwaitedIds(Append(queue, r)) = Append(AwaitedIds(queue), AnswerId(r))
    BY <1>1, <2>3, AwaitedLast
  <2>8. Append(a \o AwaitedIds(queue), AnswerId(r))
          = a \o Append(AwaitedIds(queue), AnswerId(r))
    <3> DEFINE w == AwaitedIds(queue)
               id == AnswerId(r)
    <3>1. w \in Seq(Nat) /\ id \in Nat
      BY <1>1, <2>6
    <3> HIDE DEF a, w, id
    <3>2. Append(a \o w, id) = a \o Append(w, id)
      BY <1>1, <3>1, ConcatGrows
    <3> QED
      BY <3>2 DEF w, id
  <2>9. Undelivered' = Undelivered /\ received_lines' = received_lines
    BY <1>2 DEF HostSends, Undelivered
  <2> QED
    BY <1>1, <2>4, <2>5, <2>7, <2>8, <2>9 DEF AnswersInOrder
<1>3. CASE ReceiveLine
  <2>1. Undelivered' = Undelivered /\ wire # << >> /\ wire' = Tail(wire)
    BY <1>3 DEF ReceiveLine, Undelivered
  <2>2. CASE /\ received_lines' = Append(received_lines, Head(wire))
             /\ UNCHANGED host_waiting
    <3>1. Append(received_lines, Head(wire)) \o Tail(wire) = queue
      BY <1>0, <2>1
    <3> QED
      BY <1>1, <2>1, <2>2, <3>1 DEF AnswersInOrder
  <2>3. CASE /\ host_waiting' =
                  RemoveAt(host_waiting, Len(host_waiting) - Len(wire) + 1)
             /\ UNCHANGED received_lines
    <3>1. host_waiting' = a \o AwaitedIds(received_lines \o Tail(wire))
      <4> DEFINE h == a \o AwaitedIds(received_lines \o wire)
      <4>1. h = host_waiting
        BY <1>1
      <4> HIDE DEF a
      <4>2. RemoveAt(h, Len(h) - Len(wire) + 1)
              = a \o AwaitedIds(received_lines \o Tail(wire))
        <5>1. /\ a \in Seq(Nat) /\ received_lines \in Seq(Request)
              /\ wire \in Seq(Request) /\ wire # << >>
          BY <1>0, <1>1, <2>1
        <5> QED
          BY <5>1, DroppedForgotten, Zenon
      <4> QED
        BY <2>3, <4>1, <4>2
    <3> QED
      BY <2>1, <2>3, <3>1 DEF AnswersInOrder
  <2> QED
    BY <1>3, <2>2, <2>3 DEF ReceiveLine
<1>4. CASE HostReceives
  <2>1. /\ Undelivered # << >> /\ Head(Undelivered) = Head(transmit_lines)
        /\ Undelivered' = Tail(Undelivered)
        /\ received_lines' = received_lines /\ wire' = wire
    BY <1>4, MessageLeaves DEF HostReceives
  <2>2. /\ IsAnswer(Head(Undelivered)) => a # << >>
        /\ AnsweredIds(Tail(Undelivered))
             = IF IsAnswer(Head(Undelivered)) THEN Tail(a) ELSE a
    BY <1>0, <2>1, FirstAnswered
  <2>3. host_waiting' = IF IsAnswer(Head(Undelivered)) THEN Tail(host_waiting)
                                                       ELSE host_waiting
    BY <1>4, <2>1 DEF HostReceives
  <2>4. a # << >> => Tail(a \o AwaitedIds(queue)) = Tail(a) \o AwaitedIds(queue)
    <3> DEFINE w == AwaitedIds(queue)
    <3>1. w \in Seq(Nat)
      BY <1>1
    <3> HIDE DEF a, w
    <3>2. a # << >> => Tail(a \o w) = Tail(a) \o w
      BY <1>1, <3>1, TailOfConcat
    <3> QED
      BY <3>2 DEF w
  <2> HIDE DEF a
  <2>5. host_waiting' = AnsweredIds(Tail(Undelivered)) \o AwaitedIds(queue)
    BY <1>1, <2>2, <2>3, <2>4
  <2> QED
    BY <2>1, <2>5 DEF AnswersInOrder
<1>5. CASE ServeTransmission
  BY <1>5, ServedUnseen DEF ServeTransmission, AnswersInOrder, hostVars
<1>6. CASE AnswerRequest
  <2>1. /\ CanQueueLine /\ received_lines # << >>
        /\ received_lines' = Tail(received_lines)
        /\ ProcessLine(Head(received_lines))
        /\ UNCHANGED <<wire, transmission, host_waiting>>
    BY <1>6 DEF AnswerRequest, MayTakeRequest, hostVars
  <2>2. Head(received_lines) \in Request
    BY <1>0, <2>1, HeadTailProperties
  <2>3. PICK message : /\ Tells(message) /\ IsAnswer(message)
                       /\ message.command_id = AnswerId(Head(received_lines))
    BY <2>1, <2>2, RequestTold
  <2>4. Undelivered' = Append(Undelivered, message)
    BY <2>1, <2>3, MessageJoins DEF Tells
  <2> DEFINE id == AnswerId(Head(received_lines))
             rest == Tail(received_lines) \o wire
  <2>5. AnsweredIds(Undelivered') = Append(a, id)
    <3>1. AnsweredIds(Append(Undelivered, message)) = Answering(a, message)
      BY <1>0, <2>3, AppendedAnswered DEF Tells
    <3> QED
      BY <2>3, <2>4, <3>1 DEF Answering
  <2>6. /\ queue # << >> /\ Head(queue) = Head(received_lines)
        /\ Tail(queue) = rest
    BY <1>0, <2>1
  <2>7. AwaitedIds(queue) = <<id>> \o AwaitedIds(rest)
    <3> HIDE DEF queue, rest
    <3> QED
      BY <1>1, <2>6, AwaitedFirst
  <2>8. AwaitedIds(rest) \in Seq(Nat) /\ id \in Nat
    <3>1. rest \in Seq(Request)
      BY <1>0, <2>1
    <3>2. id \in Nat
      BY <2>2, SessionConstants DEF AnswerId, Request
    <3> QED
      BY <3>1, <3>2, AwaitedType
  <2>9. a \o (<<id>> \o AwaitedIds(rest)) = Append(a, id) \o AwaitedIds(rest)
    <3> DEFINE w == AwaitedIds(rest)
    <3>1. w \in Seq(Nat)
      BY <2>8
    <3> HIDE DEF a, w, id
    <3>2. a \o (<<id>> \o w) = Append(a, id) \o w
      BY <1>1, <2>8, <3>1, ConcatGrows
    <3> QED
      BY <3>2 DEF w
  <2> HIDE DEF a, id
  <2> QED
    BY <1>1, <2>1, <2>5, <2>7, <2>9 DEF AnswersInOrder
<1>7. CASE ProcessComponent
  <2>1. PICK step \in Steps[active_definition] : ReportStep(step)
    BY <1>7 DEF ProcessComponent
  <2>2. /\ MayProcessComponent /\ CanQueueLine
        /\ UNCHANGED <<wire, received_lines, transmission, host_waiting>>
    BY <1>7 DEF ProcessComponent, MayProcessComponent, hostVars
  <2>3. CASE transmit_lines' = transmit_lines
    BY <2>2, <2>3 DEF AnswersInOrder, Undelivered
  <2>4. CASE \E message : Tells(message) /\ ~IsAnswer(message)
    <3>1. PICK message : Tells(message) /\ ~IsAnswer(message)
      BY <2>4
    <3>2. Undelivered' = Append(Undelivered, message)
      BY <2>2, <3>1, MessageJoins DEF Tells
    <3>3. AnsweredIds(Append(Undelivered, message)) = Answering(a, message)
      BY <1>0, <3>1, AppendedAnswered DEF Tells
    <3> QED
      BY <2>2, <3>1, <3>2, <3>3 DEF AnswersInOrder, Answering
  <2> QED
    BY <2>1, <2>2, <2>3, <2>4, ReportTold
<1>8. CASE UNCHANGED <<transmit_lines, transmission, received_lines, wire,
                       host_waiting>>
  BY <1>8 DEF AnswersInOrder, Undelivered
<1>9. CASE RequestsDone \/ SkipComponent \/ UNCHANGED vars
  BY <1>8, <1>9 DEF RequestsDone, SkipComponent, vars, transportVars, hostVars
<1> QED
  BY <1>2, <1>3, <1>4, <1>5, <1>6, <1>7, <1>9 DEF Next, MainLoop
-----------------------------------------------------------------------------
(***************************************************************************)
(* The messages that are on their way never contradict what the host has   *)
(* seen, for every depth of the queues: events and verdicts are of the     *)
(* test it believes active, starts and rejections have their cause, and    *)
(* read to the end they leave the host with the runner's present state.    *)
(***************************************************************************)
THEOREM HostFollows == Spec => []HostCanFollow
<1>1. Init => HostCanFollow
  BY InitFollow
<1>2. Inv /\ HostCanFollow /\ [Next]_vars => HostCanFollow'
  BY NextFollow
<1> QED
  BY <1>1, <1>2, Invariant, PTL DEF Spec

(***************************************************************************)
(* Between the answers under way and the requests not yet taken nothing is *)
(* lost, doubled or out of order: session_protocol_process answers each    *)
(* request it takes exactly once, under its own command id, and reports of *)
(* the component put no answer in between.                                 *)
(***************************************************************************)
THEOREM AnswersKeepOrder == Spec => []AnswersInOrder
<1>1. Init => AnswersInOrder
  BY InitFollow
<1>2. Inv /\ AnswersInOrder /\ [Next]_vars => AnswersInOrder'
  BY NextInOrder
<1> QED
  BY <1>1, <1>2, Invariant, PTL DEF Spec
=============================================================================
