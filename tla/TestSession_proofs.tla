-------------------------- MODULE TestSession_proofs --------------------------
(***************************************************************************)
(* Theorems about a whole component run, for every configuration, every    *)
(* depth of the firmware's two queues, every size of the host's buffer,    *)
(* and with or without Ctrl-C and missed deadlines.                        *)
(*                                                                         *)
(* Everything on its way from the tester to the session is one queue of    *)
(* requests, everything on its way back one queue of messages.  The        *)
(* transport only moves the place where a queue is cut; what the tester    *)
(* and the firmware do is then an exchange over two queues, and the        *)
(* invariant says what may be in them at each step of the tester.          *)
(***************************************************************************)
EXTENDS TestSession, SequenceTheorems, TLAPS

Msgs == inbox \o Undelivered
Reqs == received_lines \o wire

TesterRequest ==
  [type : {"START_TEST", "RUN_COMPONENT_TEST", "STOP_COMPONENT_TEST"},
   command_id : Nat, test_type : ProductionTests \cup {NoTest}]

FirmwareMessage ==
  [type : MessageType, command_id : Nat,
   test_type : ProductionTests \cup {NoTest}, detail : Detail]

StartRequest ==
  [type |-> "START_TEST", command_id |-> CommandId, test_type |-> NoTest]
RunRequest ==
  [type |-> "RUN_COMPONENT_TEST", command_id |-> CommandId,
   test_type |-> TestType]
StopRequest ==
  [type |-> "STOP_COMPONENT_TEST", command_id |-> StopId,
   test_type |-> NoTest]

QueuesOK ==
  /\ wire \in Seq(TesterRequest)
  /\ received_lines \in Seq(TesterRequest)
  /\ transmit_lines \in Seq(FirmwareMessage)
  /\ inbox \in Seq(FirmwareMessage)
  /\ transmission \in {"idle", "active", "completed"}
  /\ transmission # "idle" => transmit_lines # << >>

TestResult ==
  [test : ProductionTests,
   status : Detail \cup {"passed", "failed", "stopped"},
   reason : {"verdict", "operator", "protocol_error", "timeout",
             "acknowledged", "unacknowledged"},
   answer : {"none", "yes", "no"}]

TesterOK ==
  /\ test_order \in TestOrders
  /\ results \in Seq(TestResult)
  /\ answer \in {"none", "yes", "no"}
  /\ current \in 0 .. Len(test_order) + 1
  /\ tester \in {"begin", "await_first", "listening", "prompting",
                 "await_stop", "cancelling", "finished", "aborted",
                 "cancelled"}
  /\ tester = "begin" => current <= Len(test_order)
  /\ tester = "await_first" => current <= Len(test_order)
  /\ tester \in {"listening", "prompting", "await_stop", "cancelling",
                 "cancelled"}
       => current \in Tests

(***************************************************************************)
(* The runner: only the component of the active test is on, and no test    *)
(* but the tester's present one is ever active.                            *)
(***************************************************************************)
RunnerAgrees ==
  /\ active_definition \in ProductionTests \cup {NoTest}
  /\ DOMAIN component = ProductionTests
  /\ \A t \in ProductionTests : component[t] # Off <=> t = active_definition
  /\ ~Idle => /\ current \in Tests
              /\ active_definition = TestType
              /\ active_command_id = CommandId

\* Only the first request may start a test, and it starts the present one.
RequestsAgree ==
  \A i \in DOMAIN Reqs :
    /\ Reqs[i].type = "RUN_COMPONENT_TEST"
         => i = 1 /\ current \in Tests /\ Reqs[i] = RunRequest
    /\ Reqs[i].type = "START_TEST" => current = 0

(***************************************************************************)
(* The test as the tester will read it from message k on: events while it  *)
(* runs; events and the verdict when it has ended by itself; events and    *)
(* the acknowledgement when it was stopped.                                *)
(***************************************************************************)
EventsFrom(k, last) == \A i \in k .. last : IsEvent(Msgs[i])

RunsFrom(k) == ~Idle /\ EventsFrom(k, Len(Msgs))

EndsFrom(k) ==
  /\ Idle
  /\ k <= Len(Msgs)
  /\ EventsFrom(k, Len(Msgs) - 1)
  /\ IsCompletion(Msgs[Len(Msgs)])
  /\ TestType \in failures => Msgs[Len(Msgs)].detail = "failed"

StopsAtEnd ==
  /\ Idle
  /\ Len(Msgs) > 0
  /\ EventsFrom(1, Len(Msgs) - 1)
  /\ IsStopResponse(Msgs[Len(Msgs)])
  /\ TransmitDepth > 1 /\ TestType \in failures => Len(Msgs) > 1

Beginning ==
  tester = "begin" =>
    /\ Idle /\ Msgs = << >> /\ Reqs = << >>
    /\ current \in Tests => TestType \notin failures

Opening ==
  tester = "await_first" /\ current = 0 =>
    /\ Idle
    /\ \/ Reqs = <<StartRequest>> /\ Msgs = << >>
       \/ /\ Reqs = << >> /\ Len(Msgs) = 1
          /\ IsFirstResponse(Msgs[1])

Starting ==
  tester = "await_first" /\ current # 0 =>
    \/ /\ Idle
       /\ Reqs = <<RunRequest>> /\ Msgs = << >>
       /\ TestType \notin failures
    \/ /\ Reqs = << >>
       /\ Len(Msgs) > 0 /\ IsFirstResponse(Msgs[1])
       /\ RunsFrom(2) \/ EndsFrom(2)

Listening ==
  tester \in {"listening", "prompting"} =>
    Reqs = << >> /\ (RunsFrom(1) \/ EndsFrom(1))

Stopping ==
  tester = "await_stop" =>
    \/ Reqs = <<StopRequest>> /\ (RunsFrom(1) \/ EndsFrom(1))
    \/ Reqs = << >> /\ StopsAtEnd
    \/ /\ Reqs = << >> /\ Idle
       /\ \A i \in DOMAIN Msgs : ~IsStopResponse(Msgs[i])

\* Once a test was stopped nothing is left that could start one.
NothingStarts ==
  Idle /\ \A i \in DOMAIN Reqs : Reqs[i].type # "RUN_COMPONENT_TEST"

Cancelling ==
  /\ tester = "cancelling" /\ (\E i \in DOMAIN Msgs : IsStopResponse(Msgs[i]))
       => NothingStarts
  /\ tester = "cancelled" =>
       /\ results # << >>
       /\ Last(results).reason = "acknowledged" => NothingStarts

Finished == tester = "finished" => Idle /\ Reqs = << >>

(***************************************************************************)
(* A failure that the component has announced and not yet reported as its  *)
(* verdict is on its way to the tester, before any acknowledgement.        *)
(***************************************************************************)
InTest == {"await_first", "listening", "prompting", "await_stop"}

FailureAnnounced ==
  tester \in InTest /\ ~Idle /\ TestType \in failures =>
    /\ component[TestType] = "failed"
    /\ TransmitDepth > 1 =>
         /\ transmit_lines # << >>
         /\ phase = "transport" => \/ transmission = "idle"
                                   \/ Len(transmit_lines) > 1
         /\ Msgs = << >> => received_lines = << >>

FailuresKnown ==
  \A type \in failures :
    \E k \in Tests : k <= current /\ type = test_order[k]

ResultsTrue ==
  \A i \in DOMAIN results :
    results[i].status = "passed" =>
      \E k \in Tests :
        /\ k < current
        /\ results[i].test = test_order[k]
        /\ TransmitDepth > 1 => results[i].test \notin failures

Exchange ==
  /\ Beginning /\ Opening /\ Starting /\ Listening /\ Stopping
  /\ Cancelling /\ Finished

Inv ==
  /\ QueuesOK /\ TesterOK /\ RunnerAgrees /\ RequestsAgree
  /\ Exchange
  /\ FailureAnnounced /\ FailuresKnown /\ ResultsTrue
-----------------------------------------------------------------------------
(***************************************************************************)
(* Two sequences joined: an element moves from the second to the first,    *)
(* one is taken from the front, one is added at the end.                   *)
(***************************************************************************)
LEMMA OneOrMore == \A n \in Nat : n > 0 => n = 1 \/ n > 1
OBVIOUS

LEMMA UpTo ==
  \A n \in Nat : \A i \in 1 .. n : i = n \/ i \in 1 .. n - 1
OBVIOUS

LEMMA HeadThenTail ==
  ASSUME NEW S, NEW t \in Seq(S), t # << >>
  PROVE  /\ Head(t) \in S /\ Tail(t) \in Seq(S) /\ Head(t) = t[1]
         /\ Len(t) \in Nat /\ Len(t) > 0
         /\ t = <<Head(t)>> \o Tail(t)
<1>1. /\ Head(t) \in S /\ Tail(t) \in Seq(S) /\ Head(t) = t[1]
      /\ Len(t) \in Nat /\ Len(t) > 0
  BY HeadTailProperties, EmptySeq
<1>2. /\ SubSeq(t, 1, Len(t)) = t
      /\ SubSeq(t, 2, Len(t)) = Tail(t)
  BY SubSeqFull, TailIsSubSeq
<1>3. SubSeq(t, 1, Len(t)) = <<t[1]>> \o SubSeq(t, 1 + 1, Len(t))
  <2>1. 1 \in 1 .. Len(t) /\ Len(t) \in 1 .. Len(t)
    BY <1>1
  <2> QED
    BY <2>1, SubSeqRecursiveFirst
<1> QED
  BY <1>1, <1>2, <1>3

LEMMA TailLeft ==
  ASSUME NEW S, NEW t \in Seq(S), Len(t) > 1
  PROVE  Tail(t) # << >>
<1> DEFINE u == Tail(t)
<1>1. t # << >> /\ Len(t) \in Nat
  BY LenProperties
<1>2. Len(u) = Len(t) - 1
  BY <1>1, HeadTailProperties
<1> HIDE DEF u
<1>3. u # << >>
  BY <1>1, <1>2
<1> QED
  BY <1>3 DEF u

LEMMA HeadMoves ==
  ASSUME NEW S, NEW s \in Seq(S), NEW t \in Seq(S), t # << >>
  PROVE  Append(s, Head(t)) \o Tail(t) = s \o t
<1>1. /\ Head(t) \in S /\ Tail(t) \in Seq(S)
      /\ t = <<Head(t)>> \o Tail(t)
  BY HeadThenTail
<1>2. <<Head(t)>> \in Seq(S)
  BY <1>1
<1>3. Append(s, Head(t)) = s \o <<Head(t)>>
  BY <1>1, AppendIsConcat
<1>4. (s \o <<Head(t)>>) \o Tail(t) = s \o (<<Head(t)>> \o Tail(t))
  BY <1>1, <1>2, ConcatAssociative
<1> QED
  BY <1>1, <1>3, <1>4

LEMMA FrontTaken ==
  ASSUME NEW S, NEW s \in Seq(S), NEW t \in Seq(S), s # << >>
  PROVE  /\ Tail(s) \o t = Tail(s \o t)
         /\ s \o t # << >> /\ Head(s) = (s \o t)[1]
<1> DEFINE u == Tail(s) \o t
           st == <<Head(s)>> \o u
<1>1. /\ Head(s) \in S /\ Tail(s) \in Seq(S)
      /\ s = <<Head(s)>> \o Tail(s)
  BY HeadThenTail
<1>2. <<Head(s)>> \in Seq(S) /\ u \in Seq(S)
  BY <1>1, ConcatProperties
<1>3. s \o t = st
  <2>1. (<<Head(s)>> \o Tail(s)) \o t = <<Head(s)>> \o (Tail(s) \o t)
    BY <1>1, <1>2, ConcatAssociative
  <2> QED
    BY <1>1, <2>1
<1> HIDE DEF u
<1>4. /\ st \in Seq(S) /\ Len(st) = 1 + Len(u)
      /\ \A i \in 1 .. 1 + Len(u) :
           st[i] = IF i <= 1 THEN Head(s) ELSE u[i - 1]
  <2>1. Len(<<Head(s)>>) = 1 /\ <<Head(s)>>[1] = Head(s)
    OBVIOUS
  <2>2. /\ st \in Seq(S) /\ Len(st) = Len(<<Head(s)>>) + Len(u)
        /\ \A i \in 1 .. Len(<<Head(s)>>) + Len(u) :
             st[i] = IF i <= Len(<<Head(s)>>) THEN <<Head(s)>>[i]
                     ELSE u[i - Len(<<Head(s)>>)]
    BY <1>2, ConcatProperties
  <2> HIDE DEF st
  <2> QED
    BY <1>2, <2>1, <2>2, LenProperties
<1> HIDE DEF st
<1>5. Len(u) \in Nat /\ st # << >> /\ st[1] = Head(s)
  BY <1>2, <1>4, LenProperties
<1>6. /\ Tail(st) \in Seq(S) /\ Len(Tail(st)) = Len(u)
      /\ \A i \in 1 .. Len(u) : Tail(st)[i] = st[i + 1]
  BY <1>4, <1>5, HeadTailProperties
<1>7. \A i \in 1 .. Len(u) : Tail(st)[i] = u[i]
  <2> SUFFICES ASSUME NEW i \in 1 .. Len(u)
               PROVE  Tail(st)[i] = u[i]
    OBVIOUS
  <2>1. /\ i + 1 \in 1 .. 1 + Len(u) /\ ~(i + 1 <= 1)
        /\ (i + 1) - 1 = i
    BY <1>5
  <2>2. st[i + 1] = u[(i + 1) - 1]
    BY <1>4, <2>1
  <2> QED
    BY <1>6, <2>1, <2>2
<1>8. Tail(st) = u
  BY <1>2, <1>6, <1>7, SeqEqual
<1> QED
  BY <1>3, <1>5, <1>8 DEF u

LEMMA EndAdded ==
  ASSUME NEW S, NEW s \in Seq(S), NEW t \in Seq(S), NEW e \in S
  PROVE  s \o Append(t, e) = Append(s \o t, e)
<1>1. /\ <<e>> \in Seq(S) /\ s \o t \in Seq(S)
      /\ Append(t, e) = t \o <<e>>
      /\ Append(s \o t, e) = (s \o t) \o <<e>>
  BY ConcatProperties, AppendIsConcat
<1> QED
  BY <1>1, ConcatAssociative
-----------------------------------------------------------------------------
(***************************************************************************)
(* What ComponentBehaviours says of each component: it is on from start()  *)
(* to stop(); a failed component reports its failure at the next call; an  *)
(* event that announces a failure leaves it failed.                        *)
(***************************************************************************)
StepOK(s) ==
  /\ s.to # Off
  /\ s.from = "failed" => s.result = "failed"
  /\ s.result = "component_failure" => s.to = "failed"

LEMMA ComponentFacts ==
  ASSUME NEW t \in ProductionTests
  PROVE  /\ t # NoTest
         /\ Off \notin Starts[t]
         /\ \A s \in Steps[t] : StepOK(s) /\ s.result \in Detail
<1>1. \A s \in StatusLedSteps : StepOK(s)
  BY DEF StatusLedSteps, Step, Off, StepOK
<1>2. \A s \in RgbLedSteps : StepOK(s)
  BY DEF RgbLedSteps, Step, Off, StepOK
<1>3. \A s \in ImuSteps : StepOK(s)
  BY DEF ImuSteps, Step, Off, StepOK
<1>4. \A s \in BarometerSteps : StepOK(s)
  BY DEF BarometerSteps, Step, Off, StepOK
<1>5. \A s \in SdCardSteps : StepOK(s)
  BY DEF SdCardSteps, Step, Off, StepOK
<1>6. \A s \in Steps[t] : StepOK(s)
  BY <1>1, <1>2, <1>3, <1>4, <1>5 DEF ProductionTests, Steps
<1>7. /\ Off \notin StatusLedStarts /\ Off \notin RgbLedStarts
      /\ Off \notin ImuStarts /\ Off \notin BarometerStarts
      /\ Off \notin SdCardStarts
  BY DEF Off, StatusLedStarts, RgbLedStarts, ImuStarts, BarometerStarts,
         SdCardStarts
<1>8. Off \notin Starts[t]
  BY <1>7 DEF ProductionTests, Starts
<1>9. t # NoTest
  BY DEF NoTest, ProductionTests
<1> QED
  BY <1>6, <1>8, <1>9 DEF Detail
-----------------------------------------------------------------------------
(***************************************************************************)
(* The two queues: their elements, and what each kind of step does to      *)
(* them.                                                                   *)
(***************************************************************************)
LEMMA QueueTypes ==
  ASSUME QueuesOK
  PROVE  /\ Undelivered \in Seq(FirmwareMessage)
         /\ Msgs \in Seq(FirmwareMessage)
         /\ Reqs \in Seq(TesterRequest)
         /\ Len(Msgs) \in Nat /\ DOMAIN Msgs = 1 .. Len(Msgs)
         /\ Len(Reqs) \in Nat /\ DOMAIN Reqs = 1 .. Len(Reqs)
<1>1. Undelivered \in Seq(FirmwareMessage)
  BY HeadTailProperties DEF QueuesOK, Undelivered
<1>2. /\ Msgs \in Seq(FirmwareMessage)
      /\ Reqs \in Seq(TesterRequest)
  BY <1>1, ConcatProperties DEF QueuesOK, Msgs, Reqs
<1> QED
  BY <1>1, <1>2, LenProperties

\* A request that finds the line queue full is lost; the first one stays.
RequestLost ==
  /\ Len(Reqs) > 1
  /\ \A i \in DOMAIN Reqs' : \E j \in DOMAIN Reqs :
       Reqs'[i] = Reqs[j] /\ (j = 1 => i = 1)

LEMMA LineReceived ==
  ASSUME QueuesOK, ReceiveLine, UNCHANGED inbox
  PROVE  QueuesOK' /\ Msgs' = Msgs /\ (Reqs' = Reqs \/ RequestLost)
<1>1. /\ wire \in Seq(TesterRequest) /\ wire # << >>
      /\ received_lines \in Seq(TesterRequest)
      /\ wire' = Tail(wire)
      /\ UNCHANGED <<transmit_lines, transmission>>
  BY DEF QueuesOK, ReceiveLine
<1>2. /\ Head(wire) \in TesterRequest /\ Tail(wire) \in Seq(TesterRequest)
      /\ Len(wire) \in Nat /\ Len(wire) > 0
      /\ Len(Tail(wire)) = Len(wire) - 1
      /\ \A i \in 1 .. Len(Tail(wire)) : Tail(wire)[i] = wire[i + 1]
  BY <1>1, HeadThenTail, HeadTailProperties
<1>3. Msgs' = Msgs
  BY <1>1 DEF Msgs, Undelivered
<1>4. CASE received_lines' = Append(received_lines, Head(wire))
  <2>1. Reqs' = Reqs
    BY <1>1, <1>4, HeadMoves DEF Reqs
  <2>2. received_lines' \in Seq(TesterRequest)
    BY <1>1, <1>2, <1>4, AppendProperties
  <2> QED
    BY <1>1, <1>2, <1>3, <2>1, <2>2 DEF QueuesOK
<1>5. CASE /\ Len(received_lines) = LineQueueDepth
           /\ received_lines' = received_lines
  <2> DEFINE n == Len(received_lines)
             tail == Tail(wire)
  <2>1. n \in Nat /\ n > 0
    BY <1>1, <1>5, SessionConstants, LenProperties
  <2>2. /\ Reqs \in Seq(TesterRequest) /\ Len(Reqs) = n + Len(wire)
        /\ \A i \in 1 .. n + Len(wire) :
             Reqs[i] = IF i <= n THEN received_lines[i] ELSE wire[i - n]
    BY <1>1, ConcatProperties DEF Reqs
  <2>3. Reqs' = received_lines \o tail
    BY <1>1, <1>5 DEF Reqs
  <2>4. /\ Reqs' \in Seq(TesterRequest) /\ Len(Reqs') = n + Len(tail)
        /\ \A i \in 1 .. n + Len(tail) :
             Reqs'[i] = IF i <= n THEN received_lines[i] ELSE tail[i - n]
    BY <1>1, <1>2, <2>3, ConcatProperties
  <2>5. /\ DOMAIN Reqs = 1 .. n + Len(wire)
        /\ DOMAIN Reqs' = 1 .. n + Len(tail)
        /\ Len(tail) = Len(wire) - 1 /\ Len(tail) \in Nat
        /\ \A i \in 1 .. Len(tail) : tail[i] = wire[i + 1]
    BY <1>2, <2>2, <2>4, LenProperties
  <2> HIDE DEF n, tail
  <2>6. ASSUME NEW i \in DOMAIN Reqs'
        PROVE  \E j \in DOMAIN Reqs : Reqs'[i] = Reqs[j] /\ (j = 1 => i = 1)
    <3>1. CASE i <= n
      <4>1. i \in 1 .. n + Len(tail) /\ i \in 1 .. n + Len(wire)
        BY <1>2, <2>1, <2>5, <2>6
      <4>2. /\ Reqs'[i] = received_lines[i]
            /\ Reqs[i] = received_lines[i]
        BY <2>2, <2>4, <3>1, <4>1
      <4> QED
        BY <2>5, <4>1, <4>2
    <3>2. CASE i > n
      <4>1. /\ Reqs'[i] = tail[i - n] /\ i - n \in 1 .. Len(tail)
            /\ i + 1 \in DOMAIN Reqs /\ i + 1 # 1
            /\ ~(i + 1 <= n) /\ (i + 1) - n = (i - n) + 1
        BY <1>2, <2>1, <2>4, <2>5, <2>6, <3>2
      <4>2. Reqs[i + 1] = wire[(i + 1) - n]
        BY <2>2, <2>5, <4>1
      <4>3. tail[i - n] = wire[(i - n) + 1]
        BY <2>5, <4>1
      <4> QED
        BY <4>1, <4>2, <4>3
    <3>3. i \in Nat /\ n \in Nat
      BY <1>2, <2>1, <2>5, <2>6
    <3> QED
      BY <3>1, <3>2, <3>3
  <2>7. Len(Reqs) > 1
    BY <1>2, <2>1, <2>2
  <2> QED
    BY <1>1, <1>2, <1>3, <1>5, <2>6, <2>7 DEF QueuesOK, RequestLost
<1> QED
  BY <1>4, <1>5 DEF ReceiveLine

LEMMA TransmissionServed ==
  ASSUME QueuesOK, ServeTransmission, UNCHANGED inbox
  PROVE  QueuesOK' /\ Msgs' = Msgs /\ Reqs' = Reqs
<1>1. /\ wire' = wire /\ received_lines' = received_lines
      /\ transmit_lines' = Undelivered
      /\ transmission' \in {"idle", "active"}
      /\ transmission' # "idle" => transmit_lines' # << >>
  BY DEF ServeTransmission, Undelivered
<1>2. Undelivered' = Undelivered
  BY <1>1 DEF Undelivered
<1>3. Undelivered \in Seq(FirmwareMessage)
  BY QueueTypes
<1> QED
  BY <1>1, <1>2, <1>3 DEF QueuesOK, Msgs, Reqs

LEMMA MessageDelivered ==
  ASSUME QueuesOK, Deliver
  PROVE  QueuesOK' /\ Msgs' = Msgs /\ Reqs' = Reqs
<1>1. /\ transmit_lines \in Seq(FirmwareMessage) /\ transmit_lines # << >>
      /\ inbox \in Seq(FirmwareMessage)
      /\ transmission = "active" /\ transmission' = "completed"
      /\ inbox' = Append(inbox, Head(transmit_lines))
      /\ UNCHANGED <<wire, received_lines, transmit_lines>>
  BY DEF QueuesOK, Deliver, HostReceives
<1>2. Undelivered = transmit_lines /\ Undelivered' = Tail(transmit_lines)
  BY <1>1 DEF Undelivered
<1>3. Msgs' = Msgs
  BY <1>1, <1>2, HeadMoves DEF Msgs
<1>4. inbox' \in Seq(FirmwareMessage)
  BY <1>1, HeadThenTail, AppendProperties
<1> QED
  BY <1>1, <1>3, <1>4 DEF QueuesOK, Reqs

LEMMA MessageQueued ==
  ASSUME QueuesOK, NEW message \in FirmwareMessage, CanQueueLine,
         QueueResponse(message), UNCHANGED <<inbox, transmission>>
  PROVE  /\ transmit_lines' = Append(transmit_lines, message)
         /\ transmit_lines' \in Seq(FirmwareMessage)
         /\ Len(transmit_lines) \in Nat
         /\ Len(transmit_lines') = Len(transmit_lines) + 1
         /\ transmit_lines' # << >> /\ transmit_lines' # transmit_lines
         /\ Last(transmit_lines') = message
         /\ Msgs' = Append(Msgs, message)
<1>1. /\ transmit_lines \in Seq(FirmwareMessage)
      /\ inbox \in Seq(FirmwareMessage)
      /\ Len(transmit_lines) \in Nat
      /\ Len(transmit_lines) < TransmitDepth
  BY LenProperties DEF QueuesOK, CanQueueLine
<1>2. transmit_lines' = Append(transmit_lines, message)
  BY <1>1, SessionConstants DEF QueueResponse
<1>3. /\ transmit_lines' \in Seq(FirmwareMessage)
      /\ Len(transmit_lines') = Len(transmit_lines) + 1
      /\ transmit_lines' # << >>
      /\ transmit_lines'[Len(transmit_lines) + 1] = message
  BY <1>1, <1>2, AppendProperties
<1>4. transmit_lines' # transmit_lines /\ Last(transmit_lines') = message
  BY <1>1, <1>3 DEF Last
<1>5. Undelivered' = Append(Undelivered, message)
  <2>1. CASE transmission = "completed"
    <3>1. transmit_lines # << >>
      BY <2>1 DEF QueuesOK
    <3>2. Tail(transmit_lines') = Append(Tail(transmit_lines), message)
      BY <1>1, <1>2, <3>1, HeadTailAppend
    <3> QED
      BY <2>1, <3>2 DEF Undelivered
  <2>2. CASE transmission # "completed"
    BY <1>2, <2>2 DEF Undelivered
  <2> QED
    BY <2>1, <2>2
<1>6. Msgs' = Append(Msgs, message)
  BY <1>1, <1>5, QueueTypes, EndAdded DEF Msgs
<1> QED
  BY <1>1, <1>2, <1>3, <1>4, <1>6

LEMMA RequestWritten ==
  ASSUME QueuesOK, NEW type, NEW id, NEW test,
         [type |-> type, command_id |-> id, test_type |-> test]
           \in TesterRequest,
         Write(type, id, test)
  PROVE  /\ wire' \in Seq(TesterRequest)
         /\ Reqs' = Append(Reqs, [type |-> type, command_id |-> id,
                                  test_type |-> test])
<1> DEFINE request == [type |-> type, command_id |-> id, test_type |-> test]
<1>1. /\ wire \in Seq(TesterRequest) /\ received_lines \in Seq(TesterRequest)
      /\ wire' = Append(wire, request)
      /\ received_lines' = received_lines
  BY DEF QueuesOK, Write
<1> QED
  BY <1>1, AppendProperties, EndAdded DEF Reqs

LEMMA MessageRead ==
  ASSUME QueuesOK, inbox # << >>, inbox' = Tail(inbox),
         UNCHANGED <<transmit_lines, transmission>>
  PROVE  /\ inbox' \in Seq(FirmwareMessage)
         /\ Len(Msgs) > 0 /\ Head(inbox) = Msgs[1]
         /\ Msgs[1] \in FirmwareMessage
         /\ Len(Msgs') = Len(Msgs) - 1
         /\ \A i \in 1 .. Len(Msgs) - 1 : Msgs'[i] = Msgs[i + 1]
<1>1. inbox \in Seq(FirmwareMessage) /\ Undelivered \in Seq(FirmwareMessage)
  BY QueueTypes DEF QueuesOK
<1>2. Undelivered' = Undelivered
  BY DEF Undelivered
<1>3. Msgs' = Tail(Msgs) /\ Msgs # << >> /\ Head(inbox) = Msgs[1]
  BY <1>1, <1>2, FrontTaken DEF Msgs
<1> QED
  BY <1>1, <1>3, QueueTypes, HeadThenTail, HeadTailProperties
-----------------------------------------------------------------------------
(***************************************************************************)
(* The steps that only move requests and messages along, or lose a         *)
(* request: neither side learns anything.                                  *)
(***************************************************************************)
TestStays ==
  /\ answer' \in {"none", "yes", "no"}
  /\ UNCHANGED <<current, tester, failures, results, test_order>>

Transport ==
  /\ QueuesOK' /\ Msgs' = Msgs /\ (Reqs' = Reqs \/ RequestLost)
  /\ UNCHANGED runnerVars
  /\ TestStays

LEMMA RequestsMove ==
  ASSUME Inv, Transport
  PROVE  /\ RequestsAgree'
         /\ Reqs' = Reqs \/ tester \in {"cancelling", "cancelled", "aborted"}
         /\ NothingStarts => NothingStarts'
<1>1. /\ Len(Reqs) \in Nat /\ DOMAIN Reqs = 1 .. Len(Reqs)
      /\ UNCHANGED <<current, test_order, tester, active_definition>>
  BY QueueTypes DEF Inv, Transport, TestStays, runnerVars
<1>2. CASE Reqs' = Reqs
  BY <1>1, <1>2 DEF Inv, RequestsAgree, RunRequest, CommandId, TestType, Tests,
         NothingStarts, Idle
<1>3. CASE RequestLost
  <2>1. RequestsAgree'
    BY <1>1, <1>3 DEF RequestLost, Inv, RequestsAgree, RunRequest, CommandId,
           TestType, Tests
  <2>2. NothingStarts => NothingStarts'
    BY <1>1, <1>3 DEF RequestLost, NothingStarts, Idle
  <2>3. tester \in {"cancelling", "cancelled", "aborted"}
    <3>1. Len(Reqs) > 1
      BY <1>3 DEF RequestLost
    <3>2. \A r : Reqs # <<r>>
      <4> SUFFICES ASSUME NEW r, Reqs = <<r>>
                   PROVE  FALSE
        OBVIOUS
      <4>1. Len(<<r>>) = 1
        OBVIOUS
      <4> QED
        BY <3>1, <4>1
    <3>3. Reqs # << >>
      BY <3>1
    <3> QED
      BY <3>2, <3>3 DEF Inv, TesterOK, Exchange, Beginning, Opening, Starting,
             Listening, Stopping, Finished
  <2> QED
    BY <2>1, <2>2, <2>3
<1> QED
  BY <1>2, <1>3 DEF Transport

LEMMA TransportKeeps ==
  ASSUME Inv, Transport
  PROVE  /\ QueuesOK' /\ TesterOK' /\ RunnerAgrees' /\ RequestsAgree'
         /\ Exchange' /\ FailuresKnown' /\ ResultsTrue'
<1>1. /\ UNCHANGED <<active_definition, active_command_id, component, current,
                     tester, failures, results, test_order>>
      /\ answer' \in {"none", "yes", "no"}
      /\ Msgs' = Msgs /\ QueuesOK'
  BY DEF Transport, TestStays, runnerVars
<1>2. TesterOK' /\ RunnerAgrees' /\ FailuresKnown' /\ ResultsTrue'
  BY <1>1 DEF Inv, TesterOK, RunnerAgrees, FailuresKnown, ResultsTrue, Tests,
         TestType, CommandId, Idle
<1>3. RequestsAgree'
  BY RequestsMove
<1>4. Exchange'
  <2>1. UNCHANGED <<TestType, CommandId, StopId, Tests, Idle>>
    BY <1>1 DEF TestType, CommandId, StopId, Tests, Idle
  <2>2. Cancelling'
    BY <1>1, <2>1, RequestsMove DEF Inv, Exchange, Cancelling, IsStopResponse,
           Correlated
  <2>3. CASE Reqs' = Reqs
    BY <1>1, <2>1, <2>2, <2>3 DEF Inv, Exchange, Beginning, Opening, Starting,
           Listening, Stopping, Finished, RunsFrom, EndsFrom, StopsAtEnd,
           EventsFrom, IsEvent, IsCompletion, IsStopResponse, IsFirstResponse,
           Correlated, StartRequest, RunRequest, StopRequest
  <2>4. CASE tester \in {"cancelling", "cancelled", "aborted"}
    BY <1>1, <2>2, <2>4 DEF Exchange, Beginning, Opening, Starting,
           Listening, Stopping, Finished, InTest
  <2> QED
    BY <2>3, <2>4, RequestsMove
<1> QED
  BY <1>1, <1>2, <1>3, <1>4

LEMMA LineReceivedOK ==
  ASSUME Inv, ReceiveLine, UNCHANGED testerVars, UNCHANGED test_order
  PROVE  Inv'
<1>1. Transport
  BY LineReceived DEF Inv, TesterOK, Transport, TestStays, testerVars,
     ReceiveLine
<1>2. FailureAnnounced'
  <2> SUFFICES ASSUME tester \in InTest, ~Idle, TestType \in failures
               PROVE  FailureAnnounced'
    BY DEF FailureAnnounced, testerVars, ReceiveLine, runnerVars, Idle,
           TestType
  <2>1. /\ UNCHANGED <<component, transmit_lines, transmission, phase>>
        /\ TestType' = TestType /\ Msgs' = Msgs
        /\ phase = "transport"
    BY <1>1 DEF ReceiveLine, runnerVars, testerVars, TestType, Transport
  <2>2. TransmitDepth > 1 => Msgs # << >>
    <3> SUFFICES ASSUME TransmitDepth > 1
                 PROVE  Msgs # << >>
      OBVIOUS
    <3>1. /\ transmit_lines \in Seq(FirmwareMessage)
          /\ inbox \in Seq(FirmwareMessage)
          /\ transmit_lines # << >>
          /\ transmission = "idle" \/ Len(transmit_lines) > 1
      BY <2>1 DEF Inv, QueuesOK, FailureAnnounced
    <3>2. Undelivered # << >>
      <4>1. CASE transmission = "completed"
        <5>1. Tail(transmit_lines) # << >>
          BY <3>1, <4>1, TailLeft
        <5> QED
          BY <4>1, <5>1 DEF Undelivered
      <4>2. CASE transmission # "completed"
        BY <3>1, <4>2 DEF Undelivered
      <4> QED
        BY <4>1, <4>2
    <3> QED
      BY <3>1, <3>2, QueueTypes, ConcatEqualIffEmpty DEF Inv, Msgs
  <2> QED
    BY <2>1, <2>2 DEF Inv, FailureAnnounced
<1> QED
  BY <1>1, <1>2, TransportKeeps DEF Inv

LEMMA TransmissionServedOK ==
  ASSUME Inv, ServeTransmission, UNCHANGED testerVars, UNCHANGED test_order
  PROVE  Inv'
<1>1. Transport
  BY TransmissionServed DEF Inv, TesterOK, Transport, TestStays,
     testerVars, ServeTransmission
<1>2. FailureAnnounced'
  <2> SUFFICES ASSUME tester \in InTest, ~Idle, TestType \in failures
               PROVE  FailureAnnounced'
    BY DEF FailureAnnounced, testerVars, ServeTransmission, runnerVars, Idle,
           TestType
  <2>1. /\ UNCHANGED <<component, received_lines>>
        /\ TestType' = TestType /\ Msgs' = Msgs
        /\ phase = "transport" /\ phase' = "requests"
        /\ transmit_lines' = Undelivered
    BY <1>1 DEF ServeTransmission, runnerVars, testerVars, TestType, Transport,
           Undelivered
  <2>2. TransmitDepth > 1 => Undelivered # << >>
    <3> SUFFICES ASSUME TransmitDepth > 1
                 PROVE  Undelivered # << >>
      OBVIOUS
    <3>1. /\ transmit_lines \in Seq(FirmwareMessage)
          /\ transmit_lines # << >>
          /\ transmission = "idle" \/ Len(transmit_lines) > 1
      BY <2>1 DEF Inv, QueuesOK, FailureAnnounced
    <3>2. CASE transmission = "completed"
      <4>1. Tail(transmit_lines) # << >>
        BY <3>1, <3>2, TailLeft
      <4> QED
        BY <3>2, <4>1 DEF Undelivered
    <3>3. CASE transmission # "completed"
      BY <3>1, <3>3 DEF Undelivered
    <3> QED
      BY <3>2, <3>3
  <2> QED
    BY <2>1, <2>2 DEF Inv, FailureAnnounced
<1> QED
  BY <1>1, <1>2, TransportKeeps DEF Inv

LEMMA MessageDeliveredOK ==
  ASSUME Inv, Deliver, UNCHANGED test_order
  PROVE  Inv'
<1>1. Transport
  BY MessageDelivered DEF Inv, TesterOK, Transport, TestStays, Deliver,
     HostReceives
<1>2. FailureAnnounced'
  <2>1. /\ UNCHANGED <<runnerVars, phase, transmit_lines, received_lines>>
        /\ transmission = "active" /\ Msgs' = Msgs
        /\ UNCHANGED <<tester, failures, current, test_order>>
    BY <1>1 DEF Deliver, HostReceives, Transport
  <2> QED
    BY <2>1 DEF Inv, FailureAnnounced, Idle, TestType, runnerVars
<1> QED
  BY <1>1, <1>2, TransportKeeps DEF Inv

LEMMA TurnGoesOn ==
  ASSUME Inv, RequestsDone \/ SkipComponent, UNCHANGED testerVars,
         UNCHANGED test_order
  PROVE  Inv'
<1>1. /\ UNCHANGED <<wire, received_lines, transmit_lines, transmission>>
      /\ UNCHANGED <<runnerVars, inbox>>
      /\ UNCHANGED <<tester, failures, current, test_order>>
  BY DEF RequestsDone, SkipComponent, transportVars, testerVars
<1>2. Msgs' = Msgs /\ Reqs' = Reqs
  BY <1>1 DEF Msgs, Reqs, Undelivered
<1>3. Transport
  BY <1>1, <1>2 DEF Inv, QueuesOK, TesterOK, Transport, TestStays,
     testerVars
<1>4. FailureAnnounced'
  <2> SUFFICES ASSUME tester \in InTest, ~Idle, TestType \in failures
               PROVE  FailureAnnounced'
    BY <1>1 DEF FailureAnnounced, runnerVars, Idle, TestType
  <2>1. TransmitDepth > 1 /\ phase' = "transport" => Len(transmit_lines) > 1
    <3> SUFFICES ASSUME TransmitDepth > 1, SkipComponent
                 PROVE  Len(transmit_lines) > 1
      BY DEF RequestsDone
    <3>1. ~(Len(transmit_lines) < TransmitDepth)
      BY DEF SkipComponent, MayProcessComponent, CanQueueLine
    <3>2. Len(transmit_lines) \in Nat /\ TransmitDepth \in Nat
      BY LenProperties, SessionConstants DEF Inv, QueuesOK
    <3> QED
      BY <3>1, <3>2
  <2> QED
    BY <1>1, <1>2, <2>1 DEF Inv, FailureAnnounced, runnerVars, Idle, TestType
<1> QED
  BY <1>3, <1>4, TransportKeeps DEF Inv
-----------------------------------------------------------------------------
(***************************************************************************)
(* A request answered: it leaves the front of the one queue, its answer    *)
(* joins the end of the other.                                             *)
(***************************************************************************)
MessageAdded(message) ==
  /\ Len(Msgs') = Len(Msgs) + 1
  /\ \A i \in 1 .. Len(Msgs) : Msgs'[i] = Msgs[i]
  /\ Msgs'[Len(Msgs) + 1] = message
  /\ transmit_lines' # << >>

RequestTaken ==
  /\ Len(Reqs) > 0
  /\ received_lines # << >>
  /\ Len(Reqs') = Len(Reqs) - 1
  /\ \A i \in 1 .. Len(Reqs) - 1 : Reqs'[i] = Reqs[i + 1]

ComponentsFollow ==
  /\ DOMAIN component' = ProductionTests
  /\ \A t \in ProductionTests : component'[t] # Off <=> t = active_definition'

SessionStarted(request, message) ==
  /\ request.type = "START_TEST"
  /\ message.type = "START_TEST_RESPONSE"
  /\ message.command_id = request.command_id
  /\ UNCHANGED runnerVars

TestStarted(request, message) ==
  /\ request.type = "RUN_COMPONENT_TEST"
  /\ Idle
  /\ active_definition' = request.test_type
  /\ active_command_id' = request.command_id
  /\ message.type = "TEST_STARTED"
  /\ message.command_id = request.command_id
  /\ message.test_type = request.test_type
  /\ ComponentsFollow

RequestRefused(request, message) ==
  /\ request.type = "RUN_COMPONENT_TEST" => ~Idle
  /\ request.type = "STOP_COMPONENT_TEST" => Idle
  /\ request.type # "START_TEST"
  /\ message.type = "ERROR"
  /\ UNCHANGED runnerVars

TestStopped(request, message) ==
  /\ request.type = "STOP_COMPONENT_TEST"
  /\ ~Idle /\ Idle'
  /\ message.type = "TEST_STOPPED"
  /\ message.command_id = request.command_id
  /\ message.test_type = active_definition
  /\ ComponentsFollow

Answered(request, message) ==
  \/ SessionStarted(request, message)
  \/ TestStarted(request, message)
  \/ RequestRefused(request, message)
  \/ TestStopped(request, message)

LEMMA DetailOf ==
  {"ok", "running", "stopped", "invalid_request", "test_already_active",
   "unsupported_test_type", "no_active_test"} \subseteq Detail
BY DEF Detail

LEMMA VerdictsAreDetails == "passed" \in Detail /\ "failed" \in Detail
<1>1. /\ Step("complete", "passed", "complete") \in SdCardSteps
      /\ Step("failed", "failed", "failed") \in SdCardSteps
  BY DEF SdCardSteps
<1>2. Steps["sd_card"] = SdCardSteps
  BY DEF Steps, ProductionTests
<1>3. "sd_card" \in ProductionTests
  BY DEF ProductionTests
<1> QED
  BY <1>1, <1>2, <1>3 DEF Detail, Step

LEMMA ReleasedIsOff ==
  ASSUME RunnerAgrees, RunnerRelease
  PROVE  Idle' /\ ComponentsFollow
<1>1. /\ DOMAIN component' = ProductionTests
      /\ \A t \in ProductionTests :
           component'[t] = IF t = active_definition THEN Off ELSE component[t]
      /\ active_definition' = NoTest
  BY DEF RunnerAgrees, RunnerRelease
<1>2. \A t \in ProductionTests : t # NoTest
  BY ComponentFacts
<1> QED
  BY <1>1, <1>2 DEF RunnerAgrees, ComponentsFollow, Idle

LEMMA RequestAnswered ==
  ASSUME Inv, AnswerRequest, UNCHANGED inbox
  PROVE  /\ QueuesOK' /\ RequestTaken
         /\ \E message \in FirmwareMessage :
              Answered(Reqs[1], message) /\ MessageAdded(message)
<1> DEFINE r == Head(received_lines)
<1>1. /\ received_lines \in Seq(TesterRequest) /\ received_lines # << >>
      /\ wire \in Seq(TesterRequest)
      /\ received_lines' = Tail(received_lines)
      /\ UNCHANGED <<wire, transmission, inbox>>
      /\ CanQueueLine
      /\ ProcessLine(r)
      /\ QueuesOK /\ RunnerAgrees /\ RequestsAgree
  BY DEF Inv, QueuesOK, AnswerRequest, MayTakeRequest
<1>2. /\ r = Reqs[1] /\ Reqs # << >> /\ Reqs' = Tail(Reqs)
      /\ received_lines' \in Seq(TesterRequest)
  BY <1>1, FrontTaken, HeadThenTail DEF Reqs
<1>3. /\ RequestTaken
      /\ DOMAIN Reqs = 1 .. Len(Reqs) /\ Len(Reqs) \in Nat /\ Len(Reqs) > 0
  <2>1. Reqs \in Seq(TesterRequest) /\ DOMAIN Reqs = 1 .. Len(Reqs)
    BY <1>1, QueueTypes
  <2>2. Len(Reqs) \in Nat /\ Len(Reqs) > 0
    BY <1>2, <2>1, EmptySeq
  <2>3. /\ Len(Tail(Reqs)) = Len(Reqs) - 1
        /\ \A i \in 1 .. Len(Reqs) - 1 : Tail(Reqs)[i] = Reqs[i + 1]
    BY <1>2, <2>1, HeadTailProperties
  <2> QED
    BY <1>1, <1>2, <2>1, <2>2, <2>3 DEF RequestTaken
<1>4. r \in TesterRequest
  BY <1>1, HeadThenTail
<1> HIDE DEF r
<1>5. ASSUME NEW message \in FirmwareMessage, QueueResponse(message)
      PROVE  QueuesOK' /\ MessageAdded(message)
  <2>1. /\ transmit_lines' \in Seq(FirmwareMessage)
        /\ transmit_lines' # << >>
        /\ Msgs' = Append(Msgs, message)
    BY <1>1, <1>5, MessageQueued
  <2>2. Msgs \in Seq(FirmwareMessage)
    BY <1>1, QueueTypes
  <2> QED
    BY <1>1, <1>2, <2>1, <2>2, AppendProperties DEF QueuesOK, MessageAdded
<1>6. SUFFICES \E message \in FirmwareMessage :
                 QueueResponse(message) /\ Answered(r, message)
  BY <1>2, <1>3, <1>5
<1>7. CASE RefuseInvalid(r)
  BY <1>4, <1>7 DEF RefuseInvalid, TesterRequest
<1>8. CASE StartSession(r)
  <2> DEFINE m == Message("START_TEST_RESPONSE", r.command_id, NoTest, "ok")
  <2>1. m \in FirmwareMessage
    BY <1>4, DetailOf DEF Message, FirmwareMessage, TesterRequest, MessageType
  <2>2. SessionStarted(r, m) /\ QueueResponse(m)
    BY <1>8 DEF StartSession, SessionStarted, Message
  <2> QED
    BY <2>1, <2>2 DEF Answered
<1>9. CASE RunComponentTest(r)
  <2>1. r.type = "RUN_COMPONENT_TEST" /\ r = RunRequest /\ current \in Tests
    BY <1>1, <1>2, <1>3, <1>9 DEF RunComponentTest, RequestsAgree
  <2>2. r.test_type \in ProductionTests
    <3>1. test_order \in Seq(ProductionTests)
      BY TestConstants DEF Inv, TesterOK
    <3> QED
      BY <2>1, <3>1, ElementOfSeq, LenProperties
      DEF Tests, RunRequest, TestType
  <2>3. CASE ~Idle
    <3> DEFINE m == Error(r.command_id, "test_already_active")
    <3>1. m \in FirmwareMessage
      BY <1>4, DetailOf DEF Error, Message, FirmwareMessage, TesterRequest,
             MessageType
    <3>2. QueueResponse(m) /\ UNCHANGED runnerVars
      BY <1>9, <2>3 DEF RunComponentTest
    <3> QED
      BY <2>1, <2>3, <3>1, <3>2 DEF Answered, RequestRefused, Error, Message
  <2>4. CASE Idle
    <3> DEFINE m == Message("TEST_STARTED", r.command_id, r.test_type,
                            "running")
    <3>1. m \in FirmwareMessage
      BY <1>4, DetailOf DEF Message, FirmwareMessage, TesterRequest,
             MessageType
    <3>2. RunnerStart(r.test_type, r.command_id) /\ QueueResponse(m)
      BY <1>9, <2>2, <2>4 DEF RunComponentTest
    <3>3. PICK s \in Starts[r.test_type] :
                 component' = [component EXCEPT ![r.test_type] = s]
      BY <3>2 DEF RunnerStart
    <3>4. s # Off /\ \A t \in ProductionTests : t # NoTest
      BY <2>2, ComponentFacts
    <3>5. ComponentsFollow
      <4>1. /\ DOMAIN component = ProductionTests
            /\ \A t \in ProductionTests : component[t] = Off
        BY <1>1, <2>4, <3>4 DEF RunnerAgrees, Idle
      <4>2. active_definition' = r.test_type
        BY <3>2 DEF RunnerStart
      <4> QED
        BY <2>2, <3>3, <3>4, <4>1, <4>2 DEF ComponentsFollow
    <3> QED
      BY <2>1, <2>4, <3>1, <3>2, <3>5 DEF Answered, TestStarted, RunnerStart,
             Message
  <2> QED
    BY <2>3, <2>4
<1>10. CASE StopComponentTest(r)
  <2>1. CASE Idle
    <3> DEFINE m == Error(r.command_id, "no_active_test")
    <3>1. m \in FirmwareMessage
      BY <1>4, DetailOf DEF Error, Message, FirmwareMessage, TesterRequest,
             MessageType
    <3>2. /\ QueueResponse(m) /\ UNCHANGED runnerVars
          /\ r.type = "STOP_COMPONENT_TEST"
      BY <1>10, <2>1 DEF StopComponentTest
    <3> QED
      BY <2>1, <3>1, <3>2 DEF Answered, RequestRefused, Error, Message
  <2>2. CASE ~Idle
    <3> DEFINE m == Message("TEST_STOPPED", r.command_id, active_definition,
                            "stopped")
    <3>1. m \in FirmwareMessage
      BY <1>1, <1>4, DetailOf DEF Message, FirmwareMessage, TesterRequest,
             MessageType, RunnerAgrees
    <3>2. /\ QueueResponse(m) /\ RunnerRelease
          /\ r.type = "STOP_COMPONENT_TEST"
      BY <1>10, <2>2 DEF StopComponentTest
    <3>3. Idle' /\ ComponentsFollow
      BY <1>1, <3>2, ReleasedIsOff
    <3> QED
      BY <2>2, <3>1, <3>2, <3>3 DEF Answered, TestStopped, Message
  <2> QED
    BY <2>1, <2>2
<1> QED
  BY <1>1, <1>7, <1>8, <1>9, <1>10 DEF ProcessLine

\* QueueTypes of the next state.
LEMMA QueueTypesNext ==
  ASSUME QueuesOK'
  PROVE  /\ Msgs' \in Seq(FirmwareMessage) /\ Reqs' \in Seq(TesterRequest)
         /\ Len(Msgs') \in Nat /\ DOMAIN Msgs' = 1 .. Len(Msgs')
         /\ Len(Reqs') \in Nat /\ DOMAIN Reqs' = 1 .. Len(Reqs')
         /\ Len(Msgs') = 0 <=> Msgs' = << >>
         /\ Len(Reqs') = 0 <=> Reqs' = << >>
<1>1. Undelivered' \in Seq(FirmwareMessage)
  BY HeadTailProperties DEF QueuesOK, Undelivered
<1>2. /\ Msgs' \in Seq(FirmwareMessage)
      /\ Reqs' \in Seq(TesterRequest)
  BY <1>1, ConcatProperties DEF QueuesOK, Msgs, Reqs
<1> QED
  BY <1>1, <1>2, LenProperties, EmptySeq

LEMMA AnswerKeepsExchange ==
  ASSUME Inv, QueuesOK', RequestTaken, NEW message,
         Answered(Reqs[1], message), MessageAdded(message), TestStays
  PROVE  Exchange'
<1> USE DEF Exchange
<1>1. /\ Len(Reqs) \in Nat /\ DOMAIN Reqs = 1 .. Len(Reqs)
      /\ Len(Reqs') \in Nat /\ DOMAIN Reqs' = 1 .. Len(Reqs')
      /\ Len(Msgs) \in Nat /\ DOMAIN Msgs = 1 .. Len(Msgs)
      /\ Len(Msgs') \in Nat /\ DOMAIN Msgs' = 1 .. Len(Msgs')
      /\ Len(Reqs') = 0 => Reqs' = << >>
  BY QueueTypes, QueueTypesNext DEF Inv
<1>2. /\ UNCHANGED <<current, tester, failures, results, test_order>>
      /\ UNCHANGED <<TestType, CommandId, StopId, Tests>>
  BY DEF TestStays, TestType, CommandId, StopId, Tests
<1>3. /\ Reqs # << >> /\ Len(Reqs) > 0 /\ Len(Reqs') = Len(Reqs) - 1
      /\ \A i \in 1 .. Len(Reqs') : Reqs'[i] = Reqs[i + 1]
      /\ received_lines # << >>
  BY <1>1 DEF RequestTaken
<1>4. \A r : Reqs = <<r>> => Reqs' = << >> /\ Reqs[1] = r
  <2> SUFFICES ASSUME NEW r, Reqs = <<r>>
               PROVE  Reqs' = << >> /\ Reqs[1] = r
    OBVIOUS
  <2>1. Len(<<r>>) = 1 /\ <<r>>[1] = r
    OBVIOUS
  <2> QED
    BY <1>1, <1>3, <2>1
<1>5. /\ Len(Msgs') = Len(Msgs) + 1
      /\ \A i \in 1 .. Len(Msgs) : Msgs'[i] = Msgs[i]
      /\ Msgs'[Len(Msgs')] = message
      /\ Msgs = << >> <=> Len(Msgs) = 0
  <2>1. Msgs = << >> <=> Len(Msgs) = 0
    BY QueueTypes, EmptySeq DEF Inv
  <2> QED
    BY <1>1, <2>1 DEF MessageAdded
<1>6. Beginning' /\ Finished' /\ Listening'
  BY <1>2, <1>3 DEF Inv, Beginning, Finished, Listening
<1>7. Opening'
  <2> SUFFICES ASSUME tester = "await_first", current = 0
               PROVE  Opening'
    BY <1>2 DEF Opening
  <2>1. Idle /\ Reqs = <<StartRequest>> /\ Msgs = << >>
    BY <1>3 DEF Inv, Opening
  <2>2. SessionStarted(Reqs[1], message) /\ Reqs[1] = StartRequest
    BY <1>4, <2>1 DEF Answered, SessionStarted, TestStarted, RequestRefused,
           TestStopped, StartRequest
  <2> QED
    BY <1>1, <1>2, <1>4, <1>5, <2>1, <2>2 DEF Opening, SessionStarted,
       StartRequest, IsFirstResponse, Idle, runnerVars
<1>8. Starting'
  <2> SUFFICES ASSUME tester = "await_first", current # 0
               PROVE  Starting'
    BY <1>2 DEF Starting
  <2>1. Idle /\ Reqs = <<RunRequest>> /\ Msgs = << >>
    BY <1>3 DEF Inv, Starting
  <2>2. TestStarted(Reqs[1], message) /\ Reqs[1] = RunRequest
    BY <1>4, <2>1 DEF Answered, SessionStarted, TestStarted, RequestRefused,
           TestStopped, RunRequest
  <2>3. ~Idle'
    <3>1. current \in Tests
      BY <1>1, <1>3, <2>2 DEF Inv, RequestsAgree, RunRequest
    <3>2. TestType \in ProductionTests
      <4>1. test_order \in Seq(ProductionTests)
        BY TestConstants DEF Inv, TesterOK
      <4> QED
        BY <3>1, <4>1, ElementOfSeq, LenProperties DEF Tests, TestType
    <3> QED
      BY <2>2, <3>2, ComponentFacts DEF TestStarted, RunRequest, Idle
  <2>4. Reqs' = << >> /\ Len(Msgs') = 1 /\ Msgs'[1] = message
    BY <1>1, <1>4, <1>5, <2>1
  <2>5. IsFirstResponse(Msgs[1])'
    BY <1>2, <2>2, <2>4 DEF TestStarted, RunRequest, IsFirstResponse,
       Correlated
  <2>6. RunsFrom(2)'
    BY <2>3, <2>4 DEF RunsFrom, EventsFrom
  <2> QED
    BY <2>4, <2>5, <2>6 DEF Starting
<1>9. Stopping'
  <2> SUFFICES ASSUME tester = "await_stop"
               PROVE  Stopping'
    BY <1>2 DEF Stopping
  <2>1. Reqs = <<StopRequest>> /\ (RunsFrom(1) \/ EndsFrom(1))
    BY <1>3 DEF Inv, Stopping
  <2>2. Reqs[1] = StopRequest /\ Reqs' = << >>
    BY <1>4, <2>1
  <2>3. \/ ~Idle /\ TestStopped(Reqs[1], message)
        \/ Idle /\ RequestRefused(Reqs[1], message)
    BY <2>2 DEF Answered, SessionStarted, TestStarted, RequestRefused,
       TestStopped, StopRequest
  <2>4. CASE ~Idle /\ TestStopped(Reqs[1], message)
    <3>1. Idle' /\ EventsFrom(1, Len(Msgs))
      BY <2>1, <2>4 DEF TestStopped, RunsFrom, EndsFrom
    <3>2. active_definition = TestType
      BY <2>4 DEF Inv, RunnerAgrees
    <3>3. IsStopResponse(Msgs[Len(Msgs)])'
      BY <1>2, <1>5, <2>2, <2>4, <3>2 DEF TestStopped, StopRequest,
         IsStopResponse, Correlated
    <3>4. EventsFrom(1, Len(Msgs) - 1)'
      BY <1>1, <1>2, <1>5, <3>1 DEF EventsFrom, IsEvent, Correlated
    <3>5. TransmitDepth > 1 /\ TestType \in failures => Len(Msgs) > 0
      BY <1>1, <1>3, <1>5, <2>4 DEF Inv, FailureAnnounced, InTest
    <3>6. (TransmitDepth > 1 /\ TestType \in failures => Len(Msgs) > 1)'
      BY <1>1, <1>2, <1>5, <3>5
    <3>7. Len(Msgs') > 0
      BY <1>1, <1>5
    <3> QED
      BY <2>2, <3>1, <3>3, <3>4, <3>6, <3>7 DEF Stopping, StopsAtEnd
  <2>5. CASE Idle /\ RequestRefused(Reqs[1], message)
    <3>1. Idle' /\ message.type # "TEST_STOPPED"
      BY <2>5 DEF RequestRefused, Idle, runnerVars
    <3>2. /\ EventsFrom(1, Len(Msgs) - 1)
          /\ IsCompletion(Msgs[Len(Msgs)])
      BY <2>1, <2>5 DEF RunsFrom, EndsFrom
    <3>3. \A i \in 1 .. Len(Msgs) : Msgs[i].type # "TEST_STOPPED"
      <4> SUFFICES ASSUME NEW i \in 1 .. Len(Msgs)
                   PROVE  Msgs[i].type # "TEST_STOPPED"
        OBVIOUS
      <4>1. CASE i = Len(Msgs)
        BY <3>2, <4>1 DEF IsCompletion
      <4>2. CASE i # Len(Msgs)
        <5>1. i \in 1 .. Len(Msgs) - 1
          BY <1>1, <4>2, UpTo
        <5> QED
          BY <3>2, <5>1 DEF EventsFrom, IsEvent
      <4> QED
        BY <4>1, <4>2
    <3>4. \A i \in DOMAIN Msgs' : Msgs'[i].type # "TEST_STOPPED"
      <4> SUFFICES ASSUME NEW i \in 1 .. Len(Msgs) + 1
                   PROVE  Msgs'[i].type # "TEST_STOPPED"
        BY <1>1, <1>5
      <4>1. CASE i = Len(Msgs) + 1
        BY <1>5, <3>1, <4>1
      <4>2. CASE i # Len(Msgs) + 1
        <5>1. i \in 1 .. Len(Msgs)
          BY <1>1, <4>2
        <5> QED
          BY <1>5, <3>3, <5>1
      <4> QED
        BY <4>1, <4>2
    <3> QED
      BY <2>2, <3>1, <3>4 DEF Stopping, IsStopResponse
  <2> QED
    BY <2>3, <2>4, <2>5
<1>10. Cancelling'
  <2>0. \A i \in DOMAIN Reqs' :
          i + 1 \in DOMAIN Reqs /\ i + 1 # 1 /\ Reqs'[i] = Reqs[i + 1]
    BY <1>1, <1>3
  <2>1. NothingStarts => NothingStarts'
    <3> SUFFICES ASSUME NothingStarts
                 PROVE  NothingStarts'
      OBVIOUS
    <3>1. Idle /\ Reqs[1].type # "RUN_COMPONENT_TEST"
      BY <1>1, <1>3 DEF NothingStarts
    <3>2. Idle'
      BY <3>1 DEF Answered, SessionStarted, TestStarted, RequestRefused,
         TestStopped, Idle, runnerVars
    <3> QED
      BY <2>0, <3>2 DEF NothingStarts
  <2>2. TestStopped(Reqs[1], message) => NothingStarts'
    BY <2>0 DEF Inv, RequestsAgree, TestStopped, NothingStarts
  <2>3. message.type = "TEST_STOPPED" => TestStopped(Reqs[1], message)
    BY DEF Answered, SessionStarted, TestStarted, RequestRefused
  <2>4. ASSUME NEW i \in DOMAIN Msgs', IsStopResponse(Msgs[i])'
        PROVE  \/ message.type = "TEST_STOPPED"
               \/ \E j \in DOMAIN Msgs : IsStopResponse(Msgs[j])
    <3>1. i \in 1 .. Len(Msgs) + 1
      BY <1>1, <1>5, <2>4
    <3>2. CASE i = Len(Msgs) + 1
      BY <1>5, <2>4, <3>2 DEF IsStopResponse
    <3>3. CASE i # Len(Msgs) + 1
      <4>1. i \in 1 .. Len(Msgs)
        BY <1>1, <3>1, <3>3
      <4> QED
        BY <1>1, <1>2, <1>5, <2>4, <4>1 DEF IsStopResponse, Correlated
    <3> QED
      BY <3>2, <3>3
  <2> QED
    BY <1>2, <2>1, <2>2, <2>3, <2>4 DEF Inv, Cancelling
<1> QED
  BY <1>6, <1>7, <1>8, <1>9, <1>10

LEMMA AnswerRequestOK ==
  ASSUME Inv, AnswerRequest, UNCHANGED testerVars, UNCHANGED test_order
  PROVE  Inv'
<1>1. TestStays /\ UNCHANGED <<inbox, answer>>
  BY DEF Inv, TesterOK, TestStays, testerVars
<1>2. QueuesOK' /\ RequestTaken
  BY <1>1, RequestAnswered
<1>3. PICK message \in FirmwareMessage :
        Answered(Reqs[1], message) /\ MessageAdded(message)
  BY <1>1, RequestAnswered
<1>4. Exchange'
  BY <1>1, <1>2, <1>3, AnswerKeepsExchange
<1>5. /\ UNCHANGED <<current, tester, answer, failures, results, test_order>>
      /\ UNCHANGED <<TestType, CommandId, Tests>>
  BY <1>1 DEF TestStays, TestType, CommandId, Tests
<1>6. /\ Len(Reqs) \in Nat /\ Len(Reqs) > 0
      /\ DOMAIN Reqs = 1 .. Len(Reqs) /\ DOMAIN Reqs' = 1 .. Len(Reqs')
      /\ Len(Reqs') = Len(Reqs) - 1
      /\ \A i \in 1 .. Len(Reqs') : Reqs'[i] = Reqs[i + 1]
      /\ Reqs # << >> /\ 1 \in DOMAIN Reqs
      /\ Reqs[1] \in TesterRequest
  <2>1. /\ Len(Reqs) \in Nat /\ DOMAIN Reqs = 1 .. Len(Reqs)
        /\ Reqs \in Seq(TesterRequest)
        /\ DOMAIN Reqs' = 1 .. Len(Reqs')
    BY <1>2, QueueTypes, QueueTypesNext DEF Inv
  <2>2. Len(Reqs) > 0 /\ 1 \in 1 .. Len(Reqs)
    BY <1>2, <2>1 DEF RequestTaken
  <2>3. Reqs[1] \in TesterRequest /\ Reqs # << >>
    BY <2>1, <2>2, ElementOfSeq
  <2> QED
    BY <1>2, <2>1, <2>2, <2>3 DEF RequestTaken
<1>7. RequestsAgree'
  BY <1>5, <1>6 DEF Inv, RequestsAgree
<1>8. TesterOK' /\ FailuresKnown' /\ ResultsTrue'
  BY <1>5 DEF Inv, TesterOK, FailuresKnown, ResultsTrue
<1>9. Reqs[1].type = "RUN_COMPONENT_TEST" =>
        /\ current \in Tests /\ Reqs[1] = RunRequest
        /\ TestType \in ProductionTests
  <2>1. test_order \in Seq(ProductionTests)
    BY TestConstants DEF Inv, TesterOK
  <2>2. current \in Tests => TestType \in ProductionTests
    BY <2>1, ElementOfSeq, LenProperties DEF Tests, TestType
  <2> QED
    BY <1>6, <2>2 DEF Inv, RequestsAgree
<1>10. RunnerAgrees'
  <2>1. CASE UNCHANGED runnerVars
    BY <1>5, <2>1 DEF Inv, RunnerAgrees, runnerVars, Idle
  <2>2. CASE TestStarted(Reqs[1], message)
    BY <1>5, <1>9, <2>2 DEF TestStarted, RunnerAgrees, ComponentsFollow,
       RunRequest, Idle
  <2>3. CASE TestStopped(Reqs[1], message)
    BY <2>3 DEF TestStopped, RunnerAgrees, ComponentsFollow, Idle
  <2> QED
    BY <1>3, <2>1, <2>2, <2>3 DEF Answered, SessionStarted, RequestRefused
<1>11. FailureAnnounced'
  <2> SUFFICES ASSUME tester \in InTest, ~Idle', TestType \in failures
               PROVE  FALSE
    BY <1>5 DEF FailureAnnounced
  <2>1. CASE SessionStarted(Reqs[1], message)
    <3>1. current = 0
      BY <1>6, <2>1 DEF Inv, RequestsAgree, SessionStarted
    <3>2. current \in Tests
      BY <2>1 DEF SessionStarted, Inv, RunnerAgrees, runnerVars, Idle
    <3>3. test_order \in Seq(ProductionTests)
      BY TestConstants DEF Inv, TesterOK
    <3> QED
      BY <3>1, <3>2, <3>3, LenProperties DEF Tests
  <2>2. ASSUME Reqs[1].type = "RUN_COMPONENT_TEST"
        PROVE  Idle /\ TestType \notin failures
    <3>1. \A r : Reqs = <<r>> => Reqs[1] = r
      OBVIOUS
    <3> QED
      BY <1>6, <2>2, <3>1 DEF Inv, Exchange, Opening, Starting, Listening,
         Stopping, InTest, StartRequest, StopRequest
  <2>3. CASE TestStarted(Reqs[1], message)
    BY <2>2, <2>3 DEF TestStarted
  <2>4. CASE RequestRefused(Reqs[1], message)
    BY <1>6, <2>2, <2>4 DEF RequestRefused, TesterRequest, Idle, runnerVars
  <2>5. CASE TestStopped(Reqs[1], message)
    BY <2>5 DEF TestStopped
  <2> QED
    BY <1>3, <2>1, <2>3, <2>4, <2>5 DEF Answered
<1> QED
  BY <1>2, <1>4, <1>7, <1>8, <1>10, <1>11 DEF Inv
-----------------------------------------------------------------------------
(***************************************************************************)
(* A call of the active component: nothing new, an event, or the verdict.  *)
(***************************************************************************)
Active == component[active_definition]

NothingNew ==
  /\ Active # "failed"
  /\ Msgs' = Msgs
  /\ UNCHANGED <<active_definition, active_command_id, failures>>

EventReported(message) ==
  /\ Active # "failed"
  /\ IsEvent(message)
  /\ MessageAdded(message)
  /\ transmission' = "idle" \/ Len(transmit_lines') > 1
  /\ UNCHANGED <<active_definition, active_command_id>>
  /\ \/ UNCHANGED failures
     \/ /\ failures' = failures \cup {active_definition}
        /\ component'[active_definition] = "failed"

VerdictReported(message) ==
  /\ Idle'
  /\ IsCompletion(message)
  /\ MessageAdded(message)
  /\ \/ Active # "failed" /\ UNCHANGED failures
     \/ /\ message.detail = "failed"
        /\ failures' = failures \cup {active_definition}

LEMMA ComponentReports ==
  ASSUME Inv, ComponentStep
  PROVE  /\ ~Idle /\ QueuesOK' /\ Reqs' = Reqs /\ ComponentsFollow
         /\ \/ NothingNew
            \/ \E message \in FirmwareMessage :
                 EventReported(message) \/ VerdictReported(message)
<1>1. /\ ~Idle /\ CanQueueLine /\ QueuesOK
      /\ UNCHANGED <<wire, received_lines, transmission, inbox>>
      /\ current \in Tests /\ active_definition = TestType
      /\ active_command_id = CommandId
      /\ active_definition \in ProductionTests
      /\ DOMAIN component = ProductionTests
      /\ \A t \in ProductionTests : component[t] # Off <=> t = active_definition
  BY DEF Inv, RunnerAgrees, ComponentStep, ProcessComponent, Idle,
         MayProcessComponent
<1>2. PICK step \in Steps[active_definition] :
        step.from = Active /\ ReportStep(step)
  BY DEF ComponentStep, ProcessComponent, Active
<1>3. /\ step.to # Off /\ step.result \in Detail
      /\ step.from = "failed" => step.result = "failed"
      /\ step.result = "component_failure" => step.to = "failed"
  BY <1>1, ComponentFacts DEF StepOK
<1>4. Reqs' = Reqs
  BY <1>1 DEF Reqs
<1>5. CommandId \in Nat
  BY TestConstants DEF Inv, TesterOK, CommandId
<1>6. ASSUME NEW message \in FirmwareMessage, QueueResponse(message)
      PROVE  /\ QueuesOK' /\ MessageAdded(message)
             /\ transmission' = "idle" \/ Len(transmit_lines') > 1
             /\ failures' = IF message.detail \in {"failed", "component_failure"}
                            THEN failures \cup {active_definition}
                            ELSE failures
  <2>1. /\ transmit_lines' \in Seq(FirmwareMessage)
        /\ transmit_lines' # << >> /\ transmit_lines' # transmit_lines
        /\ Last(transmit_lines') = message
        /\ Len(transmit_lines) \in Nat
        /\ Len(transmit_lines') = Len(transmit_lines) + 1
        /\ Msgs' = Append(Msgs, message)
    BY <1>1, <1>6, MessageQueued
  <2>2. MessageAdded(message)
    BY <1>1, <2>1, QueueTypes, AppendProperties DEF MessageAdded
  <2>3. QueuesOK'
    BY <1>1, <2>1 DEF QueuesOK
  <2>4. transmission' = "idle" \/ Len(transmit_lines') > 1
    <3>1. transmission # "idle" => Len(transmit_lines) > 0
      BY <1>1, EmptySeq DEF QueuesOK
    <3> QED
      BY <1>1, <2>1, <3>1
  <2> QED
    BY <2>1, <2>2, <2>3, <2>4 DEF ComponentStep
<1>7. ASSUME component' = [component EXCEPT ![active_definition] = step.to],
             UNCHANGED active_definition
      PROVE  ComponentsFollow /\ component'[active_definition] = step.to
  BY <1>1, <1>3, <1>7 DEF ComponentsFollow
<1>8. CASE /\ step.result = "running"
           /\ component' = [component EXCEPT ![active_definition] = step.to]
           /\ UNCHANGED <<active_definition, active_command_id,
                          transmit_lines>>
  <2>1. Msgs' = Msgs /\ QueuesOK'
    BY <1>1, <1>8 DEF Msgs, Undelivered, QueuesOK
  <2>2. NothingNew
    BY <1>2, <1>3, <1>8, <2>1 DEF NothingNew, ComponentStep
  <2> QED
    BY <1>1, <1>4, <1>7, <1>8, <2>1, <2>2
<1>9. CASE /\ step.result \in Terminal
           /\ RunnerRelease
           /\ QueueResponse(Message("TEST_COMPLETED", active_command_id,
                                    active_definition, step.result))
  <2> DEFINE m == Message("TEST_COMPLETED", active_command_id,
                          active_definition, step.result)
  <2>1. m \in FirmwareMessage
    BY <1>1, <1>3, <1>5 DEF Message, FirmwareMessage, MessageType
  <2>2. /\ QueuesOK' /\ MessageAdded(m)
        /\ failures' = IF m.detail \in {"failed", "component_failure"}
                       THEN failures \cup {active_definition}
                       ELSE failures
    BY <1>6, <1>9, <2>1
  <2>3. Idle' /\ ComponentsFollow
    BY <1>9, ReleasedIsOff DEF Inv
  <2>4. IsCompletion(m) /\ m.detail = step.result
    BY <1>1 DEF IsCompletion, Correlated, Message
  <2> HIDE DEF m
  <2>5. VerdictReported(m)
    BY <1>2, <1>3, <1>9, <2>2, <2>3, <2>4 DEF VerdictReported, Terminal
  <2> QED
    BY <1>1, <1>4, <2>1, <2>2, <2>3, <2>5
<1>10. CASE /\ step.result \notin Terminal \cup {"running"}
            /\ component' = [component EXCEPT ![active_definition] = step.to]
            /\ QueueResponse(Message("TEST_EVENT", active_command_id,
                                     active_definition, step.result))
            /\ UNCHANGED <<active_definition, active_command_id>>
  <2> DEFINE m == Message("TEST_EVENT", active_command_id,
                          active_definition, step.result)
  <2>1. m \in FirmwareMessage
    BY <1>1, <1>3, <1>5 DEF Message, FirmwareMessage, MessageType
  <2>2. /\ QueuesOK' /\ MessageAdded(m)
        /\ transmission' = "idle" \/ Len(transmit_lines') > 1
        /\ failures' = IF m.detail \in {"failed", "component_failure"}
                       THEN failures \cup {active_definition}
                       ELSE failures
    BY <1>6, <1>10, <2>1
  <2>3. ComponentsFollow /\ component'[active_definition] = step.to
    BY <1>7, <1>10
  <2>4. IsEvent(m) /\ m.detail = step.result
    BY <1>1 DEF IsEvent, Correlated, Message
  <2> HIDE DEF m
  <2>5. EventReported(m)
    BY <1>2, <1>3, <1>10, <2>2, <2>3, <2>4 DEF EventReported, Terminal
  <2> QED
    BY <1>1, <1>4, <2>1, <2>2, <2>3, <2>5
<1> QED
  BY <1>2, <1>8, <1>9, <1>10 DEF ReportStep

\* What the tester will read from message k on, after the call.
LEMMA ReportExtends ==
  ASSUME Inv, QueuesOK', ~Idle, NEW k \in {1, 2}, Len(Msgs) >= k - 1,
         RunsFrom(k), tester \in InTest,
         UNCHANGED <<tester, current, test_order>>,
         \/ NothingNew
         \/ \E message \in FirmwareMessage :
              EventReported(message) \/ VerdictReported(message)
  PROVE  (RunsFrom(k) \/ EndsFrom(k))'
<1>1. /\ Len(Msgs) \in Nat /\ Len(Msgs') \in Nat
      /\ UNCHANGED <<TestType, CommandId, StopId, Tests>>
      /\ active_definition = TestType
      /\ TestType \in failures => Active = "failed"
  BY QueueTypes, QueueTypesNext
     DEF Inv, RunnerAgrees, TestType, CommandId, StopId, Tests,
         FailureAnnounced, Active
<1>2. CASE NothingNew
  BY <1>1, <1>2 DEF NothingNew, RunsFrom, EventsFrom, IsEvent, Correlated, Idle
<1>3. ASSUME NEW message \in FirmwareMessage, MessageAdded(message)
      PROVE  /\ Len(Msgs') = Len(Msgs) + 1 /\ Len(Msgs') >= k
             /\ Msgs'[Len(Msgs')] = message
             /\ EventsFrom(k, Len(Msgs) - 1)'
             /\ IsEvent(message) => EventsFrom(k, Len(Msgs))'
  <2>1. /\ Len(Msgs') = Len(Msgs) + 1
        /\ \A i \in 1 .. Len(Msgs) : Msgs'[i] = Msgs[i]
        /\ Msgs'[Len(Msgs) + 1] = message
    BY <1>3 DEF MessageAdded
  <2>2. \A i \in k .. Len(Msgs) : i \in 1 .. Len(Msgs) /\ IsEvent(Msgs[i])
    BY <1>1 DEF RunsFrom, EventsFrom
  <2>3. \A i \in k .. Len(Msgs) : IsEvent(Msgs[i])'
    BY <1>1, <2>1, <2>2 DEF IsEvent, Correlated
  <2>4. EventsFrom(k, Len(Msgs) - 1)'
    BY <1>1, <2>1, <2>3 DEF EventsFrom
  <2>5. ASSUME IsEvent(message)
        PROVE  EventsFrom(k, Len(Msgs))'
    <3> SUFFICES ASSUME NEW i \in k .. Len(Msgs) + 1
                 PROVE  IsEvent(Msgs[i])'
      BY <2>1 DEF EventsFrom
    <3>1. CASE i = Len(Msgs) + 1
      BY <1>1, <2>1, <2>5, <3>1 DEF IsEvent, Correlated
    <3>2. CASE i # Len(Msgs) + 1
      <4>1. i \in k .. Len(Msgs)
        BY <1>1, <3>2
      <4> QED
        BY <2>3, <4>1
    <3> QED
      BY <3>1, <3>2
  <2> QED
    BY <1>1, <2>1, <2>4, <2>5
<1>4. ASSUME NEW message \in FirmwareMessage, EventReported(message)
      PROVE  RunsFrom(k)'
  BY <1>3, <1>4 DEF EventReported, RunsFrom, Idle
<1>5. ASSUME NEW message \in FirmwareMessage, VerdictReported(message)
      PROVE  EndsFrom(k)'
  <2>1. /\ Idle' /\ IsCompletion(message) /\ MessageAdded(message)
        /\ TestType' \in failures' => message.detail = "failed"
    BY <1>1, <1>5 DEF VerdictReported
  <2>2. IsCompletion(Msgs[Len(Msgs)])'
    BY <1>1, <1>3, <2>1 DEF IsCompletion, Correlated
  <2> QED
    BY <1>3, <2>1, <2>2 DEF EndsFrom
<1> QED
  BY <1>2, <1>4, <1>5

LEMMA ComponentStepOK ==
  ASSUME Inv, ComponentStep, UNCHANGED test_order
  PROVE  Inv'
<1>1. /\ ~Idle /\ QueuesOK' /\ Reqs' = Reqs /\ ComponentsFollow
      /\ \/ NothingNew
         \/ \E message \in FirmwareMessage :
              EventReported(message) \/ VerdictReported(message)
  BY ComponentReports
<1>2. /\ UNCHANGED <<current, tester, answer, results, test_order,
                     received_lines>>
      /\ UNCHANGED <<TestType, CommandId, StopId, Tests>>
      /\ current \in Tests /\ active_definition = TestType
      /\ active_command_id = CommandId
      /\ test_order \in Seq(ProductionTests)
      /\ IsInjective(test_order)
      /\ Len(test_order) \in Nat
  BY <1>1, LenProperties, TestConstants
     DEF Inv, TesterOK, RunnerAgrees, ComponentStep, ProcessComponent, TestType,
         CommandId, StopId, Tests
<1>3. TesterOK'
  BY <1>2 DEF Inv, TesterOK
<1>4. RunnerAgrees'
  BY <1>1, <1>2 DEF Inv, RunnerAgrees, NothingNew, EventReported,
     VerdictReported, ComponentsFollow, Idle
<1>5. RequestsAgree'
  BY <1>1, <1>2 DEF Inv, RequestsAgree, RunRequest
<1>6. failures' \in {failures, failures \cup {TestType}}
  BY <1>1, <1>2 DEF NothingNew, EventReported, VerdictReported
<1>7. FailuresKnown'
  <2>1. current <= current /\ TestType = test_order[current]
    BY <1>2 DEF Tests, TestType
  <2> QED
    BY <1>2, <1>6, <2>1 DEF Inv, FailuresKnown
<1>8. ResultsTrue'
  <2> SUFFICES ASSUME NEW i \in DOMAIN results, results[i].status = "passed"
               PROVE  \E k \in Tests :
                        /\ k < current
                        /\ results[i].test = test_order[k]
                        /\ TransmitDepth > 1 => results[i].test \notin failures'
    BY <1>2 DEF ResultsTrue
  <2>1. PICK k \in Tests :
          /\ k < current
          /\ results[i].test = test_order[k]
          /\ TransmitDepth > 1 => results[i].test \notin failures
    BY DEF Inv, ResultsTrue
  <2>2. k # current
    BY <1>2, <2>1, LenProperties DEF Tests
  <2>3. results[i].test # TestType
    BY <1>2, <2>1, <2>2 DEF IsInjective, TestType, Tests
  <2> QED
    BY <1>6, <2>1, <2>3
<1>9. FailureAnnounced'
  <2> SUFFICES ASSUME tester \in InTest, ~Idle', TestType \in failures'
               PROVE  FailureAnnounced'
    BY <1>2 DEF FailureAnnounced
  <2>1. TestType \in failures => Active = "failed"
    BY <1>1, <1>2 DEF Inv, FailureAnnounced, Active
  <2>2. PICK message \in FirmwareMessage : EventReported(message)
    BY <1>1, <2>1 DEF NothingNew, VerdictReported
  <2>3. component'[TestType] = "failed"
    BY <1>2, <2>1, <2>2 DEF EventReported
  <2>4. Len(Msgs') # 0 /\ Msgs' # << >> /\ transmit_lines' # << >>
    <3>1. Len(Msgs') = Len(Msgs) + 1 /\ Len(Msgs) \in Nat
      BY <2>2, QueueTypes DEF EventReported, MessageAdded, Inv
    <3> QED
      BY <1>1, <2>2, <3>1, QueueTypesNext DEF EventReported, MessageAdded
  <2> QED
    BY <1>2, <2>2, <2>3, <2>4 DEF FailureAnnounced, EventReported
<1>10. Exchange'
  <2> USE DEF Exchange
  <2>1. Beginning' /\ Opening' /\ Finished'
    BY <1>1, <1>2, LenProperties DEF Inv, Beginning, Opening, Finished, Tests
  <2>2. Starting'
    <3> SUFFICES ASSUME tester = "await_first", current # 0
                 PROVE  Starting'
      BY <1>2 DEF Starting
    <3>1. /\ Reqs = << >> /\ Len(Msgs) > 0
          /\ IsFirstResponse(Msgs[1]) /\ RunsFrom(2)
      BY <1>1 DEF Inv, Starting, EndsFrom
    <3>2. (RunsFrom(2) \/ EndsFrom(2))'
      <4>1. Len(Msgs) >= 2 - 1
        BY <3>1, QueueTypes DEF Inv
      <4> QED
        BY <1>1, <1>2, <3>1, <4>1, ReportExtends DEF InTest
    <3>3. Len(Msgs') > 0 /\ Msgs'[1] = Msgs[1]
      <4>1. 1 \in 1 .. Len(Msgs) /\ Len(Msgs) \in Nat
        BY <3>1, QueueTypes DEF Inv
      <4> QED
        BY <1>1, <3>1, <4>1 DEF NothingNew, EventReported, VerdictReported,
           MessageAdded
    <3> QED
      BY <1>1, <1>2, <3>1, <3>2, <3>3 DEF Starting, IsFirstResponse, Correlated
  <2>3. RunsFrom(1) /\ tester \in InTest => (RunsFrom(1) \/ EndsFrom(1))'
    <3>1. Len(Msgs) >= 1 - 1
      BY QueueTypes DEF Inv
    <3> QED
      BY <1>1, <1>2, <3>1, ReportExtends
  <2>4. Listening'
    BY <1>1, <1>2, <2>3 DEF Inv, Listening, InTest, EndsFrom
  <2>5. Stopping'
    BY <1>1, <1>2, <2>3 DEF Inv, Stopping, InTest, EndsFrom, StopsAtEnd,
       StopRequest
  <2>6. Cancelling'
    <3>1. NothingStarts => FALSE
      BY <1>1 DEF NothingStarts
    <3>2. ASSUME NEW i \in DOMAIN Msgs', IsStopResponse(Msgs[i])'
          PROVE  \E j \in DOMAIN Msgs : IsStopResponse(Msgs[j])
      <4>0. DOMAIN Msgs = 1 .. Len(Msgs) /\ DOMAIN Msgs' = 1 .. Len(Msgs')
            /\ Len(Msgs) \in Nat
        BY <1>1, QueueTypes, QueueTypesNext DEF Inv
      <4>1. CASE NothingNew
        BY <1>2, <3>2, <4>1 DEF NothingNew, IsStopResponse, Correlated
      <4>2. ASSUME NEW message \in FirmwareMessage,
                   EventReported(message) \/ VerdictReported(message)
            PROVE  i \in 1 .. Len(Msgs) /\ Msgs'[i] = Msgs[i]
        <5>1. MessageAdded(message) /\ message.type # "TEST_STOPPED"
          BY <4>2 DEF EventReported, VerdictReported, IsEvent, IsCompletion
        <5>2. i # Len(Msgs) + 1
          BY <3>2, <5>1 DEF MessageAdded, IsStopResponse
        <5>3. i \in 1 .. Len(Msgs)
          BY <3>2, <4>0, <5>1, <5>2 DEF MessageAdded
        <5> QED
          BY <5>1, <5>3 DEF MessageAdded
      <4> QED
        BY <1>1, <1>2, <3>2, <4>0, <4>1, <4>2 DEF IsStopResponse, Correlated
    <3> QED
      BY <1>2, <3>1, <3>2 DEF Inv, Cancelling
  <2> QED
    BY <2>1, <2>2, <2>4, <2>5, <2>6
<1> QED
  BY <1>1, <1>3, <1>4, <1>5, <1>7, <1>8, <1>9, <1>10 DEF Inv
-----------------------------------------------------------------------------
(***************************************************************************)
(* The tester reads the next message, or writes a request.                 *)
(***************************************************************************)
FirmwareStays ==
  /\ UNCHANGED <<transmit_lines, transmission, phase>>
  /\ UNCHANGED runnerVars
  /\ UNCHANGED <<failures, test_order>>

FirstRead ==
  /\ Len(Msgs) > 0
  /\ Len(Msgs') = Len(Msgs) - 1
  /\ \A i \in 1 .. Len(Msgs) - 1 : Msgs'[i] = Msgs[i + 1]

LEMMA MessageTaken ==
  ASSUME Inv, inbox # << >>, inbox' = Tail(inbox),
         UNCHANGED <<wire, received_lines, transmit_lines, transmission>>
  PROVE  /\ QueuesOK' /\ Reqs' = Reqs /\ FirstRead
         /\ Head(inbox) = Msgs[1] /\ Msgs[1] \in FirmwareMessage
BY MessageRead DEF Inv, QueuesOK, Reqs, FirstRead

LEMMA ReadShifts ==
  ASSUME Inv, QueuesOK', FirstRead, UNCHANGED runnerVars,
         UNCHANGED <<current, failures, test_order>>
  PROVE  RunsFrom(2) \/ EndsFrom(2) => (RunsFrom(1) \/ EndsFrom(1))'
<1>1. /\ Len(Msgs) \in Nat /\ Len(Msgs') \in Nat
      /\ Len(Msgs') = Len(Msgs) - 1
      /\ \A i \in 1 .. Len(Msgs') : Msgs'[i] = Msgs[i + 1]
      /\ UNCHANGED <<TestType, CommandId, Idle, failures>>
  BY QueueTypes, QueueTypesNext
     DEF Inv, FirstRead, TestType, CommandId, Idle, runnerVars
<1>2. ASSUME NEW last \in Nat, last <= Len(Msgs'), EventsFrom(2, last + 1)
      PROVE  \A i \in 1 .. last : IsEvent(Msgs[i])'
  <2> SUFFICES ASSUME NEW i \in 1 .. last
               PROVE  IsEvent(Msgs[i])'
    OBVIOUS
  <2>1. i \in 1 .. Len(Msgs') /\ i + 1 \in 2 .. last + 1
    BY <1>1, <1>2
  <2>2. IsEvent(Msgs[i + 1]) /\ Msgs'[i] = Msgs[i + 1]
    BY <1>1, <1>2, <2>1 DEF EventsFrom
  <2> QED
    BY <1>1, <2>2 DEF IsEvent, Correlated
<1>3. ASSUME RunsFrom(2)
      PROVE  RunsFrom(1)'
  <2>1. EventsFrom(2, Len(Msgs') + 1)
    <3>1. Len(Msgs') + 1 = Len(Msgs)
      BY <1>1
    <3> QED
      BY <1>3, <3>1 DEF RunsFrom
  <2> DEFINE n == Len(Msgs')
  <2>2. \A i \in 1 .. n : IsEvent(Msgs[i])'
    <3>1. n \in Nat /\ n <= n
      BY <1>1
    <3>2. EventsFrom(2, n + 1)
      BY <2>1
    <3> HIDE DEF n
    <3> QED
      BY <1>2, <3>1, <3>2 DEF n
  <2> QED
    BY <1>1, <1>3, <2>2 DEF RunsFrom, EventsFrom
<1>4. ASSUME EndsFrom(2)
      PROVE  EndsFrom(1)'
  <2>1. /\ Idle /\ 2 <= Len(Msgs)
        /\ EventsFrom(2, Len(Msgs) - 1)
        /\ IsCompletion(Msgs[Len(Msgs)])
        /\ TestType \in failures => Msgs[Len(Msgs)].detail = "failed"
    BY <1>4 DEF EndsFrom
  <2> DEFINE n == Len(Msgs')
  <2>2. /\ n \in Nat /\ n >= 1 /\ n - 1 \in Nat /\ n - 1 <= n
        /\ (n - 1) + 1 = Len(Msgs) - 1
        /\ n + 1 = Len(Msgs) /\ n \in 1 .. n
    BY <1>1, <2>1
  <2>3. Msgs'[n] = Msgs[Len(Msgs)]
    BY <1>1, <2>2
  <2>4. \A i \in 1 .. n - 1 : IsEvent(Msgs[i])'
    BY <1>2, <2>1, <2>2
  <2>5. IsCompletion(Msgs[Len(Msgs)])'
    BY <1>1, <2>1, <2>3 DEF IsCompletion, Correlated
  <2> QED
    BY <1>1, <2>1, <2>2, <2>3, <2>4, <2>5 DEF EndsFrom, EventsFrom
<1> QED
  BY <1>3, <1>4

\* The next message of a test under way.
LEMMA FirstOfTest ==
  ASSUME Inv, Len(Msgs) > 0, RunsFrom(1) \/ EndsFrom(1)
  PROVE  /\ Msgs[1].type # "TEST_STOPPED"
         /\ IsEvent(Msgs[1]) => RunsFrom(2) \/ EndsFrom(2)
         /\ ~IsEvent(Msgs[1]) =>
              /\ Idle /\ Len(Msgs) = 1
              /\ TestType \in failures => Msgs[1].detail = "failed"
<1>1. Len(Msgs) \in Nat /\ 1 \in 1 .. Len(Msgs)
  BY QueueTypes DEF Inv
<1>2. CASE RunsFrom(1)
  <2>1. IsEvent(Msgs[1])
    BY <1>1, <1>2 DEF RunsFrom, EventsFrom
  <2>2. RunsFrom(2)
    BY <1>1, <1>2 DEF RunsFrom, EventsFrom
  <2> QED
    BY <2>1, <2>2 DEF IsEvent
<1>3. CASE EndsFrom(1)
  <2>1. CASE Len(Msgs) = 1
    BY <1>3, <2>1 DEF EndsFrom, IsCompletion, IsEvent
  <2>2. CASE Len(Msgs) > 1
    <3>1. 1 \in 1 .. Len(Msgs) - 1 /\ 2 <= Len(Msgs)
      BY <1>1, <2>2
    <3>2. IsEvent(Msgs[1])
      BY <1>3, <3>1 DEF EndsFrom, EventsFrom
    <3>3. EndsFrom(2)
      BY <1>1, <1>3, <3>1 DEF EndsFrom, EventsFrom
    <3> QED
      BY <3>2, <3>3 DEF IsEvent
  <2> QED
    BY <1>1, <2>1, <2>2, OneOrMore
<1> QED
  BY <1>2, <1>3

LEMMA TesterTypes ==
  ASSUME Inv
  PROVE  /\ test_order \in Seq(ProductionTests)
         /\ Len(test_order) \in Nat /\ Tests = 1 .. Len(test_order)
         /\ IsInjective(test_order)
         /\ current \in Nat /\ CommandId \in Nat /\ StopId \in Nat
         /\ current \in Tests => TestType \in ProductionTests
         /\ current <= Len(test_order) /\ current # 0 => current \in Tests
<1>1. /\ test_order \in Seq(ProductionTests)
      /\ IsInjective(test_order)
      /\ current \in 0 .. Len(test_order) + 1
  BY TestConstants DEF Inv, TesterOK
<1>2. Len(test_order) \in Nat /\ Tests = 1 .. Len(test_order)
  BY <1>1, LenProperties DEF Tests
<1>3. current \in Tests => TestType \in ProductionTests
  BY <1>1, <1>2, ElementOfSeq DEF TestType
<1> QED
  BY <1>1, <1>2, <1>3 DEF CommandId, StopId

LEMMA RequestAdded ==
  ASSUME Inv, NEW type, NEW id, NEW test,
         [type |-> type, command_id |-> id, test_type |-> test]
           \in TesterRequest,
         inbox' \in Seq(FirmwareMessage),
         Write(type, id, test)
  PROVE  /\ QueuesOK'
         /\ Reqs' = Append(Reqs, [type |-> type, command_id |-> id,
                                  test_type |-> test])
         /\ UNCHANGED received_lines
BY RequestWritten DEF Inv, QueuesOK, Write
-----------------------------------------------------------------------------
(***************************************************************************)
(* The ways on for the tester: a test ends and the next one begins, the    *)
(* run ends with an error or after Ctrl-C, the test goes on.               *)
(***************************************************************************)
LEMMA ResultAdded ==
  ASSUME Inv, current \in Tests,
         NEW status \in Detail \cup {"passed", "failed", "stopped"},
         NEW reason \in {"verdict", "operator", "protocol_error", "timeout",
                        "acknowledged", "unacknowledged"},
         results' = Append(results, Result(status, reason))
  PROVE  /\ results' \in Seq(TestResult) /\ results' # << >>
         /\ DOMAIN results = 1 .. Len(results) /\ Len(results) \in Nat
         /\ DOMAIN results' = 1 .. Len(results) + 1
         /\ \A i \in 1 .. Len(results) : results'[i] = results[i]
         /\ results'[Len(results) + 1] = Result(status, reason)
         /\ Last(results').reason = reason
<1>1. /\ results \in Seq(TestResult) /\ Len(results) \in Nat
      /\ DOMAIN results = 1 .. Len(results)
      /\ answer \in {"none", "yes", "no"}
      /\ TestType \in ProductionTests
  BY TesterTypes, LenProperties DEF Inv, TesterOK
<1> DEFINE result == Result(status, reason)
<1>2. result \in TestResult /\ result.reason = reason
  BY <1>1 DEF Result, TestResult
<1> HIDE DEF result
<1>3. /\ Append(results, result) \in Seq(TestResult)
      /\ Append(results, result) # << >>
      /\ Len(Append(results, result)) = Len(results) + 1
      /\ \A i \in 1 .. Len(results) : Append(results, result)[i] = results[i]
      /\ Append(results, result)[Len(results) + 1] = result
  BY <1>1, <1>2, AppendProperties
<1>4. results' = Append(results, result)
  BY DEF result
<1>5. /\ results' \in Seq(TestResult) /\ results' # << >>
      /\ Len(results') = Len(results) + 1
      /\ \A i \in 1 .. Len(results) : results'[i] = results[i]
      /\ results'[Len(results) + 1] = result
  BY <1>3, <1>4
<1>6. Last(results').reason = reason /\ DOMAIN results' = 1 .. Len(results')
  BY <1>2, <1>5, LenProperties DEF Last
<1> QED
  BY <1>1, <1>5, <1>6 DEF result

LEMMA NextTestOK ==
  ASSUME Inv, QueuesOK', Reqs' = << >>, Msgs' = << >>, Idle,
         UNCHANGED runnerVars, UNCHANGED <<failures, test_order>>,
         current <= Len(test_order), NextTest,
         \/ results' = results
         \/ \E status \in Detail, reason \in {"verdict", "operator"} :
              /\ current \in Tests
              /\ results' = Append(results, Result(status, reason))
              /\ status = "passed" /\ TransmitDepth > 1
                   => TestType \notin failures
  PROVE  Inv'
<1>1. /\ test_order \in Seq(ProductionTests)
      /\ Len(test_order) \in Nat /\ Tests = 1 .. Len(test_order)
      /\ IsInjective(test_order)
      /\ current \in Nat
      /\ current \in Tests => TestType \in ProductionTests
  BY TesterTypes
<1>2. /\ current' = current + 1 /\ answer' = "none"
      /\ tester' = IF current = Len(test_order) THEN "finished" ELSE "begin"
      /\ Idle' /\ Tests' = Tests
  BY DEF NextTest, Idle, runnerVars, Tests
<1>3. results' \in Seq(TestResult)
  BY ResultAdded DEF Inv, TesterOK
<1>4. TesterOK'
  BY <1>1, <1>2, <1>3 DEF Inv, TesterOK
<1>5. RunnerAgrees'
  BY <1>2 DEF Inv, RunnerAgrees, runnerVars
<1>6. RequestsAgree'
  <2>1. DOMAIN Reqs' = {}
    OBVIOUS
  <2> QED
    BY <2>1 DEF RequestsAgree
<1>7. FailuresKnown'
  <2> SUFFICES ASSUME NEW type \in failures
               PROVE  \E k \in Tests : k <= current + 1 /\ type = test_order[k]
    BY <1>2 DEF FailuresKnown
  <2>1. PICK k \in Tests : k <= current /\ type = test_order[k]
    BY DEF Inv, FailuresKnown
  <2> QED
    BY <1>1, <2>1
<1>8. ResultsTrue'
  <2> DEFINE True(result) ==
               \E k \in Tests :
                 /\ k < current + 1
                 /\ result.test = test_order[k]
                 /\ TransmitDepth > 1 => result.test \notin failures
  <2>1. ASSUME NEW i \in DOMAIN results, results[i].status = "passed"
        PROVE  True(results[i])
    <3>1. PICK k \in Tests :
            /\ k < current
            /\ results[i].test = test_order[k]
            /\ TransmitDepth > 1 => results[i].test \notin failures
      BY <2>1 DEF Inv, ResultsTrue
    <3>2. k < current + 1
      BY <1>1, <3>1
    <3> QED
      BY <3>1, <3>2
  <2>2. CASE results' = results
    BY <1>2, <2>1, <2>2 DEF ResultsTrue
  <2>3. ASSUME NEW status \in Detail, NEW reason \in {"verdict", "operator"},
               current \in Tests,
               results' = Append(results, Result(status, reason)),
               status = "passed" /\ TransmitDepth > 1 => TestType \notin failures
        PROVE  ResultsTrue'
    <3> DEFINE result == Result(status, reason)
    <3>1. /\ Len(results) \in Nat /\ DOMAIN results = 1 .. Len(results)
          /\ DOMAIN results' = 1 .. Len(results) + 1
          /\ \A i \in 1 .. Len(results) : results'[i] = results[i]
          /\ results'[Len(results) + 1] = result
      BY <2>3, ResultAdded
    <3>2. result.test = TestType /\ result.status = status
      BY DEF Result
    <3> HIDE DEF result
    <3>3. result.status = "passed" => True(result)
      <4>1. current < current + 1 /\ TestType = test_order[current]
        BY <1>1 DEF TestType
      <4> QED
        BY <2>3, <3>2, <4>1
    <3> HIDE DEF True
    <3>4. ASSUME NEW i \in DOMAIN results', results'[i].status = "passed"
          PROVE  True(results'[i])
      <4>1. CASE i = Len(results) + 1
        BY <3>1, <3>3, <3>4, <4>1
      <4>2. CASE i # Len(results) + 1
        <5>1. i \in 1 .. Len(results)
          BY <3>1, <3>4, <4>2
        <5> QED
          BY <2>1, <3>1, <3>4, <5>1
      <4> QED
        BY <4>1, <4>2
    <3> QED
      BY <1>2, <3>4 DEF ResultsTrue, True
  <2> QED
    BY <2>2, <2>3
<1>9. Exchange' /\ FailureAnnounced'
  <2>1. ASSUME current + 1 \in Tests
        PROVE  test_order[current + 1] \notin failures
    <3> SUFFICES ASSUME test_order[current + 1] \in failures
                 PROVE  FALSE
      OBVIOUS
    <3>1. PICK k \in Tests :
            k <= current /\ test_order[current + 1] = test_order[k]
      BY DEF Inv, FailuresKnown
    <3>2. k # current + 1
      BY <1>1, <3>1
    <3> QED
      BY <1>1, <2>1, <3>1, <3>2 DEF IsInjective, Tests
  <2> QED
    BY <1>2, <2>1 DEF Exchange, Beginning, Opening, Starting, Listening,
       Stopping, Cancelling, Finished, FailureAnnounced, InTest, TestType
<1> QED
  BY <1>4, <1>5, <1>6, <1>7, <1>8, <1>9 DEF Inv

\* The run ends: nothing is left to agree on but the runner and the results.
LEMMA RunEndsOK ==
  ASSUME Inv, QueuesOK', Reqs' = Reqs,
         UNCHANGED runnerVars, UNCHANGED <<failures, test_order>>,
         UNCHANGED <<current, answer>>,
         \/ tester' = "aborted" /\ results' = results
         \/ /\ current \in Tests
            /\ \E status \in {"failed", "stopped"},
                  reason \in {"protocol_error", "timeout", "acknowledged",
                              "unacknowledged"} :
                 /\ results' = Append(results, Result(status, reason))
                 /\ \/ tester' = "aborted"
                    \/ /\ tester' = "cancelled"
                       /\ reason = "acknowledged" => NothingStarts
  PROVE  Inv'
<1>1. /\ results \in Seq(TestResult) /\ Len(results) \in Nat
      /\ DOMAIN results = 1 .. Len(results)
      /\ answer \in {"none", "yes", "no"}
      /\ current \in Tests => TestType \in ProductionTests
  BY TesterTypes, LenProperties DEF Inv, TesterOK
<1>2. UNCHANGED <<TestType, CommandId, Tests, Idle>>
  BY DEF TestType, CommandId, Tests, Idle, runnerVars
<1>3. ASSUME NEW status \in {"failed", "stopped"},
             NEW reason \in {"protocol_error", "timeout", "acknowledged",
                             "unacknowledged"},
             current \in Tests,
             results' = Append(results, Result(status, reason))
      PROVE  /\ results' \in Seq(TestResult) /\ results' # << >>
             /\ DOMAIN results' = 1 .. Len(results) + 1
             /\ \A i \in 1 .. Len(results) : results'[i] = results[i]
             /\ results'[Len(results) + 1].status # "passed"
             /\ Last(results').reason = reason
  <2>1. /\ results' \in Seq(TestResult) /\ results' # << >>
        /\ DOMAIN results' = 1 .. Len(results) + 1
        /\ \A i \in 1 .. Len(results) : results'[i] = results[i]
        /\ results'[Len(results) + 1] = Result(status, reason)
        /\ Last(results').reason = reason
    BY <1>3, ResultAdded
  <2>2. Result(status, reason).status # "passed"
    BY DEF Result
  <2> QED
    BY <2>1, <2>2
<1>4. /\ results' \in Seq(TestResult)
      /\ tester' \in {"aborted", "cancelled"}
      /\ tester' = "cancelled" => current \in Tests
  BY <1>1, <1>3
<1>5. TesterOK'
  BY <1>2, <1>4 DEF Inv, TesterOK
<1>6. RunnerAgrees' /\ RequestsAgree' /\ FailuresKnown'
  BY <1>2 DEF Inv, RunnerAgrees, RequestsAgree, RunRequest, FailuresKnown,
     runnerVars
<1>7. ResultsTrue'
  <2> SUFFICES ASSUME NEW i \in DOMAIN results', results'[i].status = "passed"
               PROVE  i \in DOMAIN results /\ results'[i] = results[i]
    BY <1>2 DEF Inv, ResultsTrue
  <2>1. CASE results' = results
    BY <2>1
  <2>2. CASE results' # results
    <3>1. /\ DOMAIN results' = 1 .. Len(results) + 1
          /\ \A j \in 1 .. Len(results) : results'[j] = results[j]
          /\ results'[Len(results) + 1].status # "passed"
      BY <1>3, <2>2
    <3>2. i \in 1 .. Len(results)
      BY <1>1, <3>1
    <3> QED
      BY <1>1, <3>1, <3>2
  <2> QED
    BY <2>1, <2>2
<1>8. NothingStarts => NothingStarts'
  BY <1>2 DEF NothingStarts
<1>9. tester' = "cancelled" =>
        /\ results' # << >>
        /\ Last(results').reason = "acknowledged" => NothingStarts
  BY <1>3
<1>10. Exchange' /\ FailureAnnounced'
  BY <1>4, <1>8, <1>9 DEF Exchange, Beginning, Opening, Starting, Listening,
     Stopping, Cancelling, Finished, FailureAnnounced, InTest
<1> QED
  BY <1>5, <1>6, <1>7, <1>10 DEF Inv

LEMMA TestGoesOnOK ==
  ASSUME Inv, QueuesOK', (RunsFrom(1) \/ EndsFrom(1))',
         tester \in InTest, current \in Tests, Reqs = << >>,
         \/ tester' \in {"listening", "prompting"} /\ Reqs' = << >>
         \/ tester' = "await_stop" /\ Reqs' = <<StopRequest>>,
         FirmwareStays, UNCHANGED received_lines,
         UNCHANGED <<current, answer, results>>
  PROVE  Inv'
<1>1. UNCHANGED <<TestType, CommandId, StopId, Tests, Idle>>
  BY DEF FirmwareStays, TestType, CommandId, StopId, Tests, Idle, runnerVars
<1>2. TesterOK' /\ RunnerAgrees' /\ FailuresKnown' /\ ResultsTrue'
  BY <1>1 DEF Inv, TesterOK, RunnerAgrees, FailuresKnown, ResultsTrue,
     FirmwareStays, runnerVars
<1>3. RequestsAgree'
  <2>1. \A i \in DOMAIN Reqs' : Reqs'[i].type = "STOP_COMPONENT_TEST"
    BY DEF StopRequest
  <2> QED
    BY <2>1 DEF RequestsAgree
<1>4. received_lines = << >>
  BY ConcatEqualIffEmpty DEF Inv, QueuesOK, Reqs
<1>5. FailureAnnounced'
  BY <1>1, <1>4 DEF Inv, FailureAnnounced, FirmwareStays, runnerVars
<1>6. Exchange'
  BY <1>1 DEF Exchange, Beginning, Opening, Starting, Listening, Stopping,
     Cancelling, Finished, StopRequest
<1> QED
  BY <1>2, <1>3, <1>5, <1>6 DEF Inv
-----------------------------------------------------------------------------
(***************************************************************************)
(* The steps of the tester.                                                *)
(***************************************************************************)
LEMMA BeginOK ==
  ASSUME Inv, Begin, UNCHANGED test_order
  PROVE  Inv'
<1>1. /\ current \in Nat /\ CommandId \in Nat
      /\ current # 0 => current \in Tests /\ TestType \in ProductionTests
      /\ current = 0 => current \notin Tests
  BY TesterTypes DEF Inv, TesterOK, Begin
<1>2. /\ Idle /\ Msgs = << >> /\ Reqs = << >>
      /\ current \in Tests => TestType \notin failures
  BY DEF Inv, Exchange, Beginning, Begin
<1>3. /\ tester' = "await_first"
      /\ UNCHANGED <<current, answer, failures, results, inbox, test_order>>
      /\ UNCHANGED <<transmit_lines, transmission>>
      /\ UNCHANGED runnerVars
  BY DEF Begin, Write
<1>4. UNCHANGED <<TestType, CommandId, StopId, Tests, Idle, Msgs>>
  BY <1>3 DEF TestType, CommandId, StopId, Tests, Idle, Msgs, Undelivered,
     runnerVars
<1>5. /\ QueuesOK'
      /\ \/ current = 0 /\ Reqs' = <<StartRequest>>
         \/ current # 0 /\ Reqs' = <<RunRequest>>
  <2>1. inbox' \in Seq(FirmwareMessage)
    BY <1>3 DEF Inv, QueuesOK
  <2>2. CASE current = 0
    <3>1. StartRequest \in TesterRequest
      BY <1>1 DEF StartRequest, TesterRequest
    <3>2. Write("START_TEST", CommandId, NoTest)
      BY <2>2 DEF Begin
    <3>3. QueuesOK' /\ Reqs' = Append(Reqs, StartRequest)
      BY <2>1, <3>1, <3>2, RequestAdded DEF StartRequest
    <3> QED
      BY <1>2, <2>2, <3>3
  <2>3. CASE current # 0
    <3>1. RunRequest \in TesterRequest
      BY <1>1, <2>3 DEF RunRequest, TesterRequest
    <3>2. Write("RUN_COMPONENT_TEST", CommandId, TestType)
      BY <2>3 DEF Begin
    <3>3. QueuesOK' /\ Reqs' = Append(Reqs, RunRequest)
      BY <2>1, <3>1, <3>2, RequestAdded DEF RunRequest
    <3> QED
      BY <1>2, <2>3, <3>3
  <2> QED
    BY <2>2, <2>3
<1>6. TesterOK' /\ RunnerAgrees' /\ FailuresKnown' /\ ResultsTrue'
  BY <1>3, <1>4 DEF Inv, TesterOK, RunnerAgrees, FailuresKnown, ResultsTrue,
     Begin, runnerVars
<1>7. RequestsAgree'
  <2>1. DOMAIN Reqs' = {1}
    BY <1>5
  <2>2. /\ current = 0 => Reqs'[1] = StartRequest
        /\ current # 0 => Reqs'[1] = RunRequest
    BY <1>5
  <2> QED
    BY <1>1, <1>3, <1>4, <2>1, <2>2
       DEF RequestsAgree, StartRequest, RunRequest
<1>8. Exchange' /\ FailureAnnounced'
  BY <1>1, <1>2, <1>3, <1>4, <1>5 DEF Exchange, Beginning, Opening, Starting,
     Listening, Stopping, Cancelling, Finished, FailureAnnounced,
     StartRequest, RunRequest
<1> QED
  BY <1>5, <1>6, <1>7, <1>8 DEF Inv

LEMMA VarsStay ==
  ASSUME UNCHANGED vars, UNCHANGED <<failures, test_order>>
  PROVE  /\ FirmwareStays /\ UNCHANGED runnerVars
         /\ UNCHANGED <<wire, received_lines, transmit_lines, transmission>>
BY DEF vars, transportVars, FirmwareStays

LEMMA ErrorOK ==
  ASSUME Inv, QueuesOK', Reqs' = Reqs, UNCHANGED vars,
         UNCHANGED <<failures, test_order>>, current <= Len(test_order),
         NEW reason \in {"protocol_error", "timeout"}, Abort(reason)
  PROVE  Inv'
<1>1. UNCHANGED runnerVars
  BY VarsStay
<1>2. current = 0 \/ current \in Tests
  BY TesterTypes
<1>3. CASE current = 0
  BY <1>1, <1>3, RunEndsOK DEF Abort
<1>4. CASE current # 0
  BY <1>1, <1>2, <1>4, RunEndsOK DEF Abort
<1> QED
  BY <1>3, <1>4

LEMMA ReadFirstOK ==
  ASSUME Inv, ReadFirst, UNCHANGED test_order
  PROVE  Inv'
<1>1. /\ UNCHANGED vars /\ UNCHANGED <<failures, test_order>>
      /\ tester = "await_first"
      /\ inbox # << >> /\ inbox' = Tail(inbox)
  BY DEF ReadFirst
<1>2. /\ FirmwareStays /\ UNCHANGED runnerVars
      /\ UNCHANGED <<wire, received_lines, transmit_lines, transmission>>
  BY <1>1, VarsStay
<1>3. /\ QueuesOK' /\ Reqs' = Reqs /\ FirstRead
      /\ Head(inbox) = Msgs[1] /\ Len(Msgs) > 0 /\ Msgs # << >>
      /\ Len(Msgs) \in Nat
      /\ Len(Msgs') = Len(Msgs) - 1
      /\ Len(Msgs') = 0 => Msgs' = << >>
  <2>1. /\ QueuesOK' /\ Reqs' = Reqs /\ FirstRead
        /\ Head(inbox) = Msgs[1]
    BY <1>1, <1>2, MessageTaken
  <2> QED
    BY <2>1, QueueTypes, QueueTypesNext DEF Inv, FirstRead
<1>4. /\ current <= Len(test_order)
      /\ current # 0 => current \in Tests
  BY <1>1, TesterTypes DEF Inv, TesterOK
<1>5. CASE Abort("protocol_error")
  BY <1>1, <1>3, <1>4, <1>5, ErrorOK
<1>6. CASE current = 0 /\ NextTest /\ UNCHANGED results
  <2>1. Idle /\ Reqs = << >> /\ Len(Msgs) = 1
    BY <1>1, <1>3, <1>6 DEF Inv, Exchange, Opening
  <2>2. Msgs' = << >> /\ Reqs' = << >>
    BY <1>3, <2>1
  <2> QED
    BY <1>1, <1>2, <1>3, <1>4, <1>6, <2>1, <2>2, NextTestOK
<1>7. CASE /\ current # 0
           /\ tester' \in {"prompting", "listening"}
           /\ UNCHANGED <<current, answer, results>>
  <2>1. Reqs = << >> /\ (RunsFrom(2) \/ EndsFrom(2))
    BY <1>1, <1>3, <1>7 DEF Inv, Exchange, Starting
  <2>2. (RunsFrom(1) \/ EndsFrom(1))'
    BY <1>1, <1>2, <1>3, <1>7, <2>1, ReadShifts
  <2> QED
    BY <1>1, <1>2, <1>3, <1>4, <1>7, <2>1, <2>2, TestGoesOnOK DEF InTest
<1> QED
  BY <1>5, <1>6, <1>7 DEF ReadFirst

LEMMA ReadCompletionOK ==
  ASSUME Inv, ReadCompletion, UNCHANGED test_order
  PROVE  Inv'
<1>1. /\ UNCHANGED vars /\ UNCHANGED <<failures, test_order>>
      /\ tester = "listening" /\ ~IsEvent(Head(inbox))
      /\ inbox # << >> /\ inbox' = Tail(inbox)
  BY DEF ReadCompletion, ReadMessage
<1>2. /\ FirmwareStays /\ UNCHANGED runnerVars
      /\ UNCHANGED <<wire, received_lines, transmit_lines, transmission>>
  BY <1>1, VarsStay
<1>3. /\ QueuesOK' /\ Reqs' = Reqs /\ FirstRead
      /\ Head(inbox) = Msgs[1] /\ Len(Msgs) > 0
      /\ Msgs[1] \in FirmwareMessage
      /\ Len(Msgs') = Len(Msgs) - 1
      /\ Len(Msgs') = 0 => Msgs' = << >>
  <2>1. /\ QueuesOK' /\ Reqs' = Reqs /\ FirstRead
        /\ Head(inbox) = Msgs[1] /\ Msgs[1] \in FirmwareMessage
    BY <1>1, <1>2, MessageTaken
  <2> QED
    BY <2>1, QueueTypesNext DEF FirstRead
<1>4. current \in Tests /\ current <= Len(test_order)
  BY <1>1, TesterTypes DEF Inv, TesterOK
<1>5. Reqs = << >> /\ (RunsFrom(1) \/ EndsFrom(1))
  BY <1>1 DEF Inv, Exchange, Listening
<1>6. CASE Abort("protocol_error")
  BY <1>1, <1>3, <1>4, <1>6, ErrorOK
<1>7. CASE IsCompletion(Head(inbox)) /\ Complete(Head(inbox).detail, "verdict")
  <2>1. /\ Idle /\ Len(Msgs) = 1
        /\ TestType \in failures => Msgs[1].detail = "failed"
    BY <1>1, <1>3, <1>5, FirstOfTest
  <2>2. Msgs' = << >> /\ Reqs' = << >>
    BY <1>3, <1>5, <2>1
  <2>3. Msgs[1].detail \in Detail
    BY <1>3 DEF FirmwareMessage
  <2> QED
    BY <1>1, <1>2, <1>3, <1>4, <1>7, <2>1, <2>2, <2>3, NextTestOK DEF Complete
<1> QED
  BY <1>6, <1>7 DEF ReadCompletion

LEMMA ReadPlainOK ==
  ASSUME Inv, ReadColourActive \/ ReadPlainEvent, UNCHANGED test_order
  PROVE  Inv'
<1>1. /\ UNCHANGED vars /\ UNCHANGED <<failures, test_order>>
      /\ tester = "listening" /\ IsEvent(Head(inbox))
      /\ tester' \in {"listening", "prompting"}
      /\ inbox # << >> /\ inbox' = Tail(inbox)
      /\ UNCHANGED <<current, answer, results>>
  BY DEF ReadColourActive, ReadPlainEvent, ReadMessage
<1>2. /\ FirmwareStays /\ UNCHANGED runnerVars
      /\ UNCHANGED <<wire, received_lines, transmit_lines, transmission>>
  BY <1>1, VarsStay
<1>3. /\ QueuesOK' /\ Reqs' = Reqs /\ FirstRead
      /\ Head(inbox) = Msgs[1] /\ Len(Msgs) > 0
  BY <1>1, <1>2, MessageTaken DEF FirstRead
<1>4. current \in Tests
  BY <1>1 DEF Inv, TesterOK
<1>5. Reqs = << >> /\ (RunsFrom(2) \/ EndsFrom(2))
  BY <1>1, <1>3, FirstOfTest DEF Inv, Exchange, Listening
<1>6. (RunsFrom(1) \/ EndsFrom(1))'
  BY <1>1, <1>2, <1>3, <1>5, ReadShifts
<1> QED
  BY <1>1, <1>2, <1>3, <1>4, <1>5, <1>6, TestGoesOnOK DEF InTest

LEMMA StopWritten ==
  ASSUME Inv, WriteStop, UNCHANGED <<failures, test_order>>,
         inbox' \in Seq(FirmwareMessage)
  PROVE  /\ QueuesOK' /\ Reqs' = Append(Reqs, StopRequest)
         /\ FirmwareStays /\ UNCHANGED received_lines
<1>1. StopRequest \in TesterRequest
  BY TesterTypes DEF StopRequest, TesterRequest
<1>2. Write("STOP_COMPONENT_TEST", StopId, NoTest)
  BY DEF WriteStop
<1>3. /\ QueuesOK' /\ Reqs' = Append(Reqs, StopRequest)
      /\ UNCHANGED received_lines
  BY <1>1, <1>2, RequestAdded DEF StopRequest
<1> QED
  BY <1>2, <1>3 DEF Write, FirmwareStays

LEMMA ReadLiveEventOK ==
  ASSUME Inv, ReadLiveEvent, UNCHANGED test_order
  PROVE  Inv'
<1>1. /\ UNCHANGED <<failures, test_order, current, answer, results>>
      /\ tester = "listening" /\ IsEvent(Head(inbox))
      /\ inbox # << >> /\ inbox' = Tail(inbox)
      /\ \/ UNCHANGED <<vars, tester>>
         \/ WriteStop /\ tester' = "await_stop"
  BY DEF ReadLiveEvent, ReadMessage
<1>2. current \in Tests
  BY <1>1 DEF Inv, TesterOK
<1>3. /\ inbox' \in Seq(FirmwareMessage) /\ FirstRead
      /\ Head(inbox) = Msgs[1] /\ Len(Msgs) > 0
      /\ UNCHANGED runnerVars
  <2>1. /\ UNCHANGED <<transmit_lines, transmission>>
        /\ UNCHANGED runnerVars
    BY <1>1 DEF vars, transportVars, WriteStop, Write
  <2> QED
    BY <1>1, <2>1, MessageRead DEF Inv, FirstRead
<1>4. Reqs = << >> /\ (RunsFrom(2) \/ EndsFrom(2))
  BY <1>1, <1>3, FirstOfTest DEF Inv, Exchange, Listening
<1>5. CASE UNCHANGED <<vars, tester>>
  <2>1. /\ FirmwareStays
        /\ UNCHANGED <<wire, received_lines, transmit_lines, transmission>>
    BY <1>1, <1>5, VarsStay
  <2>2. QueuesOK' /\ Reqs' = Reqs
    BY <1>1, <2>1, MessageTaken
  <2>3. (RunsFrom(1) \/ EndsFrom(1))'
    BY <1>1, <1>3, <1>4, <2>2, ReadShifts
  <2> QED
    BY <1>1, <1>2, <1>4, <1>5, <2>1, <2>2, <2>3, TestGoesOnOK DEF InTest
<1>6. CASE WriteStop /\ tester' = "await_stop"
  <2>1. /\ QueuesOK' /\ Reqs' = Append(Reqs, StopRequest)
        /\ FirmwareStays /\ UNCHANGED received_lines
    BY <1>1, <1>3, <1>6, StopWritten
  <2>2. Reqs' = <<StopRequest>>
    BY <1>4, <2>1
  <2>3. (RunsFrom(1) \/ EndsFrom(1))'
    BY <1>1, <1>3, <1>4, <2>1, ReadShifts
  <2> QED
    BY <1>1, <1>2, <1>4, <1>6, <2>1, <2>2, <2>3, TestGoesOnOK DEF InTest
<1> QED
  BY <1>1, <1>5, <1>6

LEMMA ConfirmOK ==
  ASSUME Inv, Confirm, UNCHANGED test_order
  PROVE  Inv'
<1>1. /\ UNCHANGED <<failures, test_order, current, answer, results, inbox>>
      /\ tester = "prompting" /\ tester' = "await_stop" /\ WriteStop
  BY DEF Confirm
<1>2. inbox' \in Seq(FirmwareMessage)
  BY <1>1 DEF Inv, QueuesOK
<1>3. /\ QueuesOK' /\ Reqs' = Append(Reqs, StopRequest)
      /\ FirmwareStays /\ UNCHANGED received_lines
  BY <1>1, <1>2, StopWritten
<1>4. current \in Tests /\ Reqs = << >> /\ (RunsFrom(1) \/ EndsFrom(1))
  BY <1>1 DEF Inv, TesterOK, Exchange, Listening
<1>5. Reqs' = <<StopRequest>>
  BY <1>3, <1>4
<1>6. (RunsFrom(1) \/ EndsFrom(1))'
  <2>1. UNCHANGED <<Msgs, Idle, TestType, CommandId>>
    BY <1>1, <1>3 DEF FirmwareStays, Msgs, Undelivered, Idle, TestType,
       CommandId, runnerVars
  <2> QED
    BY <1>1, <1>4, <2>1 DEF RunsFrom, EndsFrom, EventsFrom, IsEvent,
       IsCompletion, Correlated
<1> QED
  BY <1>1, <1>3, <1>4, <1>5, <1>6, TestGoesOnOK DEF InTest

LEMMA ReadStopResponseOK ==
  ASSUME Inv, ReadStopResponse, UNCHANGED test_order
  PROVE  Inv'
<1>1. /\ UNCHANGED vars /\ UNCHANGED <<failures, test_order>>
      /\ tester = "await_stop"
      /\ inbox # << >> /\ inbox' = Tail(inbox)
  BY DEF ReadStopResponse
<1>2. /\ FirmwareStays /\ UNCHANGED runnerVars
      /\ UNCHANGED <<wire, received_lines, transmit_lines, transmission>>
  BY <1>1, VarsStay
<1>3. /\ QueuesOK' /\ Reqs' = Reqs /\ FirstRead
      /\ Head(inbox) = Msgs[1] /\ Len(Msgs) > 0
      /\ 1 \in DOMAIN Msgs /\ Len(Msgs) \in Nat
      /\ Len(Msgs') = Len(Msgs) - 1
      /\ Len(Msgs') = 0 => Msgs' = << >>
  <2>1. /\ QueuesOK' /\ Reqs' = Reqs /\ FirstRead
        /\ Head(inbox) = Msgs[1]
    BY <1>1, <1>2, MessageTaken
  <2> QED
    BY <2>1, QueueTypes, QueueTypesNext DEF Inv, FirstRead
<1>4. current \in Tests /\ current <= Len(test_order)
  BY <1>1, TesterTypes DEF Inv, TesterOK
<1>5. CASE Abort("protocol_error")
  BY <1>1, <1>3, <1>4, <1>5, ErrorOK
<1>6. CASE /\ IsStopResponse(Head(inbox))
           /\ Complete(IF answer = "yes" THEN "passed" ELSE "failed",
                       "operator")
  <2>1. Reqs = << >> /\ StopsAtEnd
    <3>1. Msgs[1].type = "TEST_STOPPED"
      BY <1>3, <1>6 DEF IsStopResponse
    <3>2. ~(RunsFrom(1) \/ EndsFrom(1))
      BY <1>3, <3>1, FirstOfTest
    <3> QED
      BY <1>1, <1>3, <1>6, <3>2 DEF Inv, Exchange, Stopping
  <2>2. Len(Msgs) = 1
    <3> SUFFICES ASSUME Len(Msgs) > 1
                 PROVE  FALSE
      BY <1>3, OneOrMore
    <3>1. 1 \in 1 .. Len(Msgs) - 1
      BY <1>3
    <3>2. IsEvent(Msgs[1])
      BY <2>1, <3>1 DEF StopsAtEnd, EventsFrom
    <3> QED
      BY <1>3, <1>6, <3>2 DEF IsEvent, IsStopResponse
  <2>3. Idle /\ (TransmitDepth > 1 => TestType \notin failures)
    BY <2>1, <2>2 DEF StopsAtEnd
  <2>4. Msgs' = << >> /\ Reqs' = << >>
    BY <1>3, <2>1, <2>2
  <2>5. "passed" \in Detail /\ "failed" \in Detail
    BY VerdictsAreDetails
  <2> QED
    BY <1>1, <1>2, <1>3, <1>4, <1>6, <2>3, <2>4, <2>5, NextTestOK DEF Complete
<1> QED
  BY <1>5, <1>6 DEF ReadStopResponse

LEMMA CancelOK ==
  ASSUME Inv, Cancel, UNCHANGED test_order
  PROVE  Inv'
<1>1. /\ UNCHANGED <<failures, test_order, current, answer, results, inbox>>
      /\ tester \in {"begin", "await_first", "listening", "prompting",
                     "await_stop"}
      /\ tester' = "cancelling" /\ WriteStop /\ current \in Tests
  BY DEF Cancel
<1>2. inbox' \in Seq(FirmwareMessage)
  BY <1>1 DEF Inv, QueuesOK
<1>3. /\ QueuesOK' /\ Reqs' = Append(Reqs, StopRequest)
      /\ FirmwareStays
  BY <1>1, <1>2, StopWritten
<1>4. UNCHANGED <<Msgs, Idle, TestType, CommandId, StopId, Tests>>
  BY <1>1, <1>3 DEF FirmwareStays, Msgs, Undelivered, Idle, TestType,
     CommandId, StopId, Tests, runnerVars
<1>5. /\ DOMAIN Reqs = 1 .. Len(Reqs) /\ Len(Reqs) \in Nat
      /\ DOMAIN Reqs' = 1 .. Len(Reqs) + 1
      /\ \A i \in 1 .. Len(Reqs) : Reqs'[i] = Reqs[i]
      /\ Reqs'[Len(Reqs) + 1] = StopRequest
  <2>1. StopRequest \in TesterRequest
    BY TesterTypes DEF StopRequest, TesterRequest
  <2>2. Reqs \in Seq(TesterRequest)
    BY QueueTypes DEF Inv
  <2>3. /\ Append(Reqs, StopRequest) \in Seq(TesterRequest)
        /\ Len(Append(Reqs, StopRequest)) = Len(Reqs) + 1
        /\ \A i \in 1 .. Len(Reqs) : Append(Reqs, StopRequest)[i] = Reqs[i]
        /\ Append(Reqs, StopRequest)[Len(Reqs) + 1] = StopRequest
    BY <2>1, <2>2, AppendProperties
  <2> QED
    BY <1>3, <2>2, <2>3, LenProperties
<1>6. ASSUME NEW i \in DOMAIN Reqs'
      PROVE  \/ i \in DOMAIN Reqs /\ Reqs'[i] = Reqs[i]
             \/ Reqs'[i].type = "STOP_COMPONENT_TEST"
  <2>1. CASE i = Len(Reqs) + 1
    BY <1>5, <2>1 DEF StopRequest
  <2>2. CASE i # Len(Reqs) + 1
    BY <1>5, <1>6, <2>2
  <2> QED
    BY <2>1, <2>2
<1>7. TesterOK' /\ RunnerAgrees' /\ FailuresKnown' /\ ResultsTrue'
  BY <1>1, <1>3, <1>4 DEF Inv, TesterOK, RunnerAgrees, FailuresKnown,
     ResultsTrue, FirmwareStays, runnerVars
<1>8. RequestsAgree'
  BY <1>1, <1>4, <1>6 DEF Inv, RequestsAgree, RunRequest
<1>9. NothingStarts => NothingStarts'
  BY <1>4, <1>6 DEF NothingStarts
<1>10. ASSUME NEW j \in DOMAIN Msgs, IsStopResponse(Msgs[j])
       PROVE  NothingStarts
  <2>1. /\ j \in 1 .. Len(Msgs) /\ Len(Msgs) \in Nat /\ Len(Msgs) > 0
        /\ Msgs # << >>
    BY <1>10, QueueTypes DEF Inv
  <2>2. ASSUME NEW k \in {1, 2}, RunsFrom(k) \/ EndsFrom(k)
        PROVE  ~(j >= k)
    <3> SUFFICES ASSUME j >= k
                 PROVE  FALSE
      OBVIOUS
    <3>1. j = Len(Msgs) \/ j \in k .. Len(Msgs) - 1
      BY <2>1
    <3>2. Msgs[j].type # "TEST_STOPPED"
      BY <2>1, <2>2, <3>1 DEF RunsFrom, EndsFrom, EventsFrom, IsEvent,
         IsCompletion
    <3> QED
      BY <1>10, <3>2 DEF IsStopResponse
  <2>3. ~(RunsFrom(1) \/ EndsFrom(1))
    BY <2>1, <2>2
  <2>4. ~(IsFirstResponse(Msgs[1]) /\ (RunsFrom(2) \/ EndsFrom(2)))
         \/ current = 0
    <3>1. j = 1 \/ j >= 2
      BY <2>1
    <3> QED
      BY <1>10, <2>2, <3>1 DEF IsFirstResponse, IsStopResponse
  <2>5. current # 0
    BY <1>1, TesterTypes
  <2>6. Reqs = << >> /\ StopsAtEnd
    BY <1>1, <1>10, <2>1, <2>3, <2>4, <2>5 DEF Inv, Exchange, Beginning,
       Starting, Listening, Stopping
  <2> QED
    BY <2>6 DEF StopsAtEnd, NothingStarts
<1>11. Exchange' /\ FailureAnnounced'
  <2>1. (\E i \in DOMAIN Msgs : IsStopResponse(Msgs[i]))' => NothingStarts'
    BY <1>1, <1>4, <1>9, <1>10 DEF IsStopResponse, Correlated
  <2> QED
    BY <1>1, <2>1 DEF Exchange, Beginning, Opening, Starting, Listening,
       Stopping, Cancelling, Finished, FailureAnnounced, InTest
<1> QED
  BY <1>3, <1>7, <1>8, <1>11 DEF Inv

LEMMA ReadCancelResponseOK ==
  ASSUME Inv, ReadCancelResponse, UNCHANGED test_order
  PROVE  Inv'
<1>1. /\ UNCHANGED vars /\ UNCHANGED <<failures, test_order>>
      /\ tester = "cancelling" /\ current \in Tests
      /\ inbox # << >> /\ inbox' = Tail(inbox)
      /\ Cancelled(IF IsStopResponse(Head(inbox)) THEN "acknowledged"
                                                  ELSE "unacknowledged")
  BY DEF ReadCancelResponse, Inv, TesterOK
<1>2. /\ UNCHANGED runnerVars
      /\ UNCHANGED <<wire, received_lines, transmit_lines, transmission>>
  BY <1>1, VarsStay
<1>3. /\ QueuesOK' /\ Reqs' = Reqs
      /\ Head(inbox) = Msgs[1] /\ Len(Msgs) > 0
  BY <1>1, <1>2, MessageTaken DEF FirstRead
<1>4. IsStopResponse(Head(inbox)) => NothingStarts
  <2>1. 1 \in DOMAIN Msgs
    BY <1>3, QueueTypes DEF Inv
  <2> QED
    BY <1>1, <1>3, <2>1 DEF Inv, Exchange, Cancelling
<1> QED
  BY <1>1, <1>2, <1>3, <1>4, RunEndsOK DEF Cancelled

LEMMA TimeoutOK ==
  ASSUME Inv, Timeout, UNCHANGED test_order
  PROVE  Inv'
<1>1. /\ UNCHANGED vars /\ UNCHANGED <<failures, test_order, inbox>>
      /\ \/ tester \in {"await_first", "await_stop"} /\ Abort("timeout")
         \/ tester = "cancelling" /\ Cancelled("unacknowledged")
  BY DEF Timeout
<1>2. /\ UNCHANGED runnerVars
      /\ UNCHANGED <<wire, received_lines, transmit_lines, transmission>>
  BY <1>1, VarsStay
<1>3. QueuesOK' /\ Reqs' = Reqs
  BY <1>1, <1>2 DEF Inv, QueuesOK, Reqs
<1>4. /\ tester \in {"await_first", "await_stop"} => current <= Len(test_order)
      /\ tester = "cancelling" => current \in Tests
  BY TesterTypes DEF Inv, TesterOK
<1>5. CASE tester \in {"await_first", "await_stop"} /\ Abort("timeout")
  BY <1>1, <1>3, <1>4, <1>5, ErrorOK
<1>6. CASE tester = "cancelling" /\ Cancelled("unacknowledged")
  BY <1>1, <1>2, <1>3, <1>4, <1>6, RunEndsOK DEF Cancelled
<1> QED
  BY <1>1, <1>5, <1>6

LEMMA OperatorAnswersOK ==
  ASSUME Inv, OperatorAnswers, UNCHANGED test_order
  PROVE  Inv'
<1>1. /\ UNCHANGED vars
      /\ UNCHANGED <<inbox, current, tester, failures, results, test_order>>
      /\ answer' \in {"none", "yes", "no"}
  BY DEF OperatorAnswers, Inv, TesterOK
<1>2. /\ FirmwareStays /\ UNCHANGED runnerVars
      /\ UNCHANGED <<wire, received_lines, transmit_lines, transmission>>
  BY <1>1, VarsStay
<1>3. UNCHANGED <<Msgs, Reqs, Idle, TestType>>
  BY <1>1, <1>2 DEF Msgs, Reqs, Undelivered, Idle, TestType, runnerVars
<1>4. Transport
  BY <1>1, <1>2, <1>3 DEF Inv, QueuesOK, Transport, TestStays
<1>5. FailureAnnounced'
  BY <1>1, <1>2, <1>3 DEF Inv, FailureAnnounced, FirmwareStays, runnerVars
<1> QED
  BY <1>4, <1>5, TransportKeeps DEF Inv
-----------------------------------------------------------------------------
(***************************************************************************)
(* The invariant holds in every state.                                     *)
(***************************************************************************)
LEMMA InitInv == TestInit => Inv
<1> SUFFICES ASSUME TestInit
             PROVE  Inv
  OBVIOUS
<1> USE DEF TestInit, Init
<1>1. QueuesOK
  BY EmptySeq DEF QueuesOK
<1>2. Msgs = << >> /\ Reqs = << >>
  BY DEF Msgs, Reqs, Undelivered
<1>3. /\ test_order \in Seq(ProductionTests)
      /\ Len(test_order) \in Nat /\ Tests = 1 .. Len(test_order)
  BY TestConstants, LenProperties DEF Tests
<1>4. TesterOK
  BY <1>3, EmptySeq DEF TesterOK
<1>5. RunnerAgrees
  BY ComponentFacts DEF RunnerAgrees, Idle
<1>6. RequestsAgree
  BY <1>2 DEF RequestsAgree
<1>7. FailuresKnown /\ ResultsTrue /\ FailureAnnounced
  BY DEF FailuresKnown, ResultsTrue, FailureAnnounced, InTest
<1>8. Exchange
  BY <1>2 DEF Exchange, Beginning, Opening, Starting, Listening, Stopping,
     Cancelling, Finished, Idle
<1> QED
  BY <1>1, <1>4, <1>5, <1>6, <1>7, <1>8 DEF Inv

LEMMA NextInv == Inv /\ [TestNext]_<<testVars, test_order>> => Inv'
<1> SUFFICES ASSUME Inv, [TestNext]_<<testVars, test_order>>
             PROVE  Inv'
  OBVIOUS
<1>1. CASE FirmwareStep /\ UNCHANGED test_order
  BY <1>1, LineReceivedOK, TransmissionServedOK, AnswerRequestOK, TurnGoesOn
     DEF FirmwareStep
<1>2. CASE ComponentStep /\ UNCHANGED test_order
  BY <1>2, ComponentStepOK
<1>3. CASE Deliver /\ UNCHANGED test_order
  BY <1>3, MessageDeliveredOK
<1>4. CASE MainThread /\ UNCHANGED test_order
  BY <1>4, BeginOK, ReadFirstOK, ReadCompletionOK, ReadPlainOK,
     ReadLiveEventOK, ConfirmOK, ReadStopResponseOK, ReadCancelResponseOK
     DEF MainThread
<1>5. CASE OperatorAnswers /\ UNCHANGED test_order
  BY <1>5, OperatorAnswersOK
<1>6. CASE Cancel /\ UNCHANGED test_order
  BY <1>6, CancelOK
<1>7. CASE Timeout /\ UNCHANGED test_order
  BY <1>7, TimeoutOK
<1>8. CASE UNCHANGED <<testVars, test_order>>
  <2>1. /\ UNCHANGED vars /\ UNCHANGED testerVars /\ UNCHANGED test_order
        /\ UNCHANGED <<inbox, current, tester, answer, failures, results>>
    BY <1>8 DEF testVars, testerVars
  <2>2. /\ FirmwareStays /\ UNCHANGED runnerVars
        /\ UNCHANGED <<wire, received_lines, transmit_lines, transmission>>
    BY <2>1, VarsStay
  <2>3. UNCHANGED <<Msgs, Reqs, Idle, TestType>>
    BY <2>1, <2>2 DEF Msgs, Reqs, Undelivered, Idle, TestType, runnerVars
  <2>4. Transport
    BY <2>1, <2>2, <2>3 DEF Inv, QueuesOK, TesterOK, Transport, TestStays
  <2>5. FailureAnnounced'
    BY <2>1, <2>2, <2>3 DEF Inv, FailureAnnounced, FirmwareStays, runnerVars
  <2> QED
    BY <2>4, <2>5, TransportKeeps DEF Inv
<1> QED
  BY <1>1, <1>2, <1>3, <1>4, <1>5, <1>6, <1>7, <1>8 DEF TestNext, Device

LEMMA Invariant == TestSpec => []Inv
BY InitInv, NextInv, PTL DEF TestSpec
-----------------------------------------------------------------------------
(***************************************************************************)
(* Each request finds the line quiet: whatever samples, failures, answers  *)
(* and deadlines did to the test before, the next one begins with an idle  *)
(* firmware and empty queues in both directions.                           *)
(***************************************************************************)
THEOREM TestsStartClean == TestSpec => []CleanStart
<1>1. Inv => CleanStart
  <2> SUFFICES ASSUME Inv, tester = "begin"
               PROVE  CleanStart
    BY DEF CleanStart
  <2>1. Idle /\ Msgs = << >> /\ Reqs = << >>
    BY DEF Inv, Exchange, Beginning
  <2>2. inbox = << >> /\ Undelivered = << >>
    BY <2>1, QueueTypes, ConcatEqualIffEmpty DEF Inv, QueuesOK, Msgs
  <2>3. wire = << >> /\ received_lines = << >>
    BY <2>1, ConcatEqualIffEmpty DEF Inv, QueuesOK, Reqs
  <2> QED
    BY <2>1, <2>2, <2>3 DEF CleanStart
<1> QED
  BY <1>1, Invariant, PTL

(***************************************************************************)
(* When the run says that it was cancelled and the stop acknowledged, every*)
(* component is off and stays off, although requests of the cancelled test *)
(* may still have been on their way when the stop was written.             *)
(***************************************************************************)
THEOREM CancelledIsOff == TestSpec => []CancelledMeansOff
<1>1. Inv => CancelledMeansOff
  <2> SUFFICES ASSUME Inv, tester = "cancelled",
                      Last(results).reason = "acknowledged",
                      NEW t \in ProductionTests
               PROVE  component[t] = Off
    BY DEF CancelledMeansOff
  <2>1. Idle
    BY DEF Inv, Exchange, Cancelling, NothingStarts
  <2>2. t # active_definition
    BY <2>1, ComponentFacts DEF Idle
  <2> QED
    BY <2>2 DEF Inv, RunnerAgrees
<1> QED
  BY <1>1, Invariant, PTL

(***************************************************************************)
(* A component whose failure the firmware reported is never recorded as    *)
(* passed, whatever the operator answers and whenever: with room for two   *)
(* messages (USB_CDC_TRANSMIT_QUEUE_DEPTH) a failure that was announced is *)
(* read before any acknowledgement.  With room for a single one the        *)
(* announcement can be delivered and the place it leaves be taken by the   *)
(* acknowledgement instead of the verdict.                                 *)
(***************************************************************************)
THEOREM FailedNeverPasses ==
  ASSUME TransmitDepth > 1
  PROVE  TestSpec => []PassedMeansHealthy
<1>1. Inv => PassedMeansHealthy
  BY DEF Inv, ResultsTrue, PassedMeansHealthy
<1> QED
  BY <1>1, Invariant, PTL
=============================================================================
