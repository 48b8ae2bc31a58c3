----------------------- MODULE UsbTransmitPath_proofs -----------------------
(***************************************************************************)
(* Theorems about the transmit path for every queue depth, every number of *)
(* lines and every number of bus resets.                                   *)
(***************************************************************************)
EXTENDS UsbTransmitPath, SequenceTheorems, TLAPS

(***************************************************************************)
(* The strengthening of StoredUntilComplete that is inductive.             *)
(*                                                                         *)
(* FlagsAgree says what the two flags, the local copy and the transfer     *)
(* tell about each other; StartingAgrees what holds inside                 *)
(* start_pending_transmission, where a bus reset may have cleared the mark *)
(* but an enumeration cannot have reopened the class.                      *)
(***************************************************************************)
FlagsAgree ==
  /\ transmit_active => transmit_lines # << >>
  /\ transmit_completed => transmit_active /\ in_flight = NoLine
  /\ completed => phase = "retire"
  /\ completed => in_flight = NoLine /\ ~transmit_completed
  /\ in_flight # NoLine => /\ transmit_active
                           /\ ClassOpen
                           /\ in_flight = Head(transmit_lines)

StartingAgrees ==
  phase \in {"mark", "set_buffer", "transmit"} =>
    /\ transmit_lines # << >>
    /\ in_flight = NoLine
    /\ ~transmit_completed
    /\ phase = "mark" => ~transmit_active
    /\ phase # "mark" /\ ClassOpen => transmit_active
    /\ phase = "transmit" /\ ClassOpen => tx_buffer = Head(transmit_lines)

Inv == TypeOK /\ FlagsAgree /\ StartingAgrees

(***************************************************************************)
(* The queue holds consecutive lines, the newest of them the last queued,  *)
(* and the host has every line that was retired or is about to be.         *)
(***************************************************************************)
Received(line) == \E i \in DOMAIN host : host[i] = line
Emitted == transmit_active /\ (transmit_completed \/ completed)

HostHasRetired ==
  /\ Len(transmit_lines) <= queued
  /\ \A i \in 1 .. Len(transmit_lines) :
       transmit_lines[i] = queued - Len(transmit_lines) + i
  /\ \A line \in 1 .. queued - Len(transmit_lines) : Received(line)
  /\ Emitted => Received(Head(transmit_lines))
-----------------------------------------------------------------------------
(***************************************************************************)
(* The ends of a nonempty queue of lines.                                  *)
(***************************************************************************)
LEMMA QueueEnds ==
  ASSUME TypeOK, transmit_lines # << >>
  PROVE  /\ Len(transmit_lines) \in Nat \ {0}
         /\ Head(transmit_lines) \in Line
         /\ Head(transmit_lines) = transmit_lines[1]
         /\ Tail(transmit_lines) \in Seq(Line)
         /\ Len(Tail(transmit_lines)) = Len(transmit_lines) - 1
         /\ \A i \in 1 .. Len(transmit_lines) - 1 :
              Tail(transmit_lines)[i] = transmit_lines[i + 1]
<1>1. transmit_lines \in Seq(Line)
  BY DEF TypeOK
<1>2. Len(transmit_lines) \in Nat /\ Len(transmit_lines) # 0
  BY <1>1, LenProperties, EmptySeq
<1>3. QED
  BY <1>1, <1>2, HeadTailProperties

LEMMA LineIsNotNoLine == \A line \in Line : line # NoLine
BY TransmitConstants DEF Line, NoLine

LEMMA InitInv == Init => Inv
<1> SUFFICES ASSUME Init PROVE Inv
  OBVIOUS
<1>1. /\ transmit_lines \in Seq(Line) /\ Len(transmit_lines) <= TransmitDepth
      /\ host \in Seq(Line)
  BY EmptySeq, TransmitConstants DEF Init
<1>2. TypeOK
  <2>1. queued \in 0 .. MaxLines /\ resets \in 0 .. MaxResets
    BY TransmitConstants DEF Init
  <2>2. QED
    BY <1>1, <2>1 DEF Init, TypeOK, Phase
<1>3. FlagsAgree /\ StartingAgrees
  BY DEF Init, FlagsAgree, ClassOpen, StartingAgrees
<1>4. QED
  BY <1>2, <1>3 DEF Inv

(***************************************************************************)
(* finish_completed_transmission.                                          *)
(***************************************************************************)
LEMMA TakeCompletionInv == Inv /\ TakeCompletion => Inv'
<1> SUFFICES ASSUME Inv, TakeCompletion PROVE Inv'
  OBVIOUS
<1>1. TypeOK'
  BY DEF Inv, TypeOK, TakeCompletion, Phase, device, history
<1>2. FlagsAgree'
  BY DEF Inv, FlagsAgree, ClassOpen, TakeCompletion, device
<1>3. StartingAgrees'
  BY DEF StartingAgrees, TakeCompletion
<1>4. QED
  BY <1>1, <1>2, <1>3 DEF Inv

LEMMA RetireLineInv == Inv /\ RetireLine => Inv'
<1> SUFFICES ASSUME Inv, RetireLine PROVE Inv'
  OBVIOUS
<1>1. CASE completed /\ transmit_active
  <2>1. /\ Tail(transmit_lines) \in Seq(Line)
        /\ Len(Tail(transmit_lines)) <= TransmitDepth
    BY <1>1, QueueEnds, TransmitConstants DEF Inv, TypeOK, FlagsAgree
  <2>2. TypeOK'
    BY <1>1, <2>1 DEF Inv, TypeOK, RetireLine, TransferDone, Phase,
                       device, history
  <2>3. QED
    BY <1>1, <2>2
       DEF Inv, FlagsAgree, ClassOpen, StartingAgrees, RetireLine,
           TransferDone, device, history
<1>2. CASE ~(completed /\ transmit_active)
  BY <1>2 DEF Inv, TypeOK, FlagsAgree, ClassOpen, StartingAgrees, RetireLine,
              TransferDone, Phase,
              device, history
<1>3. QED
  BY <1>1, <1>2

(***************************************************************************)
(* start_pending_transmission.                                             *)
(***************************************************************************)
LEMMA CheckPendingInv == Inv /\ CheckPending => Inv'
BY DEF Inv, TypeOK, FlagsAgree, StartingAgrees, CheckPending, MayStart, Phase,
       flags, device, history, ClassOpen

LEMMA MarkActiveInv == Inv /\ MarkActive => Inv'
BY DEF Inv, TypeOK, FlagsAgree, StartingAgrees, MarkActive, Phase,
       device, history, ClassOpen

LEMMA SetTxBufferInv == Inv /\ SetTxBuffer => Inv'
<1> SUFFICES ASSUME Inv, SetTxBuffer PROVE Inv'
  OBVIOUS
<1>1. Head(transmit_lines) \in Line
  BY QueueEnds DEF Inv, StartingAgrees, SetTxBuffer
<1>2. QED
  BY <1>1 DEF Inv, TypeOK, FlagsAgree, StartingAgrees, SetTxBuffer, Phase,
              history, ClassOpen

LEMMA TransmitPacketInv == Inv /\ TransmitPacket => Inv'
<1> SUFFICES ASSUME Inv, TransmitPacket PROVE Inv'
  OBVIOUS
<1>1. TypeOK'
  BY DEF Inv, TypeOK, TransmitPacket, Phase, history
<1>2. FlagsAgree'
  BY DEF Inv, TypeOK, FlagsAgree, StartingAgrees, TransmitPacket, ClassOpen
<1>3. StartingAgrees'
  BY DEF StartingAgrees, TransmitPacket
<1>4. QED
  BY <1>1, <1>2, <1>3 DEF Inv

(***************************************************************************)
(* The session queues a line behind the others.                            *)
(***************************************************************************)
LEMMA QueueLineInv == Inv /\ QueueLine => Inv'
<1> SUFFICES ASSUME Inv, QueueLine PROVE Inv'
  OBVIOUS
<1>1. queued + 1 \in Line /\ queued' \in 0 .. MaxLines
  BY TransmitConstants DEF Inv, TypeOK, QueueLine, Line
<1>2. /\ transmit_lines' \in Seq(Line)
      /\ transmit_lines' # << >>
      /\ Len(transmit_lines') <= TransmitDepth
  <2>1. transmit_lines \in Seq(Line) /\ Len(transmit_lines) \in Nat
    BY LenProperties DEF Inv, TypeOK
  <2>2. Len(transmit_lines') = Len(transmit_lines) + 1
    BY <1>1, <2>1, AppendProperties DEF QueueLine
  <2>3. QED
    BY <1>1, <2>1, <2>2, AppendProperties, TransmitConstants
       DEF QueueLine, CanQueueLine
<1>3. transmit_lines # << >> => Head(transmit_lines') = Head(transmit_lines)
  <2>1. transmit_lines \in Seq(Line)
    BY DEF Inv, TypeOK
  <2>2. QED
    BY <1>1, <2>1, HeadTailAppend DEF QueueLine
<1>4. TypeOK'
  BY <1>1, <1>2 DEF Inv, TypeOK, QueueLine, flags, device
<1>5. FlagsAgree'
  BY <1>2, <1>3 DEF Inv, FlagsAgree, ClassOpen, QueueLine, flags, device
<1>6. StartingAgrees'
  BY DEF StartingAgrees, QueueLine
<1>7. QED
  BY <1>4, <1>5, <1>6 DEF Inv

LEMMA SessionDoneInv == Inv /\ SessionDone => Inv'
BY DEF Inv, TypeOK, FlagsAgree, StartingAgrees, SessionDone, Phase,
       flags, device, history, ClassOpen

(***************************************************************************)
(* The interrupt.                                                          *)
(***************************************************************************)
LEMMA DataInInv == Inv /\ DataIn => Inv'
<1> SUFFICES ASSUME Inv, DataIn PROVE Inv'
  OBVIOUS
<1>1. in_flight \in Line /\ host' \in Seq(Line)
  BY AppendProperties DEF Inv, TypeOK, DataIn
<1>2. TypeOK'
  BY <1>1 DEF Inv, TypeOK, DataIn, NoLine
<1>3. QED
  BY <1>2 DEF Inv, FlagsAgree, ClassOpen, StartingAgrees, DataIn

LEMMA DeinitializeInv == Inv /\ Deinitialize => Inv'
<1> SUFFICES ASSUME Inv, Deinitialize PROVE Inv'
  OBVIOUS
<1>1. resets' \in 0 .. MaxResets
  BY TransmitConstants DEF Inv, TypeOK, Deinitialize
<1>2. TypeOK'
  BY <1>1 DEF Inv, TypeOK, Deinitialize
<1>3. QED
  BY <1>2 DEF Inv, FlagsAgree, StartingAgrees, Deinitialize, ClassOpen

LEMMA InitializeInv == Inv /\ Initialize => Inv'
<1> SUFFICES ASSUME Inv, Initialize PROVE Inv'
  OBVIOUS
<1>1. TypeOK'
  BY DEF Inv, TypeOK, Initialize, history
<1>2. FlagsAgree' /\ StartingAgrees'
  BY DEF Inv, FlagsAgree, ClassOpen, StartingAgrees, Initialize
<1>3. QED
  BY <1>1, <1>2 DEF Inv

LEMMA SuspendResumeInv == Inv /\ (Suspend \/ Resume) => Inv'
BY DEF Inv, TypeOK, FlagsAgree, StartingAgrees, Suspend, Resume, flags,
       history, ClassOpen

LEMMA StutterInv == Inv /\ UNCHANGED vars => Inv'
BY DEF Inv, TypeOK, FlagsAgree, StartingAgrees, vars, flags, device, history,
       ClassOpen

THEOREM TransmitInvariant == Spec => []Inv
<1>1. Inv /\ [Next]_vars => Inv'
  BY TakeCompletionInv, RetireLineInv, CheckPendingInv, MarkActiveInv,
     SetTxBufferInv, TransmitPacketInv, QueueLineInv, SessionDoneInv,
     DataInInv, DeinitializeInv, InitializeInv, SuspendResumeInv, StutterInv
     DEF Next, MainLoop, Interrupt
<1>2. QED
  BY InitInv, <1>1, PTL DEF Spec

(***************************************************************************)
(* Type correctness of the transmit path.                                  *)
(***************************************************************************)
THEOREM TypeCorrect == Spec => []TypeOK
<1>1. Inv => TypeOK
  BY DEF Inv
<1>2. QED
  BY <1>1, TransmitInvariant, PTL

(***************************************************************************)
(* A line stays in its slot until its transfer completes, whatever resets, *)
(* suspensions and completions interrupt the main loop.                    *)
(***************************************************************************)
THEOREM LineStoredUntilComplete == Spec => []StoredUntilComplete
<1>1. Inv => StoredUntilComplete
  BY DEF Inv, FlagsAgree, ClassOpen, StoredUntilComplete
<1>2. QED
  BY <1>1, TransmitInvariant, PTL
-----------------------------------------------------------------------------
(***************************************************************************)
(* HostHasRetired is inductive relative to Inv.                            *)
(***************************************************************************)
LEMMA InitHost == Init => HostHasRetired
<1> SUFFICES ASSUME Init PROVE HostHasRetired
  OBVIOUS
<1>1. Len(transmit_lines) = 0 /\ queued = 0
  BY EmptySeq DEF Init
<1>2. QED
  BY <1>1 DEF Init, HostHasRetired, Emitted

(***************************************************************************)
(* A step that leaves the queue and the host's lines alone can disturb     *)
(* HostHasRetired only by raising Emitted.                                 *)
(***************************************************************************)
LEMMA QueueAndHostUnchanged ==
  ASSUME HostHasRetired, UNCHANGED <<transmit_lines, queued, host>>,
         Emitted' => Emitted
  PROVE  HostHasRetired'
BY DEF HostHasRetired, Received

LEMMA RetireLineHost == Inv /\ HostHasRetired /\ RetireLine => HostHasRetired'
<1> SUFFICES ASSUME Inv, HostHasRetired, RetireLine PROVE HostHasRetired'
  OBVIOUS
<1>1. CASE completed /\ transmit_active
  <2> DEFINE oldest == queued - Len(transmit_lines) + 1
  <2>1. /\ Len(transmit_lines) \in Nat \ {0}
        /\ queued \in Nat
        /\ Len(transmit_lines') = Len(transmit_lines) - 1
        /\ \A i \in 1 .. Len(transmit_lines) - 1 :
             transmit_lines'[i] = transmit_lines[i + 1]
        /\ Head(transmit_lines) = transmit_lines[1]
    BY <1>1, QueueEnds, TransmitConstants
       DEF Inv, TypeOK, FlagsAgree, RetireLine, TransferDone
  <2>2. queued' = queued /\ host' = host /\ ~Emitted'
    BY <1>1 DEF RetireLine, TransferDone, history, Emitted
  <2>3. Received(oldest)
    BY <1>1, <2>1 DEF HostHasRetired, Emitted
  <2>4. \A line \in 1 .. oldest : Received(line)
    BY <2>1, <2>3 DEF HostHasRetired
  <2>5. \A line \in 1 .. queued' - Len(transmit_lines') : Received(line)'
    BY <2>1, <2>2, <2>4 DEF Received
  <2>6. \A i \in 1 .. Len(transmit_lines') :
          transmit_lines'[i] = queued' - Len(transmit_lines') + i
    BY <2>1, <2>2 DEF HostHasRetired
  <2>7. Len(transmit_lines') <= queued'
    BY <2>1, <2>2 DEF HostHasRetired
  <2>8. QED
    BY <2>2, <2>5, <2>6, <2>7 DEF HostHasRetired
<1>2. CASE ~(completed /\ transmit_active)
  <2>1. Emitted' => Emitted
    BY <1>2 DEF RetireLine, TransferDone, Emitted
  <2>2. UNCHANGED <<transmit_lines, queued, host>>
    BY <1>2 DEF RetireLine, TransferDone, history
  <2>3. QED
    BY <2>1, <2>2, QueueAndHostUnchanged
<1>3. QED
  BY <1>1, <1>2

LEMMA QueueLineHost == Inv /\ HostHasRetired /\ QueueLine => HostHasRetired'
<1> SUFFICES ASSUME Inv, HostHasRetired, QueueLine PROVE HostHasRetired'
  OBVIOUS
<1>1. /\ transmit_lines \in Seq(Line) /\ Len(transmit_lines) \in Nat
      /\ queued \in Nat /\ queued + 1 \in Line
  BY TransmitConstants, LenProperties DEF Inv, TypeOK, QueueLine, Line
<1>2. /\ Len(transmit_lines') = Len(transmit_lines) + 1
      /\ \A i \in 1 .. Len(transmit_lines) :
           transmit_lines'[i] = transmit_lines[i]
      /\ transmit_lines'[Len(transmit_lines) + 1] = queued + 1
  BY <1>1, AppendProperties DEF QueueLine
<1>3. queued' = queued + 1 /\ host' = host
  BY DEF QueueLine
<1>4. \A i \in 1 .. Len(transmit_lines') :
        transmit_lines'[i] = queued' - Len(transmit_lines') + i
  <2> TAKE i \in 1 .. Len(transmit_lines')
  <2>1. CASE i = Len(transmit_lines) + 1
    BY <1>1, <1>2, <1>3, <2>1
  <2>2. CASE i # Len(transmit_lines) + 1
    <3>1. i \in 1 .. Len(transmit_lines)
      BY <1>1, <1>2, <2>2
    <3>2. QED
      BY <1>1, <1>2, <1>3, <3>1 DEF HostHasRetired
  <2>3. QED
    BY <2>1, <2>2
<1>5. Len(transmit_lines') <= queued'
  BY <1>1, <1>2, <1>3 DEF HostHasRetired
<1>6. \A line \in 1 .. queued' - Len(transmit_lines') : Received(line)'
  BY <1>1, <1>2, <1>3 DEF HostHasRetired, Received
<1>7. Emitted' => Received(Head(transmit_lines))'
  <2>1. SUFFICES ASSUME Emitted' PROVE Received(Head(transmit_lines))'
    OBVIOUS
  <2>2. Emitted /\ transmit_lines # << >>
    BY <2>1 DEF Emitted, QueueLine, flags, Inv, FlagsAgree
  <2>3. Head(transmit_lines') = Head(transmit_lines)
    BY <1>1, <2>2, HeadTailAppend DEF QueueLine
  <2>4. QED
    BY <1>3, <2>2, <2>3 DEF HostHasRetired, Received
<1>8. QED
  BY <1>4, <1>5, <1>6, <1>7 DEF HostHasRetired

LEMMA DataInHost == Inv /\ HostHasRetired /\ DataIn => HostHasRetired'
<1> SUFFICES ASSUME Inv, HostHasRetired, DataIn PROVE HostHasRetired'
  OBVIOUS
<1>1. /\ host \in Seq(Line) /\ in_flight \in Line
      /\ host' = Append(host, in_flight)
      /\ in_flight = Head(transmit_lines)
      /\ transmit_lines' = transmit_lines /\ queued' = queued
  BY DEF Inv, TypeOK, FlagsAgree, DataIn
<1>2. /\ DOMAIN host' = 1 .. Len(host) + 1
      /\ DOMAIN host = 1 .. Len(host) /\ Len(host) \in Nat
      /\ \A i \in DOMAIN host : host'[i] = host[i]
      /\ host'[Len(host) + 1] = in_flight
  BY <1>1, AppendProperties, LenProperties
<1>3. \A line : Received(line) => Received(line)'
  BY <1>2 DEF Received
<1>4. Received(Head(transmit_lines))'
  BY <1>1, <1>2 DEF Received
<1>5. QED
  BY <1>1, <1>3, <1>4 DEF HostHasRetired

(***************************************************************************)
(* The other steps do not raise Emitted: a flag moves into the local copy, *)
(* the mark is set when neither is up, or a reset clears them.             *)
(***************************************************************************)
LEMMA OtherStepsHost ==
  ASSUME Inv, HostHasRetired,
         \/ TakeCompletion \/ CheckPending \/ MarkActive \/ SetTxBuffer
         \/ TransmitPacket \/ SessionDone \/ Deinitialize \/ Initialize
         \/ Suspend \/ Resume \/ UNCHANGED vars
  PROVE  HostHasRetired'
<1>1. UNCHANGED <<transmit_lines, queued, host>>
  BY DEF TakeCompletion, CheckPending, MarkActive, SetTxBuffer, TransmitPacket,
         SessionDone, Deinitialize, Initialize, Suspend, Resume, vars, history
<1>2. Emitted' => Emitted
  <2>1. CASE MarkActive
    BY <2>1 DEF MarkActive, Emitted, Inv, FlagsAgree, StartingAgrees
  <2>2. CASE TakeCompletion \/ CheckPending \/ SessionDone \/ UNCHANGED vars
    BY <2>2 DEF TakeCompletion, CheckPending, SessionDone, vars, flags, Emitted
  <2>3. CASE SetTxBuffer \/ TransmitPacket
    BY <2>3 DEF SetTxBuffer, TransmitPacket, Emitted
  <2>4. CASE Deinitialize \/ Initialize \/ Suspend \/ Resume
    BY <2>4 DEF Deinitialize, Initialize, Suspend, Resume, flags, Emitted
  <2>5. QED
    BY <2>1, <2>2, <2>3, <2>4
<1>3. QED
  BY <1>1, <1>2, QueueAndHostUnchanged

THEOREM HostInvariant == Spec => []HostHasRetired
<1>1. Inv /\ HostHasRetired /\ [Next]_vars => HostHasRetired'
  BY RetireLineHost, QueueLineHost, DataInHost, OtherStepsHost
     DEF Next, MainLoop, Interrupt
<1>2. QED
  BY InitHost, TransmitInvariant, <1>1, PTL DEF Spec

(***************************************************************************)
(* No queued line is lost, whatever bus resets interrupt its transfer.     *)
(***************************************************************************)
THEOREM LinesAreNotLost == Spec => []NoLineLost
<1>1. HostHasRetired => NoLineLost
  BY DEF HostHasRetired, NoLineLost, Received
<1>2. QED
  BY <1>1, HostInvariant, PTL
-----------------------------------------------------------------------------
(***************************************************************************)
(* What the host received last is the last retired line or the one after   *)
(* it, and exactly the latter while the firmware knows that it was         *)
(* emitted.  A line the host has and the firmware does not know of will    *)
(* come again, and a bus reset has been counted for it: Pending stands for *)
(* that repetition, which is yet to come.                                  *)
(***************************************************************************)
Retired == queued - Len(transmit_lines)
LastReceived == IF host = << >> THEN 0 ELSE host[Len(host)]
Pending == IF LastReceived = Retired + 1 /\ ~Emitted THEN 1 ELSE 0

HostInOrder ==
  /\ ~ClassOpen => ~Emitted /\ ~transmit_completed
  /\ LastReceived \in {Retired, Retired + 1}
  /\ Emitted => LastReceived = Retired + 1
  /\ host # << >> => host[1] = 1
  /\ \A i \in 1 .. Len(host) - 1 : host[i + 1] - host[i] \in {0, 1}
  /\ Len(host) - LastReceived + Pending <= resets

LEMMA InitInOrder == Init => HostInOrder
<1> SUFFICES ASSUME Init PROVE HostInOrder
  OBVIOUS
<1>1. Len(host) = 0 /\ Len(transmit_lines) = 0 /\ host = << >>
      /\ queued = 0 /\ resets = 0
      /\ transmit_active = FALSE /\ transmit_completed = FALSE
  BY EmptySeq DEF Init
<1>2. LastReceived = 0 /\ Retired = 0
  BY <1>1 DEF LastReceived, Retired
<1>4. ~Emitted
  BY <1>1 DEF Emitted
<1>3. Pending = 0
  BY <1>2 DEF Pending
<1> QED
  BY <1>1, <1>2, <1>3, <1>4 DEF HostInOrder

LEMMA CountsAreNumbers ==
  ASSUME Inv, HostHasRetired
  PROVE  /\ Retired \in Nat /\ LastReceived \in Nat /\ Len(host) \in Nat
         /\ resets \in Nat /\ queued \in Nat /\ Len(transmit_lines) \in Nat
         /\ host \in Seq(Line)
         /\ host = << >> <=> Len(host) = 0
<1>1. /\ host \in Seq(Line) /\ transmit_lines \in Seq(Line)
      /\ queued \in Nat /\ resets \in Nat
  BY TransmitConstants DEF Inv, TypeOK
<1>2. /\ Len(host) \in Nat /\ Len(transmit_lines) \in Nat
      /\ host = << >> <=> Len(host) = 0
  BY <1>1, EmptySeq
<1>3. Retired \in Nat
  BY <1>1, <1>2 DEF Retired, HostHasRetired
<1>4. LastReceived \in Nat
  <2>1. host # << >> => host[Len(host)] \in Line
    BY <1>1, <1>2
  <2>2. Line \subseteq Nat
    BY TransmitConstants DEF Line
  <2> QED
    BY <2>1, <2>2 DEF LastReceived
<1> QED
  BY <1>1, <1>2, <1>3, <1>4

(***************************************************************************)
(* Steps that leave the queue, the host and what the firmware knows alone. *)
(***************************************************************************)
LEMMA UnseenInOrder ==
  ASSUME HostInOrder, UNCHANGED <<transmit_lines, queued, host, resets>>,
         Emitted' <=> Emitted,
         ~ClassOpen' => ~Emitted' /\ ~transmit_completed'
  PROVE  HostInOrder'
BY DEF HostInOrder, LastReceived, Retired, Pending

LEMMA RetireLineInOrder ==
  ASSUME Inv, HostHasRetired, HostInOrder, RetireLine
  PROVE  HostInOrder'
<1>1. CASE TransferDone
  <2>1. Emitted /\ ~Emitted' /\ ~transmit_completed'
    BY <1>1 DEF RetireLine, TransferDone, Emitted, Inv, FlagsAgree
  <2>2. transmit_lines # << >>
    BY <1>1 DEF TransferDone, Inv, FlagsAgree
  <2>3. /\ Len(transmit_lines') = Len(transmit_lines) - 1
        /\ UNCHANGED <<queued, host, resets>>
    BY <1>1, <2>2, QueueEnds DEF RetireLine, history, Inv
  <2>4. Retired' = Retired + 1 /\ LastReceived' = LastReceived
    BY <2>3, CountsAreNumbers DEF Retired, LastReceived
  <2>5. LastReceived = Retired + 1 /\ Pending = 0
    BY <2>1 DEF HostInOrder, Pending
  <2>6. Pending' = 0
    BY <2>4, <2>5, CountsAreNumbers DEF Pending
  <2> QED
    BY <2>1, <2>3, <2>4, <2>5, <2>6 DEF HostInOrder
<1>2. CASE ~TransferDone
  <2>1. /\ UNCHANGED <<transmit_lines, queued, host, resets>>
        /\ Emitted' <=> Emitted
    BY <1>2 DEF RetireLine, TransferDone, history, Emitted
  <2>2. ClassOpen' = ClassOpen /\ transmit_completed' = transmit_completed
    BY DEF RetireLine, ClassOpen, device
  <2> QED
    BY <2>1, <2>2, UnseenInOrder DEF HostInOrder
<1> QED
  BY <1>1, <1>2

LEMMA QueueLineInOrder ==
  ASSUME Inv, HostHasRetired, HostInOrder, QueueLine
  PROVE  HostInOrder'
<1>1. queued + 1 \in Line /\ transmit_lines \in Seq(Line)
  BY TransmitConstants DEF Inv, TypeOK, QueueLine, Line
<1>2. Len(transmit_lines') = Len(transmit_lines) + 1
  BY <1>1, AppendProperties DEF QueueLine
<1>3. queued' = queued + 1 /\ UNCHANGED <<host, resets, flags, completed>>
      /\ ClassOpen' = ClassOpen
  BY DEF QueueLine, device, ClassOpen
<1>4. Retired' = Retired
  BY <1>2, <1>3, CountsAreNumbers DEF Retired
<1>5. /\ Emitted' = Emitted /\ transmit_completed' = transmit_completed
      /\ LastReceived' = LastReceived
  BY <1>3 DEF Emitted, flags, LastReceived
<1>6. Pending' = Pending
  BY <1>4, <1>5 DEF Pending
<1> QED
  BY <1>3, <1>4, <1>5, <1>6 DEF HostInOrder

(***************************************************************************)
(* The line that completes is the oldest one: the host sees the next line, *)
(* or again the one of the repetition that was pending.                    *)
(***************************************************************************)
LEMMA DataInInOrder ==
  ASSUME Inv, HostHasRetired, HostInOrder, DataIn
  PROVE  HostInOrder'
<1>1. /\ host \in Seq(Line) /\ in_flight \in Line
      /\ host' = Append(host, in_flight)
      /\ in_flight = Head(transmit_lines) /\ transmit_lines # << >>
      /\ UNCHANGED <<transmit_lines, queued, resets>>
      /\ transmit_active /\ transmit_active' /\ transmit_completed'
      /\ ClassOpen' /\ ~Emitted
  BY DEF Inv, TypeOK, FlagsAgree, DataIn, ClassOpen, Emitted
<1>2. in_flight = Retired + 1
  <2>1. 1 \in 1 .. Len(transmit_lines) /\ in_flight = transmit_lines[1]
    BY <1>1, QueueEnds DEF Inv
  <2>2. transmit_lines[1] = queued - Len(transmit_lines) + 1
    BY <2>1 DEF HostHasRetired
  <2> QED
    BY <2>1, <2>2 DEF Retired
<1>3. /\ Len(host') = Len(host) + 1 /\ host' # << >>
      /\ \A i \in 1 .. Len(host) : host'[i] = host[i]
      /\ host'[Len(host) + 1] = in_flight
  BY <1>1, AppendProperties
<1>4. /\ Emitted' /\ Retired' = Retired /\ LastReceived' = Retired + 1
      /\ Pending' = 0
  BY <1>1, <1>2, <1>3 DEF Emitted, Retired, LastReceived, Pending
<1>5. host'[1] = 1
  <2>1. CASE host = << >>
    <3>1. LastReceived = 0 /\ Len(host) = 0
      BY <2>1, CountsAreNumbers DEF LastReceived
    <3>2. Retired = 0
      BY <3>1, CountsAreNumbers DEF HostInOrder
    <3> QED
      BY <1>2, <1>3, <3>1, <3>2
  <2>2. CASE host # << >>
    <3>1. 1 \in 1 .. Len(host)
      BY <2>2, CountsAreNumbers
    <3> QED
      BY <1>3, <2>2, <3>1 DEF HostInOrder
  <2> QED
    BY <2>1, <2>2
<1>6. ASSUME NEW i \in 1 .. Len(host') - 1
      PROVE  host'[i + 1] - host'[i] \in {0, 1}
  <2>1. i \in 1 .. Len(host) /\ host'[i] = host[i]
    BY <1>3, CountsAreNumbers
  <2>2. CASE i = Len(host)
    <3>1. host[i] = LastReceived
      BY <2>1, <2>2, CountsAreNumbers DEF LastReceived
    <3>2. host'[i + 1] = Retired + 1
      BY <1>2, <1>3, <2>2
    <3>3. /\ LastReceived \in {Retired, Retired + 1}
          /\ Retired \in Nat /\ LastReceived \in Nat
      BY CountsAreNumbers DEF HostInOrder
    <3>4. host'[i + 1] - host'[i] = (Retired + 1) - LastReceived
      BY <2>1, <3>1, <3>2
    <3>5. (Retired + 1) - LastReceived \in {0, 1}
      BY <3>3
    <3> QED
      BY <3>4, <3>5
  <2>3. CASE i # Len(host)
    <3>1. i \in 1 .. Len(host) - 1 /\ i + 1 \in 1 .. Len(host)
      BY <2>1, <2>3, CountsAreNumbers
    <3> QED
      BY <1>3, <2>1, <3>1 DEF HostInOrder
  <2> QED
    BY <2>2, <2>3
<1>7. Len(host') - LastReceived' + Pending' <= resets'
  <2>1. CASE LastReceived = Retired
    BY <1>1, <1>3, <1>4, <2>1, CountsAreNumbers DEF HostInOrder, Pending
  <2>2. CASE LastReceived = Retired + 1
    BY <1>1, <1>3, <1>4, <2>2, CountsAreNumbers DEF HostInOrder, Pending
  <2> QED
    BY <2>1, <2>2 DEF HostInOrder
<1> QED
  BY <1>1, <1>4, <1>5, <1>6, <1>7 DEF HostInOrder

(***************************************************************************)
(* A bus reset forgets that the host has the oldest line, and is counted.  *)
(***************************************************************************)
LEMMA DeinitializeInOrder ==
  ASSUME Inv, HostHasRetired, HostInOrder, Deinitialize
  PROVE  HostInOrder'
<1>1. /\ UNCHANGED <<transmit_lines, queued, host>> /\ resets' = resets + 1
      /\ ~Emitted' /\ ~transmit_completed'
  BY DEF Deinitialize, Emitted
<1>2. Retired' = Retired /\ LastReceived' = LastReceived
  BY <1>1 DEF Retired, LastReceived
<1>3. Pending \in {0, 1} /\ Pending' \in {0, 1}
  BY DEF Pending
<1>4. Len(host') - LastReceived' + Pending' <= resets'
  BY <1>1, <1>2, <1>3, CountsAreNumbers DEF HostInOrder
<1> QED
  BY <1>1, <1>2, <1>4 DEF HostInOrder

LEMMA OtherStepsInOrder ==
  ASSUME Inv, HostInOrder,
         \/ TakeCompletion \/ CheckPending \/ MarkActive \/ SetTxBuffer
         \/ TransmitPacket \/ SessionDone \/ Initialize
         \/ Suspend \/ Resume \/ UNCHANGED vars
  PROVE  HostInOrder'
<1>1. UNCHANGED <<transmit_lines, queued, host, resets>>
  BY DEF TakeCompletion, CheckPending, MarkActive, SetTxBuffer, TransmitPacket,
         SessionDone, Initialize, Suspend, Resume, vars, history
<1>2. CASE TakeCompletion
  <2>1. Emitted' <=> Emitted
    BY <1>2 DEF TakeCompletion, Emitted, Inv, FlagsAgree
  <2>2. ClassOpen' = ClassOpen /\ ~transmit_completed'
    BY <1>2 DEF TakeCompletion, device, ClassOpen
  <2> QED
    BY <1>1, <2>1, <2>2, UnseenInOrder DEF HostInOrder
<1>3. CASE MarkActive \/ SetTxBuffer \/ TransmitPacket
  <2>1. ~Emitted /\ ~Emitted'
    BY <1>3 DEF MarkActive, SetTxBuffer, TransmitPacket, Emitted, Inv,
                FlagsAgree, StartingAgrees
  <2>2. ~transmit_completed'
    BY <1>3 DEF MarkActive, SetTxBuffer, TransmitPacket, Inv, StartingAgrees
  <2> QED
    BY <1>1, <2>1, <2>2, UnseenInOrder
<1>4. CASE CheckPending \/ SessionDone \/ Suspend \/ Resume
           \/ UNCHANGED vars
  <2>1. UNCHANGED <<transmit_active, transmit_completed, completed>>
        /\ (ClassOpen' <=> ClassOpen)
    BY <1>4 DEF CheckPending, SessionDone, Suspend, Resume, vars, flags,
                device, ClassOpen
  <2> QED
    BY <1>1, <2>1, UnseenInOrder DEF HostInOrder, Emitted
<1>5. CASE Initialize
  <2>1. ~Emitted /\ ~Emitted' /\ ~transmit_completed'
    BY <1>5 DEF Initialize, Emitted, HostInOrder, ClassOpen
  <2> QED
    BY <1>1, <2>1, UnseenInOrder
<1> QED
  BY <1>2, <1>3, <1>4, <1>5

LEMMA HostOrderInvariant == Spec => []HostInOrder
<1>1. Inv /\ HostHasRetired /\ HostInOrder /\ [Next]_vars => HostInOrder'
  BY RetireLineInOrder, QueueLineInOrder, DataInInOrder, DeinitializeInOrder,
     OtherStepsInOrder DEF Next, MainLoop, Interrupt
<1> QED
  BY InitInOrder, TransmitInvariant, HostInvariant, <1>1, PTL DEF Spec

(***************************************************************************)
(* The host receives the lines in order and without gaps, and sees a line  *)
(* again at most once for each bus reset, however the completion of a      *)
(* transfer, the reset and the main loop race.                             *)
(***************************************************************************)
THEOREM HostSeesFewRepeats == Spec => []InOrderFewRepeats
<1>1. ASSUME Inv, HostHasRetired, HostInOrder
      PROVE  InOrderFewRepeats
  <2>1. host # << >> => Last(host) = LastReceived
    BY DEF Last, LastReceived
  <2>2. Pending \in {0, 1}
    BY DEF Pending
  <2>3. Len(host) - LastReceived <= resets
    BY <1>1, <2>2, CountsAreNumbers DEF HostInOrder
  <2> QED
    BY <1>1, <2>1, <2>3 DEF HostInOrder, InOrderFewRepeats
<1> QED
  BY <1>1, TransmitInvariant, HostInvariant, HostOrderInvariant, PTL
-----------------------------------------------------------------------------
(***************************************************************************)
(* The transmit path implements OutgoingLines.                             *)
(***************************************************************************)
LEMMA StutteringStep ==
  ASSUME UNCHANGED <<transmit_lines, host>>, Emitted' <=> Emitted
  PROVE  UNCHANGED Service!vars
BY DEF Service!vars, Emitted

LEMMA InitService == Init => Service!Init
BY DEF Init, Service!Init

LEMMA RetireLineService == Inv /\ RetireLine => [Service!Next]_(Service!vars)
<1> SUFFICES ASSUME Inv, RetireLine PROVE [Service!Next]_(Service!vars)
  OBVIOUS
<1>1. CASE completed /\ transmit_active
  <2>1. Service!Retire
    BY <1>1 DEF Inv, FlagsAgree, RetireLine, TransferDone, history,
                Service!Retire
  <2>2. QED
    BY <2>1 DEF Service!Next
<1>2. CASE ~(completed /\ transmit_active)
  <2>1. UNCHANGED <<transmit_lines, host>>
    BY <1>2 DEF RetireLine, TransferDone, history
  <2>2. Emitted' <=> Emitted
    BY <1>2 DEF RetireLine, TransferDone, Emitted
  <2>3. QED
    BY <2>1, <2>2, StutteringStep
<1>3. QED
  BY <1>1, <1>2

LEMMA QueueLineService == Inv /\ QueueLine => [Service!Next]_(Service!vars)
<1> SUFFICES ASSUME Inv, QueueLine PROVE [Service!Next]_(Service!vars)
  OBVIOUS
<1>1. queued + 1 \in Line
  BY TransmitConstants DEF Inv, TypeOK, QueueLine, Line
<1>2. Service!Accept(queued + 1)
  BY DEF QueueLine, CanQueueLine, flags, Service!Accept
<1>3. QED
  BY <1>1, <1>2 DEF Service!Next

LEMMA DataInService == Inv /\ DataIn => [Service!Next]_(Service!vars)
<1> SUFFICES ASSUME Inv, DataIn PROVE [Service!Next]_(Service!vars)
  OBVIOUS
<1>1. Service!Emit
  BY DEF Inv, FlagsAgree, DataIn, NoLine, Service!Emit
<1>2. QED
  BY <1>1 DEF Service!Next

(***************************************************************************)
(* A bus reset or an enumeration forgets that the host has the oldest line *)
(* if the main loop has not retired it.                                    *)
(***************************************************************************)
LEMMA ReconfigureService ==
  Inv /\ (Deinitialize \/ Initialize) => [Service!Next]_(Service!vars)
<1> SUFFICES ASSUME Inv, Deinitialize \/ Initialize
             PROVE  [Service!Next]_(Service!vars)
  OBVIOUS
<1>1. UNCHANGED <<transmit_lines, host>> /\ ~Emitted'
  BY DEF Deinitialize, Initialize, history, Emitted
<1>2. CASE Emitted
  <2>1. Service!Forget
    BY <1>1, <1>2 DEF Emitted, Service!Forget
  <2>2. QED
    BY <2>1 DEF Service!Next
<1>3. CASE ~Emitted
  BY <1>1, <1>3, StutteringStep
<1>4. QED
  BY <1>2, <1>3

LEMMA OtherStepsService ==
  ASSUME Inv,
         \/ TakeCompletion \/ CheckPending \/ MarkActive \/ SetTxBuffer
         \/ TransmitPacket \/ SessionDone \/ Suspend \/ Resume
         \/ UNCHANGED vars
  PROVE  UNCHANGED Service!vars
<1>1. UNCHANGED <<transmit_lines, host>>
  BY DEF TakeCompletion, CheckPending, MarkActive, SetTxBuffer, TransmitPacket,
         SessionDone, Suspend, Resume, vars, history
<1>2. Emitted' <=> Emitted
  <2>1. CASE TakeCompletion
    BY <2>1 DEF TakeCompletion, Emitted, Inv, FlagsAgree
  <2>2. CASE MarkActive \/ SetTxBuffer \/ TransmitPacket
    BY <2>2 DEF MarkActive, SetTxBuffer, TransmitPacket, Emitted, Inv,
                FlagsAgree, StartingAgrees
  <2>3. CASE CheckPending \/ SessionDone \/ Suspend \/ Resume
             \/ UNCHANGED vars
    BY <2>3 DEF CheckPending, SessionDone, Suspend, Resume, vars, flags,
                Emitted
  <2>4. QED
    BY <2>1, <2>2, <2>3
<1>3. QED
  BY <1>1, <1>2, StutteringStep

(***************************************************************************)
(* Refinement: seen through the queue, the firmware's knowledge that the   *)
(* oldest line was emitted, and the lines of the host, every behaviour of  *)
(* the transmit path is one of OutgoingLines.                              *)
(***************************************************************************)
THEOREM TransmitRefinesService == Spec => ImplementsService
<1>1. Inv /\ [Next]_vars => [Service!Next]_(Service!vars)
  BY RetireLineService, QueueLineService, DataInService, ReconfigureService,
     OtherStepsService DEF Next, MainLoop, Interrupt
<1>2. QED
  BY InitService, TransmitInvariant, <1>1, PTL
     DEF Spec, ImplementsService, Service!Spec
=============================================================================
