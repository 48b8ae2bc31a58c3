-------------------------- MODULE UsbTransmitPath --------------------------
(***************************************************************************)
(* From a queued line to the USB IN endpoint:                              *)
(* firmware/manufacturing_test/protocol/usb_cdc_transport.c, transmit side.*)
(*                                                                         *)
(* The main loop retires a completed line, starts the next one and lets    *)
(* the session queue more (usb_cdc_transport_process followed by           *)
(* session_protocol_process).  The USB interrupt reports a completed       *)
(* transfer (cdc_transmit_complete) and clears both flags when the class   *)
(* is opened or closed (cdc_initialize, cdc_deinitialize).  It may run     *)
(* between any two steps of the main loop, so the reads and writes of the  *)
(* flags that do not commute with it are steps of their own.  (Testing     *)
(* transmit_active and then clearing it, when the transfer is done and     *)
(* none can start, commutes with every interrupt: RetireLine is one step.) *)
(*                                                                         *)
(* The USB Device library and the host are external: the library's CDC     *)
(* class refuses a packet while one is under way or while it is closed,    *)
(* and loses a transfer when the bus is reset.                             *)
(*                                                                         *)
(* Two of the abstractions: the slots of transmit_lines with head, tail    *)
(* and count are the sequence of the lines in them, and a line is its      *)
(* number.  The transfer reads the line from its slot until it completes.  *)
(***************************************************************************)
EXTENDS Integers, Sequences, SequencesExt

CONSTANTS
  TransmitDepth,  \* USB_CDC_TRANSMIT_QUEUE_DEPTH, 2
  MaxLines,       \* bound: how many lines the session queues
  MaxResets       \* bound: how many times the bus goes away

ASSUME TransmitConstants ==
  /\ TransmitDepth \in Nat \ {0}
  /\ MaxLines \in Nat
  /\ MaxResets \in Nat

VARIABLES
  transmit_lines,      \* queued lines, oldest first
  transmit_active,     \* a transfer of the oldest line was started
  transmit_completed,  \* raised by the interrupt when a transfer completes
  phase,               \* the step the main loop takes next
  completed,           \* finish_completed_transmission's local copy
  dev_state,           \* usb_device.dev_state
  tx_buffer,           \* the line SetTxBuffer pointed the class to, 0 if none
  in_flight,           \* the line of the transfer under way, 0 if none
  queued,              \* history: number of lines queued so far
  host,                \* history: the lines the host received
  resets               \* history: how often the bus went away

flags == <<transmit_active, transmit_completed>>
device == <<dev_state, tx_buffer, in_flight>>
history == <<queued, host, resets>>
vars == <<transmit_lines, flags, phase, completed, device, history>>

NoLine == 0

Init ==
  /\ transmit_lines = << >>
  /\ transmit_active = FALSE
  /\ transmit_completed = FALSE
  /\ phase = "take"
  /\ completed = FALSE
  /\ dev_state = "default"
  /\ tx_buffer = NoLine
  /\ in_flight = NoLine
  /\ queued = 0
  /\ host = << >>
  /\ resets = 0
-----------------------------------------------------------------------------
(***************************************************************************)
(* finish_completed_transmission: its critical section takes the flag ...  *)
(***************************************************************************)
\* Fault: the flag is cleared before it is read.
TakeCompletionCleared ==
  /\ phase = "take"
  /\ transmit_completed' = FALSE
  /\ completed' = transmit_completed'
  /\ phase' = "retire"
  /\ UNCHANGED <<transmit_lines, transmit_active, device, history>>

TakeCompletion ==
  /\ phase = "take"
  /\ completed' = transmit_completed
  /\ transmit_completed' = FALSE
  /\ phase' = "retire"
  /\ UNCHANGED <<transmit_lines, transmit_active, device, history>>

(***************************************************************************)
(* ... and the oldest line is retired if its transfer is still the active  *)
(* one.                                                                    *)
(***************************************************************************)
TransferStarted == transmit_active   \* fault: the completion is not awaited
TransferReported == completed        \* fault: a reset in between is ignored
TransferDone == completed /\ transmit_active

RetireLine ==
  /\ phase = "retire"
  /\ IF TransferDone
     THEN /\ transmit_active' = FALSE
          /\ transmit_lines' = Tail(transmit_lines)
     ELSE UNCHANGED <<transmit_active, transmit_lines>>
  /\ completed' = FALSE
  /\ phase' = "check"
  /\ UNCHANGED <<transmit_completed, device, history>>

(***************************************************************************)
(* start_pending_transmission: the early return, the mark, and the two     *)
(* calls into the class, either of which may fail and clear the mark.      *)
(***************************************************************************)
\* Fault: the transfer under way is not considered.
MayStartAgain == transmit_lines # << >> /\ dev_state = "configured"

MayStart ==
  ~transmit_active /\ transmit_lines # << >> /\ dev_state = "configured"

CheckPending ==
  /\ phase = "check"
  /\ phase' = IF MayStart THEN "mark" ELSE "session"
  /\ UNCHANGED <<transmit_lines, flags, completed, device, history>>

MarkActive ==
  /\ phase = "mark"
  /\ transmit_active' = TRUE
  /\ phase' = "set_buffer"
  /\ UNCHANGED <<transmit_lines, transmit_completed, completed, device,
                 history>>

ClassOpen == dev_state # "default"

SetTxBuffer ==
  /\ phase = "set_buffer"
  /\ \/ /\ ClassOpen
        /\ tx_buffer' = Head(transmit_lines)
        /\ phase' = "transmit"
        /\ UNCHANGED transmit_active
     \/ /\ ~ClassOpen
        /\ transmit_active' = FALSE
        /\ phase' = "session"
        /\ UNCHANGED tx_buffer
  /\ UNCHANGED <<transmit_lines, transmit_completed, completed, dev_state,
                 in_flight, history>>

TransmitPacket ==
  /\ phase = "transmit"
  /\ \/ /\ ClassOpen /\ in_flight = NoLine
        /\ in_flight' = tx_buffer
        /\ UNCHANGED transmit_active
     \/ /\ ~ClassOpen \/ in_flight # NoLine
        /\ transmit_active' = FALSE
        /\ UNCHANGED in_flight
  /\ phase' = "session"
  /\ UNCHANGED <<transmit_lines, transmit_completed, completed, dev_state,
                 tx_buffer, history>>

(***************************************************************************)
(* usb_cdc_transport_queue_line, called by the session only after          *)
(* usb_cdc_transport_can_queue_line.                                       *)
(***************************************************************************)
CanQueueLine == Len(transmit_lines) < TransmitDepth

\* Fault: the line is put in front of the one being transmitted.
QueueLineInFront ==
  /\ phase = "session"
  /\ CanQueueLine
  /\ queued < MaxLines
  /\ queued' = queued + 1
  /\ transmit_lines' = <<queued + 1>> \o transmit_lines
  /\ UNCHANGED <<flags, phase, completed, device, host, resets>>

QueueLine ==
  /\ phase = "session"
  /\ CanQueueLine
  /\ queued < MaxLines
  /\ queued' = queued + 1
  /\ transmit_lines' = Append(transmit_lines, queued + 1)
  /\ UNCHANGED <<flags, phase, completed, device, host, resets>>

SessionDone ==
  /\ phase = "session"
  /\ phase' = "take"
  /\ UNCHANGED <<transmit_lines, flags, completed, device, history>>
-----------------------------------------------------------------------------
(***************************************************************************)
(* The library finishes the transfer: the host has the line that is in the *)
(* slot, and cdc_transmit_complete runs.                                   *)
(***************************************************************************)
DataIn ==
  /\ dev_state = "configured"
  /\ in_flight # NoLine
  /\ host' = Append(host, in_flight)
  /\ in_flight' = NoLine
  /\ transmit_completed' = TRUE
  /\ UNCHANGED <<transmit_lines, transmit_active, phase, completed, dev_state,
                 tx_buffer, queued, resets>>

(***************************************************************************)
(* The bus is reset or the cable unplugged: the class is closed and        *)
(* cdc_deinitialize runs.  A transfer under way never completes.           *)
(***************************************************************************)
Deinitialize ==
  /\ ClassOpen
  /\ resets < MaxResets
  /\ resets' = resets + 1
  /\ dev_state' = "default"
  /\ in_flight' = NoLine
  /\ transmit_active' = FALSE
  /\ transmit_completed' = FALSE
  /\ UNCHANGED <<transmit_lines, phase, completed, tx_buffer, queued, host>>

(***************************************************************************)
(* The host configures the device: the class is opened and cdc_initialize  *)
(* runs.  Enumeration takes milliseconds and start_pending_transmission    *)
(* takes microseconds, so it does not end inside the very call it began    *)
(* in; a call that starts during the enumeration returns at once.          *)
(***************************************************************************)
Initialize ==
  /\ dev_state = "default"
  /\ phase \notin {"mark", "set_buffer", "transmit"}
  /\ dev_state' = "configured"
  /\ tx_buffer' = NoLine
  /\ transmit_active' = FALSE
  /\ transmit_completed' = FALSE
  /\ UNCHANGED <<transmit_lines, phase, completed, in_flight, history>>

(***************************************************************************)
(* The host suspends and resumes the bus.  The class stays open.           *)
(***************************************************************************)
Suspend ==
  /\ dev_state = "configured"
  /\ dev_state' = "suspended"
  /\ UNCHANGED <<transmit_lines, flags, phase, completed, tx_buffer, in_flight,
                 history>>

Resume ==
  /\ dev_state = "suspended"
  /\ dev_state' = "configured"
  /\ UNCHANGED <<transmit_lines, flags, phase, completed, tx_buffer, in_flight,
                 history>>

MainLoop ==
  \/ TakeCompletion \/ RetireLine
  \/ CheckPending \/ MarkActive \/ SetTxBuffer \/ TransmitPacket
  \/ QueueLine \/ SessionDone

Interrupt == DataIn \/ Deinitialize \/ Initialize \/ Suspend \/ Resume

Next == MainLoop \/ Interrupt

Spec == Init /\ [][Next]_vars

(***************************************************************************)
(* The main loop never blocks: one of its steps other than queueing is     *)
(* always enabled and is weakly fair.  A host that keeps the bus up polls  *)
(* the IN endpoint, so DataIn is weakly fair.  Nothing is assumed of       *)
(* resets, enumeration and suspension.                                     *)
(***************************************************************************)
FairSpec ==
  /\ Spec
  /\ WF_vars(TakeCompletion \/ RetireLine \/ CheckPending \/ MarkActive
             \/ SetTxBuffer \/ TransmitPacket \/ SessionDone)
  /\ WF_vars(DataIn)
-----------------------------------------------------------------------------
Line == 1 .. MaxLines
Phase == {"take", "retire", "check", "mark", "set_buffer", "transmit",
          "session"}

(***************************************************************************)
(* Every variable keeps its type; the queue never outgrows its slots.      *)
(***************************************************************************)
TypeOK ==
  /\ transmit_lines \in Seq(Line) /\ Len(transmit_lines) <= TransmitDepth
  /\ transmit_active \in BOOLEAN
  /\ transmit_completed \in BOOLEAN
  /\ phase \in Phase
  /\ completed \in BOOLEAN
  /\ dev_state \in {"default", "configured", "suspended"}
  /\ tx_buffer \in Line \cup {NoLine}
  /\ in_flight \in Line \cup {NoLine}
  /\ queued \in 0 .. MaxLines
  /\ host \in Seq(Line)
  /\ resets \in 0 .. MaxResets

(***************************************************************************)
(* An outgoing line stays in its slot until its transfer completes, as the *)
(* firmware's README promises: whatever is in flight is the oldest queued  *)
(* line, so queueing another line cannot overwrite it.                     *)
(***************************************************************************)
StoredUntilComplete ==
  in_flight # NoLine => /\ transmit_lines # << >>
                        /\ in_flight = Head(transmit_lines)

(***************************************************************************)
(* No line is lost: each line that has left the queue is one the host has, *)
(* across any number of bus resets in the middle of a transfer.            *)
(***************************************************************************)
NoLineLost ==
  \A line \in 1 .. queued - Len(transmit_lines) :
    \E i \in DOMAIN host : host[i] = line

(***************************************************************************)
(* The host receives the lines in order and without gaps, and sees a line  *)
(* again only after a bus reset: one repetition per reset at most.         *)
(***************************************************************************)
InOrderFewRepeats ==
  /\ host # << >> => host[1] = 1
  /\ \A i \in 1 .. Len(host) - 1 : host[i + 1] - host[i] \in {0, 1}
  /\ host # << >> => Len(host) - Last(host) <= resets

(***************************************************************************)
(* The transmit path implements the service its callers rely on.           *)
(***************************************************************************)
Service ==
  INSTANCE OutgoingLines
    WITH Depth   <- TransmitDepth,
         Lines   <- Line,
         queue   <- transmit_lines,
         emitted <- transmit_active /\ (transmit_completed \/ completed),
         host    <- host

ImplementsService == Service!Spec

(***************************************************************************)
(* Each queued line reaches the host if the bus stays up from some point  *)
(* on: no interleaving of completion, reset, enumeration and restart       *)
(* leaves the queue stuck.                                                 *)
(***************************************************************************)
LinesReachHost ==
  <>[](dev_state = "configured")
  => \A line \in Line :
       (queued = line) ~> (\E i \in DOMAIN host : host[i] = line)
=============================================================================
