--------------------------- MODULE UsbReceivePath ---------------------------
(***************************************************************************)
(* From the USB OUT endpoint to a complete command line:                   *)
(* firmware/manufacturing_test/protocol/usb_cdc_transport.c, receive side. *)
(*                                                                         *)
(* Two contexts share the raw ring.  The USB interrupt (cdc_receive) is    *)
(* the producer: it owns raw_receive_head, and when the ring is full it    *)
(* drops the byte and raises receive_overflow_pending; it never refuses a  *)
(* packet.  The main loop is the consumer: inside a critical section       *)
(* (pop_received_byte) it reads and clears that flag and takes the byte at *)
(* raw_receive_tail.  What the main loop then does with the byte           *)
(* (newline_framer, completed_line) touches no state of the interrupt, so  *)
(* one action covers the pop and the framing that follows it.              *)
(*                                                                         *)
(* The host is the environment: it sends numbered lines of a few lengths,  *)
(* with or without a CR before the LF, and may keep several lines on the   *)
(* way at once.  Bytes carry the line and the position they come from; the *)
(* firmware never looks at those two fields.                               *)
(***************************************************************************)
EXTENDS NewlineFramer, Integers, FiniteSets

CONSTANTS
  RingCapacity,     \* USB_CDC_RAW_RECEIVE_CAPACITY: slots of the ring, 512
  LineQueueDepth,   \* USB_CDC_LINE_QUEUE_DEPTH, 2
  HostLines,        \* bound: how many lines the host sends
  HostLengths       \* the payload lengths the host picks from

ASSUME ReceiveConstants ==
  /\ RingCapacity \in Nat /\ RingCapacity > 1
  /\ LineQueueDepth \in Nat \ {0}
  /\ HostLines \in Nat
  /\ HostLengths \subseteq Nat \ {0}

VARIABLES
  raw_receive_buffer,        \* the ring's slots
  raw_receive_head,          \* written by the interrupt only
  raw_receive_tail,          \* written by the main loop only
  receive_overflow_pending,  \* raised by the interrupt, taken by the main loop
  received_bytes_dropped,    \* statistic: bytes that found the ring full
  receive_framer,            \* the framer, a record of NewlineFramer
  received_lines,            \* the queue of complete lines, oldest first
  completed_lines_dropped,   \* statistic: lines that found the queue full
  phase,                     \* "receive" | "session": where the main loop is
  delivered,                 \* history: the lines the session has read
  sent,                      \* history: <<payload length, has CR>> per line
  lost,                      \* history: the bytes that were dropped
  host_rest                  \* bytes of the current line still to be sent

ringVars == <<raw_receive_buffer, raw_receive_head, raw_receive_tail>>
lineVars == <<receive_framer, received_lines, completed_lines_dropped>>
hostVars == <<sent, lost, host_rest>>
vars == <<ringVars, receive_overflow_pending, received_bytes_dropped,
          lineVars, phase, delivered, hostVars>>
-----------------------------------------------------------------------------
(***************************************************************************)
(* The bytes of host line n.  UnwrittenByte stands for the zeroed static   *)
(* array before the first write.                                           *)
(***************************************************************************)
Byte == [line : Nat, position : Nat, kind : ByteKind]
UnwrittenByte == [line |-> 0, position |-> 0, kind |-> "data"]

Payload(n, length) ==
  [p \in 1..length |-> [line |-> n, position |-> p, kind |-> "data"]]

Terminator(n, length, cr) ==
  LET Ending(p, k) == [line |-> n, position |-> length + p, kind |-> k]
  IN IF cr THEN <<Ending(1, "cr"), Ending(2, "lf")>> ELSE <<Ending(1, "lf")>>

(***************************************************************************)
(* Index arithmetic of the ring.  One slot always stays free, so that      *)
(* head = tail means empty and only empty.                                 *)
(***************************************************************************)
Slot == 0 .. RingCapacity - 1
Successor(index) == (index + 1) % RingCapacity
RingEmpty == raw_receive_head = raw_receive_tail
RingFull == Successor(raw_receive_head) = raw_receive_tail
-----------------------------------------------------------------------------
Init ==
  /\ raw_receive_buffer = [i \in Slot |-> UnwrittenByte]
  /\ raw_receive_head = 0
  /\ raw_receive_tail = 0
  /\ receive_overflow_pending = FALSE
  /\ received_bytes_dropped = 0
  /\ receive_framer = InitialFramer
  /\ received_lines = << >>
  /\ completed_lines_dropped = 0
  /\ phase = "receive"
  /\ delivered = << >>
  /\ sent = << >>
  /\ lost = {}
  /\ host_rest = << >>

(***************************************************************************)
(* The host starts its next line (UsbCdcConnection.write_line).            *)
(***************************************************************************)
HostBeginsLine ==
  /\ host_rest = << >>
  /\ Len(sent) < HostLines
  /\ \E length \in HostLengths, cr \in BOOLEAN :
       LET n == Len(sent) + 1
       IN /\ sent' = Append(sent, <<length, cr>>)
          /\ host_rest' = Payload(n, length) \o Terminator(n, length, cr)
  /\ UNCHANGED <<ringVars, receive_overflow_pending, received_bytes_dropped,
                 lineVars, phase, delivered, lost>>

(***************************************************************************)
(* cdc_receive, one byte of a packet.  The body of its loop for a full     *)
(* ring, and for a ring with room.                                         *)
(***************************************************************************)
DropByte(byte) ==
  /\ RingFull
  /\ received_bytes_dropped' = received_bytes_dropped + 1
  /\ receive_overflow_pending' = TRUE
  /\ lost' = lost \cup {byte}
  /\ UNCHANGED ringVars

StoreByte(byte) ==
  /\ ~RingFull
  /\ raw_receive_buffer' =
       [raw_receive_buffer EXCEPT ![raw_receive_head] = byte]
  /\ raw_receive_head' = Successor(raw_receive_head)
  /\ UNCHANGED <<raw_receive_tail, receive_overflow_pending,
                 received_bytes_dropped, lost>>

CdcReceive ==
  /\ host_rest # << >>
  /\ host_rest' = Tail(host_rest)
  /\ DropByte(Head(host_rest)) \/ StoreByte(Head(host_rest))
  /\ UNCHANGED <<lineVars, phase, delivered, sent>>

(***************************************************************************)
(* completed_line: the callback of the framer puts the line into the queue *)
(* of received lines, or drops it when the queue is full.                  *)
(***************************************************************************)
QueueCompletedLine(line) ==
  \/ /\ Len(received_lines) = LineQueueDepth
     /\ completed_lines_dropped' = completed_lines_dropped + 1
     /\ UNCHANGED received_lines
  \/ /\ Len(received_lines) < LineQueueDepth
     /\ received_lines' = Append(received_lines, line)
     /\ UNCHANGED completed_lines_dropped

(***************************************************************************)
(* pop_received_byte takes the flag, whether or not it finds a byte.       *)
(***************************************************************************)
LeaveOverflow == UNCHANGED receive_overflow_pending   \* fault: the flag stays
TakeOverflow == receive_overflow_pending' = FALSE

(***************************************************************************)
(* The framer as process_received_bytes sees it before it consumes the     *)
(* byte of a pop: when the pop reports an overflow, the line under         *)
(* construction is discarded first.                                        *)
(***************************************************************************)
FramerAfterPop(overflowed) ==
  IF overflowed THEN DiscardCurrentLine(receive_framer) ELSE receive_framer

(***************************************************************************)
(* One turn of the loop in process_received_bytes: pop_received_byte finds *)
(* a byte and the framer consumes it.                                      *)
(***************************************************************************)
ReceiveByte ==
  /\ phase = "receive"
  /\ ~RingEmpty
  /\ LET byte   == raw_receive_buffer[raw_receive_tail]
         framer == FramerAfterPop(receive_overflow_pending)
     IN /\ receive_framer' = Consume(framer, byte)
        /\ IF CompletesLine(framer, byte)
           THEN QueueCompletedLine(CompletedLine(framer))
           ELSE UNCHANGED <<received_lines, completed_lines_dropped>>
  /\ raw_receive_tail' = Successor(raw_receive_tail)
  /\ TakeOverflow
  /\ UNCHANGED <<raw_receive_buffer, raw_receive_head, received_bytes_dropped,
                 phase, delivered, hostVars>>

(***************************************************************************)
(* The turn that finds the ring empty ends the loop, and                   *)
(* session_protocol_process runs next.                                     *)
(***************************************************************************)
ReceiveNothing ==
  /\ phase = "receive"
  /\ RingEmpty
  /\ receive_framer' = FramerAfterPop(receive_overflow_pending)
  /\ TakeOverflow
  /\ phase' = "session"
  /\ UNCHANGED <<ringVars, received_bytes_dropped, received_lines,
                 completed_lines_dropped, delivered, hostVars>>

(***************************************************************************)
(* usb_cdc_transport_read_line on behalf of session_protocol_process.  The *)
(* caller's buffer holds a line of any length, so a queued line is always  *)
(* handed over.                                                            *)
(***************************************************************************)
ReadLine ==
  /\ phase = "session"
  /\ received_lines # << >>
  /\ delivered' = Append(delivered, Head(received_lines))
  /\ received_lines' = Tail(received_lines)
  /\ UNCHANGED <<ringVars, receive_overflow_pending, received_bytes_dropped,
                 receive_framer, completed_lines_dropped, phase, hostVars>>

(***************************************************************************)
(* session_protocol_process returns with the queue empty, or earlier when  *)
(* a response would find no room, and the main loop comes round.           *)
(***************************************************************************)
SessionDone ==
  /\ phase = "session"
  /\ phase' = "receive"
  /\ UNCHANGED <<ringVars, receive_overflow_pending, received_bytes_dropped,
                 lineVars, delivered, hostVars>>

MainLoop == ReceiveByte \/ ReceiveNothing \/ ReadLine \/ SessionDone
Next == HostBeginsLine \/ CdcReceive \/ MainLoop

Spec == Init /\ [][Next]_vars

(***************************************************************************)
(* The main loop never blocks, so each of its steps is weakly fair.  The   *)
(* response queue has room again and again, so a queued line that stays is *)
(* read in the end: strong fairness of ReadLine, which is disabled while   *)
(* bytes are being received.  The host owes nothing.                       *)
(***************************************************************************)
FairSpec ==
  /\ Spec
  /\ WF_vars(ReceiveByte)
  /\ WF_vars(ReceiveNothing)
  /\ WF_vars(SessionDone)
  /\ SF_vars(ReadLine)
-----------------------------------------------------------------------------
(***************************************************************************)
(* Readings of the state that the properties use.                          *)
(***************************************************************************)
RingCount == (raw_receive_head - raw_receive_tail) % RingCapacity
RingBytes ==
  [i \in 1..RingCount |->
     raw_receive_buffer[(raw_receive_tail + i - 1) % RingCapacity]]

Accepted == delivered \o received_lines
Whole(line) == \E n \in DOMAIN sent : line = Payload(n, sent[n][1])
IsLF(byte) == byte.kind = "lf"

\* Host lines whose LF the framer has consumed: it is not lost, not in the
\* ring and not still at the host.
Outstanding == ToSet(RingBytes) \cup ToSet(host_rest)
TerminatedLines ==
  Cardinality({n \in DOMAIN sent :
                 \A b \in Outstanding \cup lost : ~(IsLF(b) /\ b.line = n)})

Precedes(a, b) ==
  a.line < b.line \/ (a.line = b.line /\ a.position < b.position)
-----------------------------------------------------------------------------
Framer == [line : Seq(Byte), discarding : BOOLEAN, overflow_count : Nat]

(***************************************************************************)
(* Every variable keeps its type; the ring's indices stay inside the array *)
(* and neither queue outgrows its depth.                                   *)
(***************************************************************************)
TypeOK ==
  /\ raw_receive_buffer \in [Slot -> Byte]
  /\ raw_receive_head \in Slot
  /\ raw_receive_tail \in Slot
  /\ receive_overflow_pending \in BOOLEAN
  /\ received_bytes_dropped \in Nat
  /\ receive_framer \in Framer
  /\ received_lines \in Seq(Seq(Byte))
  /\ completed_lines_dropped \in Nat
  /\ phase \in {"receive", "session"}
  /\ delivered \in Seq(Seq(Byte))
  /\ sent \in Seq(Nat \X BOOLEAN)
  /\ lost \subseteq Byte
  /\ host_rest \in Seq(Byte)

(***************************************************************************)
(* An overflow that the main loop has not taken yet means that the ring is *)
(* still full: between the drop and the next pop nothing leaves the ring,  *)
(* and that pop takes the flag.  So the flag always comes out together     *)
(* with the OLDEST byte of a full ring, RingCapacity - 1 bytes before the  *)
(* gap it reports, and the discard after the loop of                       *)
(* process_received_bytes (ReceiveNothing) never has anything to do.       *)
(***************************************************************************)
PendingMeansFull == receive_overflow_pending => RingFull

(***************************************************************************)
(* The interrupt and the main loop never overwrite, repeat or reorder a    *)
(* byte: what was delivered, what is queued, framed, in the ring and still *)
(* at the host follow each other in the order the host sends them.         *)
(***************************************************************************)
BytesInOrder ==
  LET pieces == Accepted \o <<receive_framer.line, RingBytes, host_rest>>
  IN \A i, j \in DOMAIN pieces :
       \A p \in DOMAIN pieces[i], q \in DOMAIN pieces[j] :
         i < j \/ (i = j /\ p < q) => Precedes(pieces[i][p], pieces[j][q])

(***************************************************************************)
(* No line disappears without a trace: each host line whose LF was         *)
(* consumed is accepted, or counted in completed_lines_dropped, or counted *)
(* in overflow_count; and as long as no byte was dropped the three         *)
(* together count each line exactly once.                                  *)
(***************************************************************************)
LinesAreCounted ==
  LET counted == Len(Accepted) + completed_lines_dropped
                 + receive_framer.overflow_count
      begun   == TerminatedLines
                 + (IF receive_framer.discarding THEN 1 ELSE 0)
  IN /\ begun <= counted
     /\ lost = {} => begun = counted

(***************************************************************************)
(* Damage shows in the statistics: there are never more mutilated lines    *)
(* among the accepted ones than discards counted in oversized_lines_dropped*)
(* (framer.overflow_count).                                                *)
(***************************************************************************)
DamageIsCounted ==
  Cardinality({i \in DOMAIN Accepted : ~Whole(Accepted[i])})
    <= receive_framer.overflow_count

(***************************************************************************)
(* Damage is local: a line that was stored completely, behind a preceding  *)
(* LF that was stored too, is accepted whole or not at all.  While the     *)
(* ring has not overflowed, the session sees only lines as the host sent   *)
(* them, in spite of oversized lines in between.                           *)
(***************************************************************************)
DamageIsLocal ==
  \A n \in DOMAIN sent :
    (\A b \in lost : b.line # n /\ ~(b.line = n - 1 /\ IsLF(b)))
    => \A i \in DOMAIN Accepted :
         (\E j \in DOMAIN Accepted[i] : Accepted[i][j].line = n)
         => Accepted[i] = Payload(n, sent[n][1])

(***************************************************************************)
(* A host that never has more bytes on the way than the ring holds, nor    *)
(* more lines than the queue holds, nor a line beyond the limit, loses     *)
(* nothing: each line it has sent reaches the session.  This is what makes *)
(* the request / response use of the transport safe.                       *)
(***************************************************************************)
HostFits ==
  /\ RingCount + Len(host_rest) < RingCapacity
  /\ Len(sent) - Len(delivered) <= LineQueueDepth
  /\ \A n \in DOMAIN sent :
       sent[n][1] + (IF sent[n][2] THEN 1 ELSE 0) <= MaxLineLength

EveryLineDelivered ==
  []HostFits =>
    \A n \in 1..HostLines :
      (Len(sent) = n /\ host_rest = << >>) ~> (Len(delivered) >= n)

(***************************************************************************)
(* README.md of the firmware: "oversized or receive-overflowed lines are   *)
(* discarded through the next newline".  No mutilated line would ever      *)
(* reach the session.                                                      *)
(***************************************************************************)
OverflowedLinesDiscarded == \A i \in DOMAIN Accepted : Whole(Accepted[i])
=============================================================================
