----------------------- MODULE UsbReceivePath_proofs -----------------------
(***************************************************************************)
(* Theorems about the receive path for every ring capacity, queue depth,   *)
(* line limit and host.                                                    *)
(***************************************************************************)
EXTENDS UsbReceivePath, SequenceTheorems, FiniteSetTheorems, TLAPS

(***************************************************************************)
(* Index arithmetic of the ring.                                           *)
(***************************************************************************)
LEMMA SuccessorInSlot ==
  ASSUME NEW i \in Slot
  PROVE  Successor(i) \in Slot
BY ReceiveConstants DEF Slot, Successor

LEMMA SuccessorMoves ==
  ASSUME NEW i \in Slot
  PROVE  Successor(i) # i
BY ReceiveConstants DEF Slot, Successor

LEMMA SuccessorInjective ==
  ASSUME NEW i \in Slot, NEW j \in Slot, Successor(i) = Successor(j)
  PROVE  i = j
BY ReceiveConstants DEF Slot, Successor
-----------------------------------------------------------------------------
(***************************************************************************)
(* What the framer does with a framer and a byte of the right type.        *)
(***************************************************************************)
LEMMA DiscardType ==
  ASSUME NEW framer \in Framer
  PROVE  DiscardCurrentLine(framer) \in Framer
BY DEF DiscardCurrentLine, Framer

LEMMA ConsumeType ==
  ASSUME NEW framer \in Framer, NEW byte \in Byte
  PROVE  Consume(framer, byte) \in Framer
<1>1. framer.line \in Seq(Byte) /\ Append(framer.line, byte) \in Seq(Byte)
  BY DEF Framer
<1>2. DiscardCurrentLine(framer) \in Framer
  BY DiscardType
<1>3. [framer EXCEPT !.discarding = FALSE] \in Framer
  BY DEF Framer
<1>4. ASSUME NEW line \in Seq(Byte)
      PROVE  [framer EXCEPT !.line = line] \in Framer
  BY DEF Framer
<1>5. CASE framer.discarding
  BY <1>3, <1>5, Zenon DEF Consume
<1>6. CASE ~framer.discarding /\ byte.kind = "lf"
  <2>1. << >> \in Seq(Byte)
    BY EmptySeq
  <2>2. [framer EXCEPT !.line = << >>] \in Framer
    BY <1>4, <2>1, Zenon
  <2>3. QED
    BY <1>6, <2>2, Zenon DEF Consume
<1>7. CASE ~framer.discarding /\ byte.kind # "lf"
  <2>1. [framer EXCEPT !.line = Append(@, byte)] \in Framer
    BY <1>1, <1>4, Zenon
  <2>2. QED
    BY <1>2, <1>7, <2>1, Zenon DEF Consume
<1>8. QED
  BY <1>5, <1>6, <1>7

LEMMA CompletedLineType ==
  ASSUME NEW framer \in Framer
  PROVE  CompletedLine(framer) \in Seq(Byte)
<1>1. framer.line \in Seq(Byte)
  BY DEF Framer
<1>2. CASE framer.line = << >>
  BY <1>1, <1>2 DEF CompletedLine
<1>3. CASE framer.line # << >>
  <2>1. Len(framer.line) \in Nat /\ Len(framer.line) >= 1
    BY <1>1, <1>3, EmptySeq, LenProperties
  <2>2. SubSeq(framer.line, 1, Len(framer.line) - 1) \in Seq(Byte)
    BY <1>1, <2>1, SubSeqProperties
  <2>3. QED
    BY <1>1, <2>2 DEF CompletedLine, Front
<1>4. QED
  BY <1>2, <1>3

(***************************************************************************)
(* The bytes of a line of the host: LineSize is their number, ByteAt the   *)
(* one at a position.                                                      *)
(***************************************************************************)
LineSize(length, cr) == length + (IF cr THEN 2 ELSE 1)

ByteAt(n, length, size, i) ==
  [line |-> n, position |-> i,
   kind |-> IF i <= length THEN "data" ELSE IF i = size THEN "lf" ELSE "cr"]

LEMMA FunctionIsSequence ==
  ASSUME NEW n \in Nat, NEW s, s \in [1 .. n -> Byte]
  PROVE  s \in Seq(Byte) /\ Len(s) = n
<1>1. s \in Seq(Byte)
  BY SeqDef
<1>2. QED
  BY <1>1, LenProperties

LEMMA ConcatIs ==
  ASSUME NEW s1 \in Seq(Byte), NEW s2 \in Seq(Byte),
         NEW m \in Nat, Len(s1) = m, NEW k \in Nat, Len(s2) = k
  PROVE  /\ s1 \o s2 \in Seq(Byte) /\ Len(s1 \o s2) = m + k
         /\ \A i \in 1 .. m + k :
              (s1 \o s2)[i] = IF i <= m THEN s1[i] ELSE s2[i - m]
BY ConcatProperties

(***************************************************************************)
(* A line as HostBeginsLine writes it is Nth, position by position.        *)
(***************************************************************************)
LEMMA NewLine ==
  ASSUME NEW n \in Nat, NEW length \in Nat, NEW cr \in BOOLEAN
  PROVE  /\ Payload(n, length) \o Terminator(n, length, cr) \in Seq(Byte)
         /\ Len(Payload(n, length) \o Terminator(n, length, cr))
              = LineSize(length, cr)
         /\ \A i \in 1 .. LineSize(length, cr) :
              (Payload(n, length) \o Terminator(n, length, cr))[i]
                = ByteAt(n, length, LineSize(length, cr), i)
<1>1. /\ Payload(n, length) \in Seq(Byte) /\ Len(Payload(n, length)) = length
      /\ \A i \in 1 .. length :
           Payload(n, length)[i]
             = [line |-> n, position |-> i, kind |-> "data"]
  <2>1. Payload(n, length) \in [1 .. length -> Byte]
    BY DEF Payload, Byte, ByteKind
  <2>2. Payload(n, length) \in Seq(Byte) /\ Len(Payload(n, length)) = length
    BY <2>1, FunctionIsSequence
  <2>3. QED
    BY <2>2 DEF Payload
<1>2. CASE cr = TRUE
  <2> DEFINE c == [line |-> n, position |-> length + 1, kind |-> "cr"]
             l == [line |-> n, position |-> length + 2, kind |-> "lf"]
  <2>1. Terminator(n, length, cr) = <<c, l>>
    BY <1>2 DEF Terminator
  <2>2. c \in Byte /\ l \in Byte
    BY DEF Byte, ByteKind
  <2>3. <<c, l>> \in Seq(Byte) /\ Len(<<c, l>>) = 2
        /\ <<c, l>>[1] = c /\ <<c, l>>[2] = l
    BY <2>2
  <2> HIDE DEF c, l
  <2>4. /\ Payload(n, length) \o <<c, l>> \in Seq(Byte)
        /\ Len(Payload(n, length) \o <<c, l>>) = length + 2
        /\ \A i \in 1 .. length + 2 :
             (Payload(n, length) \o <<c, l>>)[i]
               = IF i <= length THEN Payload(n, length)[i]
                 ELSE <<c, l>>[i - length]
    BY <1>1, <2>3, ConcatIs
  <2>5. ASSUME NEW i \in 1 .. length + 2
        PROVE  (Payload(n, length) \o <<c, l>>)[i]
                 = ByteAt(n, length, length + 2, i)
    <3>1. CASE i <= length
      BY <1>1, <2>4, <3>1 DEF ByteAt
    <3>2. CASE i = length + 1
      BY <2>3, <2>4, <3>2 DEF c, ByteAt
    <3>3. CASE i = length + 2
      <4>1. ~(i <= length) /\ i - length = 2 /\ i # length + 1
        BY <3>3
      <4>2. (Payload(n, length) \o <<c, l>>)[i] = l
        BY <2>3, <2>4, <2>5, <4>1
      <4>3. QED
        BY <3>3, <4>1, <4>2 DEF l, ByteAt
    <3>4. i <= length \/ i = length + 1 \/ i = length + 2
      OBVIOUS
    <3>5. QED
      BY <3>1, <3>2, <3>3, <3>4, Zenon
  <2>6. LineSize(length, cr) = length + 2
    BY <1>2 DEF LineSize
  <2>7. QED
    BY <2>1, <2>4, <2>5, <2>6, Zenon
<1>3. CASE cr = FALSE
  <2> DEFINE l == [line |-> n, position |-> length + 1, kind |-> "lf"]
  <2>1. Terminator(n, length, cr) = <<l>>
    BY <1>3 DEF Terminator
  <2>2. l \in Byte
    BY DEF Byte, ByteKind
  <2>3. <<l>> \in Seq(Byte) /\ Len(<<l>>) = 1 /\ <<l>>[1] = l
    BY <2>2
  <2> HIDE DEF l
  <2>4. /\ Payload(n, length) \o <<l>> \in Seq(Byte)
        /\ Len(Payload(n, length) \o <<l>>) = length + 1
        /\ \A i \in 1 .. length + 1 :
             (Payload(n, length) \o <<l>>)[i]
               = IF i <= length THEN Payload(n, length)[i]
                 ELSE <<l>>[i - length]
    BY <1>1, <2>3, ConcatIs
  <2>5. ASSUME NEW i \in 1 .. length + 1
        PROVE  (Payload(n, length) \o <<l>>)[i]
                 = ByteAt(n, length, length + 1, i)
    <3>1. CASE i <= length
      BY <1>1, <2>4, <3>1 DEF ByteAt
    <3>2. CASE i = length + 1
      BY <2>3, <2>4, <3>2 DEF l, ByteAt
    <3>3. i <= length \/ i = length + 1
      OBVIOUS
    <3>4. QED
      BY <3>1, <3>2, <3>3, Zenon
  <2>6. LineSize(length, cr) = length + 1
    BY <1>3 DEF LineSize
  <2>7. QED
    BY <2>1, <2>4, <2>5, <2>6, Zenon
<1>4. QED
  BY <1>2, <1>3
-----------------------------------------------------------------------------
(***************************************************************************)
(* Type correctness: the state never leaves the types of TypeOK; the       *)
(* ring's indices stay inside the array of the code.                       *)
(***************************************************************************)
LEMMA InitTypeOK == Init => TypeOK
<1> SUFFICES ASSUME Init PROVE TypeOK
  OBVIOUS
<1>1. 0 \in Slot
  BY ReceiveConstants DEF Slot
<1>2. UnwrittenByte \in Byte
  BY DEF UnwrittenByte, Byte, ByteKind
<1>3. InitialFramer \in Framer
  BY DEF InitialFramer, Framer
<1>4. QED
  BY <1>1, <1>2, <1>3 DEF Init, TypeOK

LEMMA HostBeginsLineType == TypeOK /\ HostBeginsLine => TypeOK'
<1> SUFFICES ASSUME TypeOK, HostBeginsLine PROVE TypeOK'
  OBVIOUS
<1>1. PICK length \in HostLengths, cr \in BOOLEAN :
        /\ sent' = Append(sent, <<length, cr>>)
        /\ host_rest' = Payload(Len(sent) + 1, length)
                           \o Terminator(Len(sent) + 1, length, cr)
  BY DEF HostBeginsLine
<1>2. length \in Nat
  BY ReceiveConstants
<1>3. sent \in Seq(Nat \X BOOLEAN) /\ Len(sent) + 1 \in Nat
  BY LenProperties DEF TypeOK
<1>4. host_rest' \in Seq(Byte)
  BY <1>1, <1>2, <1>3, NewLine
<1>5. sent' \in Seq(Nat \X BOOLEAN)
  BY <1>1, <1>2, <1>3
<1>6. QED
  BY <1>4, <1>5 DEF HostBeginsLine, TypeOK, ringVars, lineVars

LEMMA CdcReceiveType == TypeOK /\ CdcReceive => TypeOK'
<1> SUFFICES ASSUME TypeOK, CdcReceive PROVE TypeOK'
  OBVIOUS
<1>1. Head(host_rest) \in Byte /\ host_rest' \in Seq(Byte)
  BY HeadTailProperties DEF CdcReceive, TypeOK
<1>2. CASE DropByte(Head(host_rest))
  BY <1>1, <1>2 DEF DropByte, CdcReceive, TypeOK, ringVars, lineVars
<1>3. CASE StoreByte(Head(host_rest))
  <2>1. raw_receive_head' \in Slot
    BY <1>3, SuccessorInSlot DEF StoreByte, TypeOK
  <2>2. raw_receive_buffer' \in [Slot -> Byte]
    BY <1>1, <1>3 DEF StoreByte, TypeOK
  <2>3. QED
    BY <1>1, <1>3, <2>1, <2>2 DEF StoreByte, CdcReceive, TypeOK, lineVars
<1>4. QED
  BY <1>2, <1>3 DEF CdcReceive

LEMMA QueueCompletedLineType ==
  ASSUME TypeOK, NEW line \in Seq(Byte), QueueCompletedLine(line)
  PROVE  /\ received_lines' \in Seq(Seq(Byte))
         /\ completed_lines_dropped' \in Nat
<1>1. received_lines \in Seq(Seq(Byte)) /\ completed_lines_dropped \in Nat
  BY DEF TypeOK
<1>2. Append(received_lines, line) \in Seq(Seq(Byte))
  BY <1>1, AppendProperties
<1>3. CASE /\ completed_lines_dropped' = completed_lines_dropped + 1
           /\ UNCHANGED received_lines
  BY <1>1, <1>3
<1>4. CASE /\ received_lines' = Append(received_lines, line)
           /\ UNCHANGED completed_lines_dropped
  BY <1>1, <1>2, <1>4
<1>5. QED
  BY <1>3, <1>4 DEF QueueCompletedLine

LEMMA ReceiveByteType == TypeOK /\ ReceiveByte => TypeOK'
<1> SUFFICES ASSUME TypeOK, ReceiveByte PROVE TypeOK'
  OBVIOUS
<1> DEFINE byte == raw_receive_buffer[raw_receive_tail]
           framer == FramerAfterPop(receive_overflow_pending)
<1>1. byte \in Byte /\ framer \in Framer
  BY DiscardType DEF TypeOK, FramerAfterPop
<1>2. receive_framer' \in Framer
  <2>1. receive_framer' = Consume(framer, byte)
    BY DEF ReceiveByte, TakeOverflow
  <2>2. QED
    BY <1>1, <2>1, ConsumeType
<1>3. raw_receive_tail' \in Slot
  BY SuccessorInSlot DEF ReceiveByte, TypeOK
<1>4. received_lines' \in Seq(Seq(Byte)) /\ completed_lines_dropped' \in Nat
  <2>1. CASE CompletesLine(framer, byte)
    <3>1. QueueCompletedLine(CompletedLine(framer))
      BY <2>1 DEF ReceiveByte, TakeOverflow
    <3>2. CompletedLine(framer) \in Seq(Byte)
      BY <1>1, CompletedLineType
    <3>3. QED
      BY <3>1, <3>2, QueueCompletedLineType
  <2>2. CASE ~CompletesLine(framer, byte)
    BY <2>2 DEF ReceiveByte, TypeOK
  <2>3. QED
    BY <2>1, <2>2
<1>5. QED
  BY <1>2, <1>3, <1>4 DEF ReceiveByte, TakeOverflow, TypeOK, hostVars

LEMMA OtherStepsType ==
  TypeOK /\ (ReceiveNothing \/ ReadLine \/ SessionDone \/ UNCHANGED vars)
    => TypeOK'
<1> SUFFICES ASSUME TypeOK PROVE
      (ReceiveNothing \/ ReadLine \/ SessionDone \/ UNCHANGED vars) => TypeOK'
  OBVIOUS
<1>1. CASE ReceiveNothing
  <2>1. receive_framer' \in Framer
    BY <1>1, DiscardType DEF ReceiveNothing, FramerAfterPop, TypeOK
  <2>2. QED
    BY <1>1, <2>1 DEF ReceiveNothing, TakeOverflow, TypeOK, ringVars, hostVars
<1>2. CASE ReadLine
  <2>1. /\ Head(received_lines) \in Seq(Byte)
        /\ Tail(received_lines) \in Seq(Seq(Byte))
    BY <1>2, HeadTailProperties DEF ReadLine, TypeOK
  <2>2. QED
    BY <1>2, <2>1 DEF ReadLine, TypeOK, ringVars, hostVars
<1>3. CASE SessionDone
  BY <1>3 DEF SessionDone, TypeOK, ringVars, lineVars, hostVars
<1>4. CASE UNCHANGED vars
  BY <1>4 DEF vars, TypeOK, ringVars, lineVars, hostVars
<1>5. QED
  BY <1>1, <1>2, <1>3, <1>4

THEOREM TypeCorrect == Spec => []TypeOK
<1>1. TypeOK /\ [Next]_vars => TypeOK'
  BY HostBeginsLineType, CdcReceiveType, ReceiveByteType, OtherStepsType
     DEF Next, MainLoop
<1>2. QED
  BY InitTypeOK, <1>1, PTL DEF Spec
-----------------------------------------------------------------------------
(***************************************************************************)
(* The overflow flag comes out with the oldest byte of a full ring: at any *)
(* time between the drop and the next pop the ring is full.  Inductive     *)
(* together with TypeOK: only StoreByte and the two pops move an index,    *)
(* StoreByte is impossible in a full ring, and both pops clear the flag.   *)
(***************************************************************************)
LEMMA PendingMeansFullStep ==
  TypeOK /\ PendingMeansFull /\ [Next]_vars => PendingMeansFull'
<1> SUFFICES ASSUME TypeOK, PendingMeansFull, [Next]_vars
             PROVE  PendingMeansFull'
  OBVIOUS
<1>1. CASE HostBeginsLine
  BY <1>1 DEF HostBeginsLine, ringVars, PendingMeansFull, RingFull
<1>2. CASE CdcReceive
  <2>1. CASE DropByte(Head(host_rest))
    BY <2>1 DEF DropByte, ringVars, PendingMeansFull, RingFull
  <2>2. CASE StoreByte(Head(host_rest))
    BY <2>2 DEF StoreByte, PendingMeansFull
  <2>3. QED
    BY <1>2, <2>1, <2>2 DEF CdcReceive
<1>3. CASE ReceiveByte
  BY <1>3 DEF ReceiveByte, TakeOverflow, PendingMeansFull
<1>4. CASE ReceiveNothing
  BY <1>4 DEF ReceiveNothing, TakeOverflow, PendingMeansFull
<1>5. CASE ReadLine
  BY <1>5 DEF ReadLine, ringVars, PendingMeansFull, RingFull
<1>6. CASE SessionDone
  BY <1>6 DEF SessionDone, ringVars, PendingMeansFull, RingFull
<1>7. CASE UNCHANGED vars
  BY <1>7 DEF vars, ringVars, PendingMeansFull, RingFull
<1>8. QED
  BY <1>1, <1>2, <1>3, <1>4, <1>5, <1>6, <1>7 DEF Next, MainLoop

THEOREM OverflowReportedAtFullRing == Spec => []PendingMeansFull
<1>1. Init => PendingMeansFull
  BY DEF Init, PendingMeansFull
<1>2. QED
  BY <1>1, TypeCorrect, PendingMeansFullStep, PTL DEF Spec

(***************************************************************************)
(* The turn that ends process_received_bytes never has an overflow to      *)
(* handle: the discard after its loop is dead code.                        *)
(***************************************************************************)
THEOREM NoOverflowAtEmptyRing ==
  Spec => [](RingEmpty => ~receive_overflow_pending)
<1>1. TypeOK /\ PendingMeansFull => (RingEmpty => ~receive_overflow_pending)
  <2> SUFFICES ASSUME TypeOK, PendingMeansFull, RingEmpty,
                      receive_overflow_pending
               PROVE  FALSE
    OBVIOUS
  <2>1. Successor(raw_receive_head) = raw_receive_head
    BY DEF PendingMeansFull, RingFull, RingEmpty
  <2>2. QED
    BY <2>1, SuccessorMoves DEF TypeOK
<1>2. QED
  BY <1>1, TypeCorrect, OverflowReportedAtFullRing, PTL
-----------------------------------------------------------------------------
(***************************************************************************)
(* The ring as a sequence: storing a byte appends it, a pop takes the      *)
(* first one, wherever the indices wrap.                                   *)
(***************************************************************************)
LEMMA Wraps ==
  ASSUME NEW x \in Int, -RingCapacity <= x, x < RingCapacity + RingCapacity
  PROVE  x % RingCapacity = IF x < 0 THEN x + RingCapacity
                            ELSE IF x < RingCapacity THEN x
                            ELSE x - RingCapacity
BY ReceiveConstants

LEMMA CountOf ==
  ASSUME NEW head \in 0 .. RingCapacity - 1, NEW tail \in 0 .. RingCapacity - 1
  PROVE  /\ (head - tail) % RingCapacity \in 0 .. RingCapacity - 1
         /\ (head - tail) % RingCapacity
              = IF tail <= head THEN head - tail
                ELSE head - tail + RingCapacity
<1>1. /\ head - tail \in Int /\ -RingCapacity <= head - tail
      /\ head - tail < RingCapacity
  BY ReceiveConstants
<1>2. (head - tail) % RingCapacity
        = IF head - tail < 0 THEN head - tail + RingCapacity ELSE head - tail
  BY <1>1, Wraps, ReceiveConstants
<1>3. QED
  BY <1>1, <1>2, ReceiveConstants

LEMMA SlotOf ==
  ASSUME NEW tail \in 0 .. RingCapacity - 1, NEW i \in 1 .. RingCapacity
  PROVE  /\ (tail + i - 1) % RingCapacity \in 0 .. RingCapacity - 1
         /\ (tail + i - 1) % RingCapacity
              = IF tail + i - 1 < RingCapacity THEN tail + i - 1
                ELSE tail + i - 1 - RingCapacity
<1>1. /\ tail + i - 1 \in Int /\ 0 <= tail + i - 1
      /\ tail + i - 1 < RingCapacity + RingCapacity
  BY ReceiveConstants
<1>2. (tail + i - 1) % RingCapacity
        = IF tail + i - 1 < RingCapacity THEN tail + i - 1
          ELSE tail + i - 1 - RingCapacity
  BY <1>1, Wraps, ReceiveConstants
<1>3. QED
  BY <1>1, <1>2, ReceiveConstants

LEMMA NextSlot ==
  ASSUME NEW i \in 0 .. RingCapacity - 1
  PROVE  Successor(i) = IF i + 1 < RingCapacity THEN i + 1 ELSE 0
<1>1. i + 1 \in Int /\ 0 <= i + 1 /\ i + 1 < RingCapacity + RingCapacity
  BY ReceiveConstants
<1>2. (i + 1) % RingCapacity
        = IF i + 1 < RingCapacity THEN i + 1 ELSE i + 1 - RingCapacity
  BY <1>1, Wraps, ReceiveConstants
<1>3. QED
  BY <1>2, ReceiveConstants DEF Successor

LEMMA IndicesInSlots ==
  ASSUME TypeOK
  PROVE  /\ raw_receive_head \in 0 .. RingCapacity - 1
         /\ raw_receive_tail \in 0 .. RingCapacity - 1
BY DEF TypeOK, Slot

LEMMA RingBytesIs ==
  ASSUME TypeOK
  PROVE  /\ RingBytes \in Seq(Byte)
         /\ Len(RingBytes) = RingCount
         /\ \A i \in 1 .. RingCount :
              RingBytes[i]
                = raw_receive_buffer[(raw_receive_tail + i - 1) % RingCapacity]
<1>1. RingCount \in Nat /\ RingCount < RingCapacity
  BY CountOf, IndicesInSlots, ReceiveConstants DEF RingCount
<1>2. \A i \in 1 .. RingCount :
        raw_receive_buffer[(raw_receive_tail + i - 1) % RingCapacity] \in Byte
  BY <1>1, SlotOf, IndicesInSlots, ReceiveConstants DEF TypeOK, Slot
<1>3. RingBytes \in [1 .. RingCount -> Byte]
  BY <1>2, Zenon DEF RingBytes
<1>4. QED
  BY <1>1, <1>3, FunctionIsSequence DEF RingBytes

LEMMA StoreAppends ==
  ASSUME TypeOK, NEW byte \in Byte, StoreByte(byte), TypeOK'
  PROVE  RingBytes' = Append(RingBytes, byte)
<1> DEFINE head == raw_receive_head
           tail == raw_receive_tail
<1>1. /\ head \in 0 .. RingCapacity - 1 /\ tail \in 0 .. RingCapacity - 1
      /\ head' \in 0 .. RingCapacity - 1 /\ tail' = tail
  BY DEF TypeOK, Slot, StoreByte
<1>2. head' = IF head + 1 < RingCapacity THEN head + 1 ELSE 0
  BY <1>1, NextSlot DEF StoreByte
<1>3. head' # tail
  BY DEF StoreByte, RingFull
<1>4. RingCount' = IF tail <= head' THEN head' - tail
                   ELSE head' - tail + RingCapacity
  BY <1>1, CountOf DEF RingCount
<1>5. /\ RingCount = IF tail <= head THEN head - tail
                     ELSE head - tail + RingCapacity
      /\ RingCount' = RingCount + 1 /\ RingCount + 1 <= RingCapacity - 1
  <2>1. RingCount = IF tail <= head THEN head - tail
                    ELSE head - tail + RingCapacity
    BY <1>1, CountOf DEF RingCount
  <2>2. QED
    BY <2>1, <1>1, <1>2, <1>3, <1>4, ReceiveConstants
<1>6. RingCount \in Nat
  BY <1>1, <1>5, ReceiveConstants
<1>7. ASSUME NEW i \in 1 .. RingCount
      PROVE  /\ (tail + i - 1) % RingCapacity \in Slot
             /\ (tail + i - 1) % RingCapacity # head
  <2>1. i \in 1 .. RingCapacity
    BY <1>5, <1>6, ReceiveConstants
  <2>2. QED
    BY <2>1, <1>1, <1>5, SlotOf, ReceiveConstants DEF Slot
<1>8. (tail + (RingCount + 1) - 1) % RingCapacity = head
  <2>1. RingCount + 1 \in 1 .. RingCapacity
    BY <1>5, <1>6, ReceiveConstants
  <2>2. QED
    BY <2>1, <1>1, <1>5, SlotOf, ReceiveConstants
<1>9. /\ raw_receive_buffer \in [Slot -> Byte] /\ head \in Slot
      /\ raw_receive_buffer' = [raw_receive_buffer EXCEPT ![head] = byte]
  BY DEF TypeOK, StoreByte
<1>10. RingBytes' = [i \in 1 .. RingCount + 1 |->
                       raw_receive_buffer'[(tail + i - 1) % RingCapacity]]
  BY <1>1, <1>5 DEF RingBytes
<1>11. RingBytes \in Seq(Byte) /\ Len(RingBytes) = RingCount
  BY RingBytesIs
<1>12. ASSUME NEW i \in 1 .. RingCount + 1
       PROVE  raw_receive_buffer'[(tail + i - 1) % RingCapacity]
                = IF i <= RingCount THEN RingBytes[i] ELSE byte
  <2>1. CASE i <= RingCount
    <3>1. i \in 1 .. RingCount
      BY <2>1, <1>6
    <3>2. raw_receive_buffer'[(tail + i - 1) % RingCapacity]
            = raw_receive_buffer[(tail + i - 1) % RingCapacity]
      BY <3>1, <1>7, <1>9
    <3>3. QED
      BY <2>1, <3>1, <3>2, RingBytesIs
  <2>2. CASE i = RingCount + 1
    BY <2>2, <1>6, <1>8, <1>9
  <2>3. QED
    BY <2>1, <2>2, <1>6
<1>13. /\ RingBytes' \in Seq(Byte) /\ Len(RingBytes') = RingCount + 1
       /\ \A i \in 1 .. RingCount + 1 :
            RingBytes'[i] = IF i <= RingCount THEN RingBytes[i] ELSE byte
  <2>1. \A i \in 1 .. RingCount : RingBytes[i] \in Byte
    BY <1>11, ElementOfSeq
  <2>2. \A i \in 1 .. RingCount + 1 :
          raw_receive_buffer'[(tail + i - 1) % RingCapacity] \in Byte
    BY <2>1, <1>6, <1>12
  <2>3. RingBytes' \in [1 .. RingCount + 1 -> Byte]
    BY <2>2, <1>10, Zenon
  <2>4. RingCount + 1 \in Nat
    BY <1>6
  <2>5. QED
    BY <2>3, <2>4, <1>10, <1>12, FunctionIsSequence
<1>14. /\ Append(RingBytes, byte) \in Seq(Byte)
       /\ Len(Append(RingBytes, byte)) = RingCount + 1
       /\ \A i \in 1 .. RingCount + 1 :
            Append(RingBytes, byte)[i]
              = IF i <= RingCount THEN RingBytes[i] ELSE byte
  BY <1>6, <1>11, AppendProperties
<1>15. QED
  BY <1>13, <1>14, SeqEqual

LEMMA PopTakesFirst ==
  ASSUME TypeOK, TypeOK', ~RingEmpty,
         raw_receive_tail' = Successor(raw_receive_tail),
         UNCHANGED <<raw_receive_buffer, raw_receive_head>>
  PROVE  /\ RingBytes # << >>
         /\ Head(RingBytes) = raw_receive_buffer[raw_receive_tail]
         /\ RingBytes' = Tail(RingBytes)
<1> DEFINE head == raw_receive_head
           tail == raw_receive_tail
<1>1. /\ head \in 0 .. RingCapacity - 1 /\ tail \in 0 .. RingCapacity - 1
      /\ tail' \in 0 .. RingCapacity - 1 /\ head' = head /\ head # tail
  BY DEF TypeOK, Slot, RingEmpty
<1>2. tail' = IF tail + 1 < RingCapacity THEN tail + 1 ELSE 0
  BY <1>1, NextSlot
<1>3. RingCount' = IF tail' <= head THEN head - tail'
                   ELSE head - tail' + RingCapacity
  BY <1>1, CountOf DEF RingCount
<1>4. /\ RingCount \in 1 .. RingCapacity - 1
      /\ RingCount' = RingCount - 1
  <2>1. RingCount = IF tail <= head THEN head - tail
                    ELSE head - tail + RingCapacity
    BY <1>1, CountOf DEF RingCount
  <2>2. QED
    BY <2>1, <1>1, <1>2, <1>3, ReceiveConstants
<1>5. RingBytes # << >> /\ Len(RingBytes) = RingCount /\ RingBytes \in Seq(Byte)
  BY <1>4, RingBytesIs, EmptySeq
<1>6. Head(RingBytes) = raw_receive_buffer[tail]
  <2>1. 1 \in 1 .. RingCapacity /\ 1 \in 1 .. RingCount
    BY <1>4, ReceiveConstants
  <2>2. (tail + 1 - 1) % RingCapacity = tail
    BY <2>1, <1>1, SlotOf, ReceiveConstants
  <2>3. Head(RingBytes) = RingBytes[1]
    BY <1>5, HeadTailProperties
  <2>4. QED
    BY <2>1, <2>2, <2>3, RingBytesIs
<1>7. RingBytes' = [i \in 1 .. RingCount - 1 |->
                      raw_receive_buffer[(tail' + i - 1) % RingCapacity]]
  BY <1>4 DEF RingBytes
<1>8. /\ Tail(RingBytes) \in Seq(Byte)
      /\ Len(Tail(RingBytes)) = RingCount - 1
      /\ \A i \in 1 .. RingCount - 1 : Tail(RingBytes)[i] = RingBytes[i + 1]
  BY <1>5, HeadTailProperties
<1>9. ASSUME NEW i \in 1 .. RingCount - 1
      PROVE  raw_receive_buffer[(tail' + i - 1) % RingCapacity]
               = RingBytes[i + 1]
  <2>1. i + 1 \in 1 .. RingCount /\ i + 1 \in 1 .. RingCapacity
    BY <1>4, ReceiveConstants
  <2>2. (tail' + i - 1) % RingCapacity
          = IF tail' + i - 1 < RingCapacity THEN tail' + i - 1
            ELSE tail' + i - 1 - RingCapacity
    <3>1. i \in 1 .. RingCapacity
      BY <1>4, ReceiveConstants
    <3>2. QED
      BY <3>1, <1>1, SlotOf
  <2>3. (tail + (i + 1) - 1) % RingCapacity
          = IF tail + (i + 1) - 1 < RingCapacity THEN tail + (i + 1) - 1
            ELSE tail + (i + 1) - 1 - RingCapacity
    BY <2>1, <1>1, SlotOf
  <2>4. (tail' + i - 1) % RingCapacity = (tail + (i + 1) - 1) % RingCapacity
    BY <2>2, <2>3, <1>1, <1>2, <1>4, ReceiveConstants
  <2>5. QED
    BY <2>1, <2>4, RingBytesIs
<1>10. /\ RingBytes' \in Seq(Byte) /\ Len(RingBytes') = RingCount - 1
       /\ \A i \in 1 .. RingCount - 1 : RingBytes'[i] = RingBytes[i + 1]
  <2>1. \A i \in 1 .. RingCount - 1 : RingBytes[i + 1] \in Byte
    BY <1>4, <1>5, ElementOfSeq
  <2>2. \A i \in 1 .. RingCount - 1 :
          raw_receive_buffer[(tail' + i - 1) % RingCapacity] \in Byte
    BY <2>1, <1>9
  <2>3. RingBytes' \in [1 .. RingCount - 1 -> Byte]
    BY <2>2, <1>7, Zenon
  <2>4. RingCount - 1 \in Nat
    BY <1>4
  <2>5. QED
    BY <2>3, <2>4, <1>7, <1>9, FunctionIsSequence
<1>11. RingBytes' = Tail(RingBytes)
  BY <1>8, <1>10, SeqEqual
<1>12. QED
  BY <1>5, <1>6, <1>11
-----------------------------------------------------------------------------
(***************************************************************************)
(* Sequences of bytes in the order of the host.                            *)
(***************************************************************************)
Sorted(s) == \A i, j \in DOMAIN s : i < j => Precedes(s[i], s[j])
Before(A, B) == \A a \in A, b \in B : Precedes(a, b)

LEMMA PrecedesIsOrder ==
  /\ \A a \in Byte : ~Precedes(a, a)
  /\ \A a, b, c \in Byte : Precedes(a, b) /\ Precedes(b, c) => Precedes(a, c)
BY DEF Precedes, Byte

LEMMA InToSet ==
  ASSUME NEW S, NEW s \in Seq(S)
  PROVE  \A x : x \in ToSet(s) <=> \E i \in 1 .. Len(s) : s[i] = x
BY LenProperties DEF ToSet

LEMMA ToSetOfEmpty == ToSet(<< >>) = {}
BY DEF ToSet

LEMMA ToSetType ==
  ASSUME NEW S, NEW s \in Seq(S)
  PROVE  ToSet(s) \subseteq S
BY InToSet, ElementOfSeq

LEMMA ToSetAppend ==
  ASSUME NEW S, NEW s \in Seq(S), NEW e \in S
  PROVE  ToSet(Append(s, e)) = ToSet(s) \cup {e}
<1>1. /\ Append(s, e) \in Seq(S) /\ Len(Append(s, e)) = Len(s) + 1
      /\ \A i \in 1 .. Len(s) : Append(s, e)[i] = s[i]
      /\ Append(s, e)[Len(s) + 1] = e /\ Len(s) \in Nat
  BY AppendProperties, LenProperties
<1>2. \A x : x \in ToSet(Append(s, e)) <=>
               \E i \in 1 .. Len(s) + 1 : Append(s, e)[i] = x
  <2>1. \A x : x \in ToSet(Append(s, e)) <=>
                 \E i \in 1 .. Len(Append(s, e)) : Append(s, e)[i] = x
    BY <1>1, InToSet, Zenon
  <2>2. QED
    BY <1>1, <2>1, Zenon
<1>3. \A x : x \in ToSet(s) <=> \E i \in 1 .. Len(s) : s[i] = x
  BY InToSet
<1>4. ASSUME NEW x \in ToSet(Append(s, e)) PROVE x \in ToSet(s) \cup {e}
  <2>1. PICK i \in 1 .. Len(s) + 1 : Append(s, e)[i] = x
    BY <1>2, <1>4
  <2>2. CASE i = Len(s) + 1
    BY <1>1, <2>1, <2>2
  <2>3. CASE i \in 1 .. Len(s)
    BY <1>1, <1>3, <2>1, <2>3
  <2>4. QED
    BY <1>1, <2>1, <2>2, <2>3
<1>5. ASSUME NEW x \in ToSet(s) \cup {e} PROVE x \in ToSet(Append(s, e))
  <2>1. CASE x = e
    <3>1. Len(s) + 1 \in 1 .. Len(s) + 1
      BY <1>1
    <3>2. QED
      BY <1>1, <1>2, <2>1, <3>1
  <2>2. CASE x \in ToSet(s)
    <3>1. PICK i \in 1 .. Len(s) : s[i] = x
      BY <1>3, <2>2
    <3>2. i \in 1 .. Len(s) + 1 /\ Append(s, e)[i] = x
      BY <1>1, <3>1
    <3>3. QED
      BY <1>2, <3>2
  <2>3. QED
    BY <1>5, <2>1, <2>2
<1>6. QED
  BY <1>4, <1>5

LEMMA HeadAndTail ==
  ASSUME NEW S, NEW s \in Seq(S), s # << >>
  PROVE  /\ Head(s) = s[1] /\ Head(s) \in S
         /\ Tail(s) \in Seq(S) /\ Len(Tail(s)) = Len(s) - 1
         /\ Len(s) \in Nat /\ Len(s) >= 1
         /\ \A i \in 1 .. Len(s) - 1 : Tail(s)[i] = s[i + 1]
BY HeadTailProperties, EmptySeq, LenProperties

LEMMA ToSetTail ==
  ASSUME NEW S, NEW s \in Seq(S), s # << >>
  PROVE  ToSet(s) = {Head(s)} \cup ToSet(Tail(s))
<1>1. /\ Head(s) = s[1] /\ Tail(s) \in Seq(S) /\ Len(Tail(s)) = Len(s) - 1
      /\ Len(s) \in Nat /\ Len(s) >= 1
      /\ \A i \in 1 .. Len(s) - 1 : Tail(s)[i] = s[i + 1]
  BY HeadAndTail
<1>2. \A x : x \in ToSet(Tail(s)) <=> \E i \in 1 .. Len(s) - 1 : Tail(s)[i] = x
  <2>1. \A x : x \in ToSet(Tail(s)) <=>
                 \E i \in 1 .. Len(Tail(s)) : Tail(s)[i] = x
    BY <1>1, InToSet, Zenon
  <2>2. QED
    BY <1>1, <2>1, Zenon
<1>3. \A x : x \in ToSet(s) <=> \E i \in 1 .. Len(s) : s[i] = x
  BY InToSet
<1>4. ASSUME NEW x \in ToSet(s) PROVE x \in {Head(s)} \cup ToSet(Tail(s))
  <2>1. PICK i \in 1 .. Len(s) : s[i] = x
    BY <1>3, <1>4
  <2>2. CASE i = 1
    BY <1>1, <2>1, <2>2
  <2>3. CASE i # 1
    <3>1. i - 1 \in 1 .. Len(s) - 1 /\ (i - 1) + 1 = i
      BY <1>1, <2>1, <2>3
    <3>2. Tail(s)[i - 1] = x
      BY <1>1, <2>1, <3>1
    <3>3. QED
      BY <1>2, <3>1, <3>2
  <2>4. QED
    BY <2>2, <2>3
<1>5. ASSUME NEW x \in {Head(s)} \cup ToSet(Tail(s)) PROVE x \in ToSet(s)
  <2>1. CASE x = Head(s)
    BY <1>1, <1>3, <2>1
  <2>2. CASE x \in ToSet(Tail(s))
    <3>1. PICK i \in 1 .. Len(s) - 1 : Tail(s)[i] = x
      BY <1>2, <2>2
    <3>2. i + 1 \in 1 .. Len(s) /\ s[i + 1] = x
      BY <1>1, <3>1
    <3>3. QED
      BY <1>3, <3>2
  <2>3. QED
    BY <1>5, <2>1, <2>2
<1>6. QED
  BY <1>4, <1>5

LEMMA SortedEmpty == Sorted(<< >>)
BY DEF Sorted

LEMMA SortedAppend ==
  ASSUME NEW s \in Seq(Byte), NEW e \in Byte, Sorted(s),
         \A x \in ToSet(s) : Precedes(x, e)
  PROVE  Sorted(Append(s, e))
<1>1. /\ Append(s, e) \in Seq(Byte) /\ DOMAIN Append(s, e) = 1 .. Len(s) + 1
      /\ \A i \in 1 .. Len(s) : Append(s, e)[i] = s[i]
      /\ Append(s, e)[Len(s) + 1] = e
      /\ Len(s) \in Nat /\ DOMAIN s = 1 .. Len(s)
  BY AppendProperties, LenProperties
<1>2. SUFFICES ASSUME NEW i \in 1 .. Len(s) + 1, NEW j \in 1 .. Len(s) + 1,
                      i < j
               PROVE  Precedes(Append(s, e)[i], Append(s, e)[j])
  BY <1>1 DEF Sorted
<1>3. i \in 1 .. Len(s) /\ Append(s, e)[i] = s[i]
  BY <1>1, <1>2
<1>4. CASE j = Len(s) + 1
  <2>1. s[i] \in ToSet(s)
    BY <1>3, InToSet
  <2>2. QED
    BY <1>1, <1>3, <1>4, <2>1
<1>5. CASE j \in 1 .. Len(s)
  BY <1>1, <1>2, <1>3, <1>5 DEF Sorted
<1>6. QED
  BY <1>1, <1>4, <1>5

LEMMA SortedTail ==
  ASSUME NEW s \in Seq(Byte), s # << >>, Sorted(s)
  PROVE  /\ Sorted(Tail(s))
         /\ \A x \in ToSet(Tail(s)) : Precedes(Head(s), x)
<1>1. /\ Head(s) = s[1] /\ Tail(s) \in Seq(Byte)
      /\ DOMAIN Tail(s) = 1 .. Len(s) - 1 /\ Len(Tail(s)) = Len(s) - 1
      /\ Len(s) \in Nat /\ Len(s) >= 1 /\ DOMAIN s = 1 .. Len(s)
      /\ \A i \in 1 .. Len(s) - 1 : Tail(s)[i] = s[i + 1]
  BY HeadAndTail, LenProperties
<1>2. Sorted(Tail(s))
  <2>1. SUFFICES ASSUME NEW i \in 1 .. Len(s) - 1, NEW j \in 1 .. Len(s) - 1,
                        i < j
                 PROVE  Precedes(Tail(s)[i], Tail(s)[j])
    BY <1>1 DEF Sorted
  <2>2. i + 1 \in DOMAIN s /\ j + 1 \in DOMAIN s /\ i + 1 < j + 1
    BY <1>1, <2>1
  <2>3. QED
    BY <1>1, <2>1, <2>2 DEF Sorted
<1>3. ASSUME NEW x \in ToSet(Tail(s)) PROVE Precedes(Head(s), x)
  <2>1. PICK i \in 1 .. Len(s) - 1 : Tail(s)[i] = x
    <3>1. \E i \in 1 .. Len(Tail(s)) : Tail(s)[i] = x
      <4>1. Tail(s) \in Seq(Byte) /\ x \in ToSet(Tail(s))
        BY <1>1, <1>3
      <4>2. QED
        BY <4>1, InToSet, Zenon
    <3>2. QED
      BY <1>1, <3>1
  <2>2. 1 \in DOMAIN s /\ i + 1 \in DOMAIN s /\ 1 < i + 1
    BY <1>1, <2>1
  <2>3. QED
    BY <1>1, <2>1, <2>2 DEF Sorted
<1>4. QED
  BY <1>2, <1>3

LEMMA SortedCompletedLine ==
  ASSUME NEW framer \in Framer, Sorted(framer.line)
  PROVE  /\ Sorted(CompletedLine(framer))
         /\ ToSet(CompletedLine(framer)) \subseteq ToSet(framer.line)
<1> DEFINE s == framer.line
<1>1. s \in Seq(Byte) /\ Len(s) \in Nat /\ DOMAIN s = 1 .. Len(s)
  BY LenProperties DEF Framer
<1>2. CASE CompletedLine(framer) = s
  BY <1>2
<1>3. CASE CompletedLine(framer) = Front(s) /\ s # << >>
  <2>1. Len(s) >= 1
    BY <1>1, <1>3, EmptySeq
  <2>2. \A i \in 1 .. Len(s) - 1 : s[i] \in Byte
    BY <1>1, ElementOfSeq
  <2>3. /\ Front(s) \in Seq(Byte) /\ Len(Front(s)) = Len(s) - 1
        /\ \A i \in 1 .. Len(s) - 1 : Front(s)[i] = s[i]
    BY <1>1, <2>1, <2>2, SubSeqProperties DEF Front
  <2>4. DOMAIN Front(s) = 1 .. Len(s) - 1
    BY <2>3, LenProperties
  <2>5. Sorted(Front(s))
    BY <1>1, <2>3, <2>4 DEF Sorted
  <2>6. ToSet(Front(s)) \subseteq ToSet(s)
    BY <1>1, <2>3, InToSet
  <2>7. QED
    BY <1>3, <2>5, <2>6
<1>4. QED
  BY <1>2, <1>3 DEF CompletedLine
-----------------------------------------------------------------------------
(***************************************************************************)
(* The steps as the proofs see them.  The ring is the sequence RingBytes,  *)
(* the queue of lines and the lines read are Accepted, and a step is one   *)
(* of five kinds: the host begins a line; a byte arrives and is stored, or *)
(* dropped; the framer takes the oldest byte; or nothing of this changes.  *)
(***************************************************************************)
Begins ==
  /\ host_rest = << >>
  /\ \E length \in HostLengths, cr \in BOOLEAN :
       /\ sent' = Append(sent, <<length, cr>>)
       /\ host_rest' = Payload(Len(sent) + 1, length)
                         \o Terminator(Len(sent) + 1, length, cr)
  /\ UNCHANGED <<RingBytes, receive_overflow_pending, lost, receive_framer,
                 Accepted, completed_lines_dropped>>

Arrives ==
  /\ host_rest # << >>
  /\ host_rest' = Tail(host_rest)
  /\ UNCHANGED <<sent, receive_framer, Accepted, completed_lines_dropped>>

Stores ==
  /\ Arrives
  /\ receive_overflow_pending = FALSE
  /\ RingBytes' = Append(RingBytes, Head(host_rest))
  /\ UNCHANGED <<receive_overflow_pending, lost>>

Drops ==
  /\ Arrives
  /\ lost' = lost \cup {Head(host_rest)}
  /\ receive_overflow_pending' = TRUE
  /\ UNCHANGED RingBytes

Takes ==
  /\ RingBytes # << >>
  /\ RingBytes' = Tail(RingBytes)
  /\ LET byte   == Head(RingBytes)
         framer == FramerAfterPop(receive_overflow_pending)
     IN /\ receive_framer' = Consume(framer, byte)
        /\ IF CompletesLine(framer, byte)
           THEN \/ /\ Accepted' = Append(Accepted, CompletedLine(framer))
                   /\ UNCHANGED completed_lines_dropped
                \/ /\ completed_lines_dropped' = completed_lines_dropped + 1
                   /\ UNCHANGED Accepted
           ELSE UNCHANGED <<Accepted, completed_lines_dropped>>
  /\ receive_overflow_pending' = FALSE
  /\ UNCHANGED <<sent, lost, host_rest>>

Rests ==
  UNCHANGED <<RingBytes, receive_overflow_pending, lost, sent, host_rest,
              receive_framer, Accepted, completed_lines_dropped>>

LEMMA AcceptedType == TypeOK => Accepted \in Seq(Seq(Byte))
BY ConcatProperties DEF TypeOK, Accepted

LEMMA QueuedIsAccepted ==
  ASSUME NEW S, NEW d \in Seq(S), NEW r \in Seq(S), NEW line \in S
  PROVE  d \o Append(r, line) = Append(d \o r, line)
<1>1. /\ d \o r \in Seq(S) /\ Append(r, line) \in Seq(S)
      /\ Append(r, line) = r \o <<line>>
      /\ Append(d \o r, line) = (d \o r) \o <<line>>
      /\ <<line>> \in Seq(S)
  BY ConcatProperties, AppendProperties, AppendIsConcat
<1>2. QED
  BY <1>1, ConcatAssociative

LEMMA ReadStaysAccepted ==
  ASSUME NEW S, NEW d \in Seq(S), NEW r \in Seq(S), r # << >>
  PROVE  Append(d, Head(r)) \o Tail(r) = d \o r
<1>1. /\ Head(r) \in S /\ Tail(r) \in Seq(S) /\ <<Head(r)>> \in Seq(S)
      /\ Append(d, Head(r)) = d \o <<Head(r)>>
  BY HeadAndTail, AppendIsConcat
<1>2. r = <<Head(r)>> \o Tail(r)
  <2>1. /\ <<Head(r)>> \o Tail(r) \in Seq(S)
        /\ Len(<<Head(r)>>) = 1 /\ <<Head(r)>>[1] = Head(r)
    BY <1>1, ConcatProperties
  <2>2. /\ Len(<<Head(r)>> \o Tail(r)) = 1 + Len(Tail(r))
        /\ \A i \in 1 .. 1 + Len(Tail(r)) :
             (<<Head(r)>> \o Tail(r))[i]
               = IF i <= 1 THEN <<Head(r)>>[i] ELSE Tail(r)[i - 1]
    BY <1>1, <2>1, ConcatProperties
  <2>3. /\ Head(r) = r[1] /\ Len(Tail(r)) = Len(r) - 1
        /\ Len(r) \in Nat /\ Len(r) >= 1
        /\ \A i \in 1 .. Len(r) - 1 : Tail(r)[i] = r[i + 1]
    BY HeadAndTail
  <2>4. Len(<<Head(r)>> \o Tail(r)) = Len(r)
    BY <2>2, <2>3
  <2>5. ASSUME NEW i \in 1 .. Len(r)
        PROVE  (<<Head(r)>> \o Tail(r))[i] = r[i]
    <3>1. CASE i = 1
      BY <2>1, <2>2, <2>3, <3>1
    <3>2. CASE i # 1
      <4>1. i - 1 \in 1 .. Len(r) - 1 /\ (i - 1) + 1 = i /\ ~(i <= 1)
        BY <2>3, <2>5, <3>2
      <4>2. Tail(r)[i - 1] = r[i]
        BY <2>3, <4>1
      <4>3. QED
        BY <2>2, <2>3, <4>1, <4>2
    <3>3. QED
      BY <3>1, <3>2
  <2>6. QED
    BY <2>1, <2>4, <2>5, SeqEqual
<1>3. QED
  BY <1>1, <1>2, ConcatAssociative

LEMMA StepKinds ==
  TypeOK /\ TypeOK' /\ PendingMeansFull /\ [Next]_vars
    => Begins \/ Stores \/ Drops \/ Takes \/ Rests
<1> SUFFICES ASSUME TypeOK, TypeOK', PendingMeansFull, [Next]_vars
             PROVE  Begins \/ Stores \/ Drops \/ Takes \/ Rests
  OBVIOUS
<1>1. ASSUME UNCHANGED ringVars PROVE RingBytes' = RingBytes
  BY <1>1 DEF ringVars, RingBytes, RingCount
<1>2. ASSUME UNCHANGED <<delivered, received_lines>> PROVE Accepted' = Accepted
  BY <1>2 DEF Accepted
<1>3. CASE HostBeginsLine
  BY <1>1, <1>2, <1>3 DEF HostBeginsLine, Begins, lineVars
<1>4. CASE CdcReceive
  <2>1. Head(host_rest) \in Byte
    BY <1>4, HeadAndTail DEF CdcReceive, TypeOK
  <2>2. Arrives
    BY <1>2, <1>4 DEF CdcReceive, Arrives, lineVars
  <2>3. CASE DropByte(Head(host_rest))
    BY <1>1, <2>2, <2>3 DEF DropByte, Drops
  <2>4. CASE StoreByte(Head(host_rest))
    <3>1. receive_overflow_pending = FALSE
      BY <2>4 DEF StoreByte, PendingMeansFull, TypeOK
    <3>2. QED
      BY <2>1, <2>2, <2>4, <3>1, StoreAppends DEF StoreByte, Stores
  <2>5. QED
    BY <1>4, <2>3, <2>4 DEF CdcReceive
<1>5. CASE ReceiveByte
  <2> DEFINE byte == Head(RingBytes)
             framer == FramerAfterPop(receive_overflow_pending)
  <2>1. /\ RingBytes # << >> /\ RingBytes' = Tail(RingBytes)
        /\ byte = raw_receive_buffer[raw_receive_tail]
    BY <1>5, PopTakesFirst DEF ReceiveByte
  <2>2. /\ receive_framer' = Consume(framer, byte)
        /\ receive_overflow_pending' = FALSE
        /\ UNCHANGED <<sent, lost, host_rest>>
    BY <1>5, <2>1 DEF ReceiveByte, TakeOverflow, hostVars
  <2>3. CASE CompletesLine(framer, byte)
    <3>1. QueueCompletedLine(CompletedLine(framer)) /\ UNCHANGED delivered
      BY <1>5, <2>1, <2>3 DEF ReceiveByte
    <3>2. CASE /\ completed_lines_dropped' = completed_lines_dropped + 1
               /\ UNCHANGED received_lines
      BY <1>2, <2>1, <2>2, <2>3, <3>1, <3>2 DEF Takes
    <3>3. CASE /\ received_lines'
                    = Append(received_lines, CompletedLine(framer))
               /\ UNCHANGED completed_lines_dropped
      <4>1. framer \in Framer
        BY DiscardType DEF FramerAfterPop, TypeOK
      <4>2. CompletedLine(framer) \in Seq(Byte)
        BY <4>1, CompletedLineType
      <4>3. /\ delivered \in Seq(Seq(Byte))
            /\ received_lines \in Seq(Seq(Byte))
        BY DEF TypeOK
      <4>4. delivered \o Append(received_lines, CompletedLine(framer))
              = Append(delivered \o received_lines, CompletedLine(framer))
        <5> DEFINE line == CompletedLine(framer)
        <5>1. line \in Seq(Byte)
          BY <4>2
        <5> HIDE DEF line
        <5>2. delivered \o Append(received_lines, line)
                = Append(delivered \o received_lines, line)
          BY <4>3, <5>1, QueuedIsAccepted
        <5> QED
          BY <5>2 DEF line
      <4>5. Accepted' = Append(Accepted, CompletedLine(framer))
        BY <3>1, <3>3, <4>4 DEF Accepted
      <4>6. QED
        BY <2>1, <2>2, <2>3, <3>3, <4>5 DEF Takes
    <3>4. QED
      BY <3>1, <3>2, <3>3 DEF QueueCompletedLine
  <2>4. CASE ~CompletesLine(framer, byte)
    <3>1. UNCHANGED <<received_lines, completed_lines_dropped, delivered>>
      BY <1>5, <2>1, <2>4 DEF ReceiveByte
    <3>2. QED
      BY <1>2, <2>1, <2>2, <2>4, <3>1 DEF Takes
  <2>5. QED
    BY <2>3, <2>4
<1>6. CASE ReceiveNothing
  <2>1. receive_overflow_pending = FALSE
    <3>1. ~receive_overflow_pending
      <4>1. SUFFICES ASSUME receive_overflow_pending PROVE FALSE
        OBVIOUS
      <4>2. Successor(raw_receive_head) = raw_receive_head
        BY <1>6, <4>1 DEF ReceiveNothing, PendingMeansFull, RingFull, RingEmpty
      <4>3. raw_receive_head \in Slot
        BY DEF TypeOK
      <4>4. QED
        BY <4>2, <4>3, NextSlot, ReceiveConstants DEF Slot
    <3>2. QED
      BY <3>1 DEF TypeOK
  <2>2. receive_framer' = receive_framer
    BY <1>6, <2>1 DEF ReceiveNothing, FramerAfterPop
  <2>3. QED
    BY <1>1, <1>2, <1>6, <2>1, <2>2
       DEF ReceiveNothing, TakeOverflow, Rests, hostVars
<1>7. CASE ReadLine
  <2>1. /\ received_lines # << >>
        /\ delivered' = Append(delivered, Head(received_lines))
        /\ received_lines' = Tail(received_lines)
    BY <1>7 DEF ReadLine
  <2>2. delivered \in Seq(Seq(Byte)) /\ received_lines \in Seq(Seq(Byte))
    BY DEF TypeOK
  <2>3. Accepted' = Accepted
    BY <2>1, <2>2, ReadStaysAccepted DEF Accepted
  <2>4. QED
    BY <1>1, <1>7, <2>3 DEF ReadLine, Rests, hostVars
<1>8. CASE SessionDone
  BY <1>1, <1>2, <1>8 DEF SessionDone, Rests, lineVars, hostVars
<1>9. CASE UNCHANGED vars
  BY <1>1, <1>2, <1>9 DEF vars, Rests, lineVars, hostVars
<1>10. QED
  BY <1>3, <1>4, <1>5, <1>6, <1>7, <1>8, <1>9 DEF Next, MainLoop

(***************************************************************************)
(* What the framer makes of the byte it takes: it starts a discard over    *)
(* because of an overflow, skips the byte, completes a line, gives up a    *)
(* line that is too long, or keeps the byte.                               *)
(***************************************************************************)
SameLines == UNCHANGED <<Accepted, completed_lines_dropped>>

Aborts(byte) ==
  /\ receive_overflow_pending
  /\ receive_framer'.line = << >>
  /\ receive_framer'.discarding = ~IsLF(byte)
  /\ receive_framer'.overflow_count = receive_framer.overflow_count + 1
  /\ SameLines

Skips(byte) ==
  /\ ~receive_overflow_pending /\ receive_framer.discarding
  /\ receive_framer'.line = receive_framer.line
  /\ receive_framer'.discarding = ~IsLF(byte)
  /\ receive_framer'.overflow_count = receive_framer.overflow_count
  /\ SameLines

Completes(byte) ==
  /\ ~receive_overflow_pending /\ ~receive_framer.discarding /\ IsLF(byte)
  /\ receive_framer'.line = << >>
  /\ receive_framer'.discarding = FALSE
  /\ receive_framer'.overflow_count = receive_framer.overflow_count
  /\ \/ /\ Accepted' = Append(Accepted, CompletedLine(receive_framer))
        /\ UNCHANGED completed_lines_dropped
     \/ /\ completed_lines_dropped' = completed_lines_dropped + 1
        /\ UNCHANGED Accepted

GivesUp(byte) ==
  /\ ~receive_overflow_pending /\ ~receive_framer.discarding /\ ~IsLF(byte)
  /\ receive_framer'.line = << >>
  /\ receive_framer'.discarding = TRUE
  /\ receive_framer'.overflow_count = receive_framer.overflow_count + 1
  /\ SameLines

Keeps(byte) ==
  /\ ~receive_overflow_pending /\ ~receive_framer.discarding /\ ~IsLF(byte)
  /\ receive_framer'.line = Append(receive_framer.line, byte)
  /\ receive_framer'.discarding = FALSE
  /\ receive_framer'.overflow_count = receive_framer.overflow_count
  /\ SameLines

LEMMA TakesKinds ==
  ASSUME TypeOK, Takes, NEW byte, byte = Head(RingBytes)
  PROVE  Aborts(byte) \/ Skips(byte) \/ Completes(byte) \/ GivesUp(byte)
           \/ Keeps(byte)
<1>1. /\ receive_framer \in [line : Seq(Byte), discarding : BOOLEAN,
                             overflow_count : Nat]
      /\ receive_overflow_pending \in BOOLEAN
  BY DEF TypeOK, Framer
<1>2. CASE receive_overflow_pending
  <2> DEFINE framer == DiscardCurrentLine(receive_framer)
  <2>1. FramerAfterPop(receive_overflow_pending) = framer
    BY <1>2 DEF FramerAfterPop
  <2>2. /\ framer.discarding = TRUE /\ framer.line = << >>
        /\ framer.overflow_count = receive_framer.overflow_count + 1
        /\ framer = [line |-> << >>, discarding |-> TRUE,
                     overflow_count |-> receive_framer.overflow_count + 1]
    BY DEF DiscardCurrentLine
  <2>3. ~CompletesLine(framer, byte)
    BY <2>2 DEF CompletesLine
  <2>4. SameLines /\ receive_framer' = Consume(framer, byte)
    BY <2>1, <2>3 DEF Takes, SameLines
  <2>5. receive_framer'
          = IF byte.kind = "lf" THEN [framer EXCEPT !.discarding = FALSE]
                                ELSE framer
    BY <2>2, <2>4 DEF Consume
  <2> HIDE DEF framer
  <2>6. CASE byte.kind = "lf"
    BY <1>2, <2>2, <2>4, <2>5, <2>6 DEF Aborts, IsLF
  <2>7. CASE byte.kind # "lf"
    BY <1>2, <2>2, <2>4, <2>5, <2>7 DEF Aborts, IsLF
  <2>8. QED
    BY <2>6, <2>7
<1>3. CASE receive_overflow_pending = FALSE
  <2>1. FramerAfterPop(receive_overflow_pending) = receive_framer
    BY <1>3 DEF FramerAfterPop
  <2>2. receive_framer' = Consume(receive_framer, byte)
    BY <2>1 DEF Takes
  <2>3. CASE receive_framer.discarding
    <3>1. SameLines
      BY <2>1, <2>3 DEF Takes, CompletesLine, SameLines
    <3>2. receive_framer' = IF byte.kind = "lf"
                            THEN [receive_framer EXCEPT !.discarding = FALSE]
                            ELSE receive_framer
      BY <2>2, <2>3 DEF Consume
    <3>3. CASE byte.kind = "lf"
      BY <1>1, <1>3, <2>3, <3>1, <3>2, <3>3 DEF Skips, IsLF
    <3>4. CASE byte.kind # "lf"
      BY <1>1, <1>3, <2>3, <3>1, <3>2, <3>4 DEF Skips, IsLF
    <3>5. QED
      BY <3>3, <3>4
  <2>4. CASE ~receive_framer.discarding /\ byte.kind = "lf"
    <3>1. receive_framer' = [receive_framer EXCEPT !.line = << >>]
      BY <2>2, <2>4 DEF Consume
    <3>2. CompletesLine(receive_framer, byte)
      BY <2>4 DEF CompletesLine
    <3>3. \/ /\ Accepted' = Append(Accepted, CompletedLine(receive_framer))
             /\ UNCHANGED completed_lines_dropped
          \/ /\ completed_lines_dropped' = completed_lines_dropped + 1
             /\ UNCHANGED Accepted
      BY <2>1, <3>2 DEF Takes
    <3>4. QED
      BY <1>1, <1>3, <2>4, <3>1, <3>3 DEF Completes, IsLF
  <2>5. CASE ~receive_framer.discarding /\ byte.kind # "lf"
    <3>1. SameLines
      BY <2>1, <2>5 DEF Takes, CompletesLine, SameLines
    <3>2. CASE Len(receive_framer.line) = MaxLineLength
      <4>1. receive_framer' = DiscardCurrentLine(receive_framer)
        BY <2>2, <2>5, <3>2 DEF Consume
      <4>2. QED
        BY <1>3, <2>5, <3>1, <4>1 DEF GivesUp, IsLF, DiscardCurrentLine
    <3>3. CASE Len(receive_framer.line) # MaxLineLength
      <4>1. receive_framer' = [receive_framer EXCEPT !.line = Append(@, byte)]
        BY <2>2, <2>5, <3>3 DEF Consume
      <4>2. QED
        BY <1>1, <1>3, <2>5, <3>1, <4>1 DEF Keeps, IsLF
    <3>4. QED
      BY <3>2, <3>3
  <2>6. QED
    BY <2>3, <2>4, <2>5
<1>4. QED
  BY <1>1, <1>2, <1>3
-----------------------------------------------------------------------------
(***************************************************************************)
(* The bytes of the host.  Line n has Size(n) bytes, Nth(n, i) is the i-th *)
(* of them; the bytes that have reached the interrupt are those of the     *)
(* lines before the last and of the last one up to what is left of it.     *)
(***************************************************************************)
Size(n) == LineSize(sent[n][1], sent[n][2])

Nth(n, i) == ByteAt(n, sent[n][1], Size(n), i)

HostBytes ==
  {b \in Byte : /\ b.line \in DOMAIN sent
                /\ b.position \in 1 .. Size(b.line)
                /\ b = Nth(b.line, b.position)}

Arrived ==
  {b \in HostBytes : \/ b.line < Len(sent)
                     \/ b.position <= Size(b.line) - Len(host_rest)}

Stored == Arrived \ lost
Taken == Stored \ ToSet(RingBytes)

HostRest ==
  /\ \A n \in DOMAIN sent : sent[n][1] > 0
  /\ host_rest # << >> => Len(sent) > 0 /\ Len(host_rest) <= Size(Len(sent))
  /\ \A k \in DOMAIN host_rest :
       host_rest[k] = Nth(Len(sent), Size(Len(sent)) - Len(host_rest) + k)

LEMMA SentIs ==
  ASSUME TypeOK, HostRest, NEW n \in DOMAIN sent
  PROVE  /\ n \in Nat /\ n \in 1 .. Len(sent)
         /\ sent[n][1] \in Nat /\ sent[n][1] > 0 /\ sent[n][2] \in BOOLEAN
         /\ Size(n) \in Nat /\ Size(n) > sent[n][1]
         /\ Size(n) - sent[n][1] \in {1, 2}
<1>1. sent \in Seq(Nat \X BOOLEAN) /\ DOMAIN sent = 1 .. Len(sent)
      /\ Len(sent) \in Nat
  BY LenProperties DEF TypeOK
<1>2. sent[n] \in Nat \X BOOLEAN
  BY <1>1, ElementOfSeq
<1>3. sent[n][1] \in Nat /\ sent[n][2] \in BOOLEAN
  BY <1>2
<1>4. sent[n][1] > 0
  BY DEF HostRest
<1>5. QED
  BY <1>1, <1>3, <1>4 DEF Size, LineSize

LEMMA NthIsHostByte ==
  ASSUME TypeOK, HostRest, NEW n \in DOMAIN sent, NEW i \in 1 .. Size(n)
  PROVE  /\ Nth(n, i) \in HostBytes
         /\ Nth(n, i).line = n /\ Nth(n, i).position = i
         /\ IsLF(Nth(n, i)) <=> i = Size(n)
         /\ i <= sent[n][1] =>
              Nth(n, i) = [line |-> n, position |-> i, kind |-> "data"]
         /\ sent[n][1] < i /\ i < Size(n) => Nth(n, i).kind = "cr"
<1>1. /\ n \in Nat /\ Size(n) \in Nat /\ i \in Nat /\ Size(n) > sent[n][1]
      /\ sent[n][1] \in Nat
  BY SentIs
<1>2. Nth(n, i) \in Byte
  BY <1>1 DEF ByteAt, Nth, Byte, ByteKind
<1>3. Nth(n, i).line = n /\ Nth(n, i).position = i
  BY DEF ByteAt, Nth
<1>4. Nth(n, i) \in HostBytes
  BY <1>2, <1>3 DEF HostBytes
<1>5. IsLF(Nth(n, i)) <=> i = Size(n)
  BY <1>1 DEF ByteAt, Nth, IsLF
<1>6. /\ i <= sent[n][1] =>
           Nth(n, i) = [line |-> n, position |-> i, kind |-> "data"]
      /\ sent[n][1] < i /\ i < Size(n) => Nth(n, i).kind = "cr"
  BY <1>1 DEF ByteAt, Nth
<1>7. QED
  BY <1>3, <1>4, <1>5, <1>6

LEMMA HostByteIs ==
  ASSUME TypeOK, HostRest, NEW b \in HostBytes
  PROVE  /\ b \in Byte /\ b.line \in DOMAIN sent /\ b.line \in Nat
         /\ b.position \in 1 .. Size(b.line) /\ b.position \in Nat
         /\ b = Nth(b.line, b.position)
         /\ IsLF(b) <=> b.position = Size(b.line)
         /\ b.line <= Len(sent) /\ b.line >= 1
         /\ Size(b.line) \in Nat
<1>1. /\ b \in Byte /\ b.line \in DOMAIN sent
      /\ b.position \in 1 .. Size(b.line)
      /\ b = Nth(b.line, b.position)
  BY DEF HostBytes
<1>2. IsLF(b) <=> b.position = Size(b.line)
  BY <1>1, NthIsHostByte
<1>3. b.line \in 1 .. Len(sent) /\ Size(b.line) \in Nat
  BY <1>1, SentIs
<1>4. Len(sent) \in Nat
  BY LenProperties DEF TypeOK
<1>5. QED
  BY <1>1, <1>2, <1>3, <1>4

LEMMA HostBytesOrdered ==
  ASSUME TypeOK, HostRest, NEW a \in HostBytes, NEW b \in HostBytes
  PROVE  a = b \/ Precedes(a, b) \/ Precedes(b, a)
<1>1. /\ a.line \in Nat /\ b.line \in Nat
      /\ a.position \in Nat /\ b.position \in Nat
      /\ a = Nth(a.line, a.position) /\ b = Nth(b.line, b.position)
  BY HostByteIs
<1>2. CASE a.line = b.line /\ a.position = b.position
  BY <1>1, <1>2
<1>3. CASE ~(a.line = b.line /\ a.position = b.position)
  BY <1>1, <1>3 DEF Precedes
<1>4. QED
  BY <1>2, <1>3

(***************************************************************************)
(* A new line changes nothing about the bytes that have arrived.           *)
(***************************************************************************)
LEMMA BeginsHost ==
  ASSUME TypeOK, TypeOK', HostRest, Begins
  PROVE  /\ HostRest' /\ Arrived' = Arrived
         /\ HostBytes \subseteq HostBytes'
         /\ Len(sent') = Len(sent) + 1 /\ Len(sent) \in Nat
         /\ \A n \in DOMAIN sent : sent'[n] = sent[n]
         /\ DOMAIN sent' = 1 .. Len(sent) + 1
         /\ \A n \in DOMAIN sent : \A i : Nth(n, i)' = Nth(n, i)
<1>1. PICK length \in HostLengths, cr \in BOOLEAN :
        /\ sent' = Append(sent, <<length, cr>>)
        /\ host_rest' = Payload(Len(sent) + 1, length)
                           \o Terminator(Len(sent) + 1, length, cr)
  BY DEF Begins
<1>0. PICK N \in Nat : N = Len(sent) + 1
  BY LenProperties DEF TypeOK
<1> DEFINE size == LineSize(length, cr)
<1>2. /\ length \in Nat /\ length > 0 /\ size \in Nat /\ size > 0
      /\ size = LineSize(length, cr)
  BY ReceiveConstants DEF LineSize
<1>3. /\ Len(sent) \in Nat /\ N \in Nat /\ DOMAIN sent = 1 .. Len(sent)
      /\ sent \in Seq(Nat \X BOOLEAN) /\ <<length, cr>> \in Nat \X BOOLEAN
      /\ N = Len(sent) + 1
      /\ host_rest' = Payload(N, length) \o Terminator(N, length, cr)
  BY <1>0, <1>1, <1>2, LenProperties DEF TypeOK
<1> HIDE DEF size
<1>4. /\ Len(sent') = N /\ DOMAIN sent' = 1 .. N
      /\ \A n \in 1 .. Len(sent) : sent'[n] = sent[n]
      /\ sent'[N] = <<length, cr>>
  <2>1. /\ sent' \in Seq(Nat \X BOOLEAN) /\ Len(sent') = N
        /\ \A n \in 1 .. Len(sent) : sent'[n] = sent[n]
        /\ sent'[N] = <<length, cr>>
    BY <1>1, <1>3, AppendProperties
  <2>2. DOMAIN sent' = 1 .. N
    BY <2>1, LenProperties
  <2>3. QED
    BY <2>1, <2>2
<1>5. /\ Len(host_rest') = size /\ DOMAIN host_rest' = 1 .. size
      /\ \A i \in 1 .. size : host_rest'[i] = ByteAt(N, length, size, i)
  <2>1. /\ host_rest' \in Seq(Byte) /\ Len(host_rest') = size
        /\ \A i \in 1 .. size : host_rest'[i] = ByteAt(N, length, size, i)
    <3>1. /\ N \in Nat /\ length \in Nat /\ cr \in BOOLEAN
          /\ size = LineSize(length, cr)
          /\ host_rest' = Payload(N, length) \o Terminator(N, length, cr)
      BY <1>2, <1>3
    <3>2. QED
      BY <3>1, NewLine
  <2>2. DOMAIN host_rest' = 1 .. size
    BY <2>1, LenProperties
  <2>3. QED
    BY <2>1, <2>2
<1>6. /\ \A n \in 1 .. Len(sent) : Size(n)' = Size(n)
      /\ Size(N)' = size
      /\ \A i \in 1 .. size : Nth(N, i)' = host_rest'[i]
      /\ \A n \in 1 .. Len(sent) : \A i : Nth(n, i)' = Nth(n, i)
  <2>1. \A n \in 1 .. Len(sent) : Size(n)' = Size(n)
    BY <1>4 DEF Size
  <2>2. Size(N)' = size
    <3>1. sent'[N][1] = length /\ sent'[N][2] = cr
      BY <1>4
    <3>2. QED
      BY <1>2, <3>1, Zenon DEF Size
  <2>3. \A i \in 1 .. size : Nth(N, i)' = host_rest'[i]
    <3>1. sent'[N][1] = length
      BY <1>4
    <3>2. QED
      BY <1>5, <2>2, <3>1, Zenon DEF Nth
  <2>4. \A n \in 1 .. Len(sent) : \A i : Nth(n, i)' = Nth(n, i)
    BY <1>4, <2>1 DEF Nth
  <2>5. QED
    BY <2>1, <2>2, <2>3, <2>4
<1>7. HostRest'
  <2>1. ASSUME NEW n \in 1 .. N PROVE sent'[n][1] > 0
    <3>1. CASE n \in 1 .. Len(sent)
      BY <1>3, <1>4, <3>1 DEF HostRest
    <3>2. CASE n = N
      BY <1>2, <1>4, <3>2
    <3>3. QED
      BY <2>1, <1>3, <3>1, <3>2
  <2>2. Len(sent') > 0 /\ Len(host_rest') <= Size(Len(sent))'
    <3>1. Size(Len(sent))' = size
      BY <1>2, <1>4 DEF Size
    <3>2. QED
      BY <1>2, <1>3, <1>4, <1>5, <3>1
  <2>3. \A k \in 1 .. size : host_rest'[k] = Nth(Len(sent), k)'
    <3>1. \A k : Nth(Len(sent), k)' = Nth(N, k)'
      BY <1>4, Zenon DEF Nth, Size
    <3>2. QED
      BY <1>6, <3>1
  <2>4. \A k \in DOMAIN host_rest' :
          host_rest'[k] = Nth(Len(sent), Size(Len(sent)) - Len(host_rest) + k)'
    <3>1. SUFFICES ASSUME NEW k \in 1 .. size
                   PROVE  host_rest'[k]
                     = Nth(Len(sent), Size(Len(sent)) - Len(host_rest) + k)'
      BY <1>5
    <3>2. (Size(Len(sent)) - Len(host_rest) + k)' = k
      <4>1. Size(Len(sent))' = size /\ Len(host_rest') = size
        BY <1>2, <1>4, <1>5 DEF Size
      <4>2. size - size + k = k
        BY <1>2
      <4>3. QED
        BY <4>1, <4>2
    <3>3. QED
      BY <2>3, <3>2
  <2>5. QED
    BY <1>4, <2>1, <2>2, <2>4 DEF HostRest
<1>8. HostBytes \subseteq HostBytes'
  <2>1. SUFFICES ASSUME NEW b \in HostBytes PROVE b \in HostBytes'
    OBVIOUS
  <2>2. /\ b \in Byte /\ b.line \in 1 .. Len(sent)
        /\ b.position \in 1 .. Size(b.line)
        /\ b = Nth(b.line, b.position)
    BY <1>3 DEF HostBytes
  <2>3. b.line \in DOMAIN sent' /\ b.position \in 1 .. Size(b.line)'
        /\ b = Nth(b.line, b.position)'
    BY <1>3, <1>4, <1>6, <2>2
  <2>4. QED
    BY <2>2, <2>3 DEF HostBytes
<1>9. ASSUME NEW b \in Arrived PROVE b \in Arrived'
  <2>1. b \in HostBytes' /\ b \in HostBytes
    BY <1>8 DEF Arrived
  <2>2. b.line < Len(sent')
    BY <1>3, <1>4, <2>1, HostByteIs
  <2>3. QED
    BY <2>1, <2>2 DEF Arrived
<1>10. ASSUME NEW b \in Arrived' PROVE b \in Arrived
  <2>1. /\ b \in Byte /\ b.line \in 1 .. N
        /\ b.position \in 1 .. Size(b.line)'
        /\ b = Nth(b.line, b.position)'
    BY <1>4, <1>10 DEF Arrived, HostBytes
  <2>2. b.line < N \/ b.position <= Size(b.line)' - size
    BY <1>4, <1>5, <1>10 DEF Arrived
  <2>3. b.line # N
    <3>1. SUFFICES ASSUME b.line = N PROVE FALSE
      OBVIOUS
    <3>2. Size(b.line)' = Size(N)'
      BY <3>1 DEF Size
    <3>3. b.position \in 1 .. size
      BY <1>6, <2>1, <3>2
    <3>4. b.position <= size - size
      BY <1>3, <1>6, <2>2, <3>1, <3>2
    <3>5. QED
      BY <1>2, <3>3, <3>4
  <2>4. b.line \in 1 .. Len(sent)
    BY <1>3, <2>1, <2>3
  <2>5. b \in HostBytes
    BY <1>3, <1>6, <2>1, <2>4 DEF HostBytes
  <2>6. host_rest = << >> /\ Len(host_rest) = 0
    BY EmptySeq DEF Begins
  <2>7. Size(b.line) \in Nat
    BY <1>3, <2>4, SentIs
  <2>8. b.position <= Size(b.line) - Len(host_rest)
    BY <2>5, <2>6, <2>7 DEF HostBytes
  <2>9. QED
    BY <2>5, <2>8 DEF Arrived
<1>11. QED
  BY <1>3, <1>4, <1>6, <1>7, <1>8, <1>9, <1>10

(***************************************************************************)
(* The byte that arrives is the one behind all that have arrived.          *)
(***************************************************************************)
LEMMA ArrivesHost ==
  ASSUME TypeOK, HostRest, Arrives, NEW b, b = Head(host_rest)
  PROVE  /\ HostRest' /\ HostBytes' = HostBytes
         /\ b \in HostBytes /\ b \notin Arrived
         /\ Arrived' = Arrived \cup {b}
         /\ \A a \in Arrived : Precedes(a, b)
<1> DEFINE N == Len(sent)
           m == Len(host_rest)
<1>1. /\ host_rest \in Seq(Byte) /\ b = host_rest[1]
      /\ m \in Nat /\ m >= 1 /\ DOMAIN host_rest = 1 .. m
      /\ Len(host_rest') = m - 1 /\ DOMAIN host_rest' = 1 .. m - 1
      /\ \A i \in 1 .. m - 1 : host_rest'[i] = host_rest[i + 1]
  <2>1. host_rest \in Seq(Byte) /\ host_rest # << >> /\ host_rest' = Tail(host_rest)
    BY DEF TypeOK, Arrives
  <2>2. Tail(host_rest) \in Seq(Byte)
    BY <2>1, HeadAndTail
  <2>3. QED
    BY <2>1, <2>2, HeadAndTail, LenProperties
<1>2. /\ sent' = sent /\ Size(N)' = Size(N) /\ HostBytes' = HostBytes
      /\ \A n, i : Nth(n, i)' = Nth(n, i)
      /\ \A n : Size(n)' = Size(n)
  <2>1. sent' = sent
    BY DEF Arrives
  <2>2. (\A n : Size(n)' = Size(n)) /\ \A n, i : Nth(n, i)' = Nth(n, i)
    BY <2>1 DEF Size, Nth
  <2>3. HostBytes' = HostBytes
    BY <2>1 DEF HostBytes, Size, Nth
  <2>4. QED
    BY <2>1, <2>2, <2>3
<1>3. /\ N > 0 /\ m <= Size(N) /\ N \in Nat /\ N \in DOMAIN sent
      /\ DOMAIN sent = 1 .. N
  <2>1. N > 0 /\ m <= Size(N)
    BY DEF HostRest, Arrives
  <2>2. N \in Nat /\ DOMAIN sent = 1 .. N
    BY LenProperties DEF TypeOK
  <2>3. QED
    BY <2>1, <2>2
<1>4. Size(N) \in Nat
  BY <1>3, SentIs
<1>5. \A k \in 1 .. m : host_rest[k] = Nth(N, Size(N) - m + k)
  BY <1>1 DEF HostRest
<1>6. HostRest'
  <2>1. \A n \in DOMAIN sent' : sent'[n][1] > 0
    BY <1>2 DEF HostRest
  <2>2. Len(sent') > 0 /\ m - 1 <= Size(N)'
    BY <1>1, <1>2, <1>3, <1>4
  <2>3. ASSUME NEW k \in 1 .. m - 1
        PROVE  host_rest'[k] = Nth(N, Size(N) - (m - 1) + k)
    <3>1. k + 1 \in 1 .. m /\ Size(N) - m + (k + 1) = Size(N) - (m - 1) + k
      BY <1>1, <1>4
    <3>2. host_rest'[k] = host_rest[k + 1]
      BY <1>1
    <3>3. QED
      BY <1>5, <3>1, <3>2
  <2>4. \A k \in DOMAIN host_rest' :
          host_rest'[k] = Nth(Len(sent), Size(Len(sent)) - Len(host_rest) + k)'
    BY <1>1, <1>2, <2>3
  <2>5. QED
    BY <1>1, <1>2, <2>1, <2>2, <2>4 DEF HostRest
<1> DEFINE p == Size(N) - m + 1
<1>7. p \in 1 .. Size(N) /\ b = Nth(N, p)
  BY <1>1, <1>3, <1>4, <1>5
<1>8. b \in HostBytes /\ b.line = N /\ b.position = p
  BY <1>3, <1>7, NthIsHostByte
<1>9. b \notin Arrived
  BY <1>1, <1>3, <1>4, <1>8 DEF Arrived
<1>10. ASSUME NEW a \in HostBytes
       PROVE  /\ a \in Arrived =>
                   Precedes(a, b) /\ (a.line < N \/ a.position <= Size(a.line) - (m - 1))
              /\ (a.line < N \/ a.position <= Size(a.line) - (m - 1))
                   => a = b \/ a \in Arrived
  <2>1. /\ a.line \in Nat /\ a.line <= N /\ a.position \in Nat
        /\ a.position >= 1 /\ a.position <= Size(a.line)
        /\ Size(a.line) \in Nat /\ a = Nth(a.line, a.position)
    BY HostByteIs
  <2>2. a \in Arrived <=> a.line < N \/ a.position <= Size(a.line) - m
    BY DEF Arrived
  <2>3. CASE a.line < N
    BY <1>3, <1>8, <2>1, <2>2, <2>3 DEF Precedes
  <2>4. CASE a.line = N
    <3>1. a \in Arrived => Precedes(a, b) /\ a.position <= Size(a.line) - (m - 1)
      BY <1>1, <1>3, <1>4, <1>8, <2>1, <2>2, <2>4 DEF Precedes
    <3>2. CASE a.position = p
      BY <1>7, <2>1, <2>4, <3>1, <3>2
    <3>3. CASE a.position # p
      BY <1>1, <1>3, <1>4, <1>8, <2>1, <2>2, <2>4, <3>1, <3>3
    <3>4. QED
      BY <3>2, <3>3
  <2>5. QED
    BY <1>3, <2>1, <2>3, <2>4
<1>11. b.line < N \/ b.position <= Size(b.line) - (m - 1)
  BY <1>1, <1>4, <1>8
<1>12. \A a : a \in Arrived' <=>
               a \in HostBytes /\ (a.line < N \/ a.position <= Size(a.line) - (m - 1))
  BY <1>1, <1>2 DEF Arrived
<1> HIDE DEF N, m, p
<1>13. Arrived \subseteq HostBytes
  BY DEF Arrived
<1>14. Arrived' = Arrived \cup {b}
  BY <1>8, <1>10, <1>11, <1>12, <1>13
<1>15. QED
  BY <1>2, <1>6, <1>8, <1>9, <1>10, <1>13, <1>14

(***************************************************************************)
(* What has arrived precedes what is left at the host, which is in order.  *)
(***************************************************************************)
LEMMA RestFollows ==
  ASSUME TypeOK, HostRest
  PROVE  /\ Sorted(host_rest)
         /\ Before(Arrived, ToSet(host_rest))
         /\ ToSet(host_rest) \subseteq HostBytes
         /\ HostBytes \subseteq Arrived \cup ToSet(host_rest)
<1> DEFINE N == Len(sent)
           m == Len(host_rest)
<1>1. /\ host_rest \in Seq(Byte) /\ m \in Nat /\ DOMAIN host_rest = 1 .. m
  BY LenProperties DEF TypeOK
<1>2. ASSUME NEW k \in 1 .. m
      PROVE  /\ host_rest[k] \in HostBytes
             /\ host_rest[k].line = N
             /\ host_rest[k].position = Size(N) - m + k
             /\ Size(N) \in Nat /\ m <= Size(N) /\ N \in Nat
  <2>1. host_rest # << >>
    BY <1>1, <1>2, EmptySeq
  <2>2. /\ N > 0 /\ m <= Size(N)
        /\ host_rest[k] = Nth(N, Size(N) - m + k)
    BY <1>1, <1>2, <2>1 DEF HostRest
  <2>3. N \in Nat /\ N \in DOMAIN sent
    BY <2>2, LenProperties DEF TypeOK
  <2>4. Size(N) \in Nat
    BY <2>3, SentIs
  <2>5. Size(N) - m + k \in 1 .. Size(N)
    BY <1>1, <2>2, <2>4
  <2>6. QED
    BY <2>2, <2>3, <2>4, <2>5, NthIsHostByte
<1> HIDE DEF N, m
<1>3. Sorted(host_rest)
  <2>1. SUFFICES ASSUME NEW i \in 1 .. m, NEW j \in 1 .. m, i < j
                 PROVE  Precedes(host_rest[i], host_rest[j])
    BY <1>1 DEF Sorted
  <2>2. Size(N) - m + i < Size(N) - m + j
    BY <1>1, <1>2, <2>1
  <2>3. QED
    BY <1>2, <2>1, <2>2 DEF Precedes
<1>4. \A x \in ToSet(host_rest) : \E k \in 1 .. m : host_rest[k] = x
  BY <1>1, InToSet DEF m
<1>5. ASSUME NEW a \in Arrived, NEW x \in ToSet(host_rest)
      PROVE  Precedes(a, x)
  <2>1. PICK k \in 1 .. m : host_rest[k] = x
    BY <1>4
  <2>2. a \in HostBytes /\ (a.line < N \/ a.position <= Size(a.line) - m)
    BY DEF Arrived, N, m
  <2>3. /\ a.line \in Nat /\ a.line <= N /\ a.position \in Nat
        /\ Size(a.line) \in Nat
    BY <2>2, HostByteIs DEF N
  <2>4. CASE a.line < N
    BY <1>2, <2>1, <2>4 DEF Precedes
  <2>5. CASE a.line = N
    BY <1>1, <1>2, <2>1, <2>2, <2>3, <2>5 DEF Precedes
  <2>6. QED
    BY <1>2, <2>1, <2>3, <2>4, <2>5
<1>6. ASSUME NEW a \in HostBytes, a \notin Arrived
      PROVE  a \in ToSet(host_rest)
  <2>1. /\ a.line \in Nat /\ a.line <= N /\ a.line \in DOMAIN sent
        /\ a.position \in 1 .. Size(a.line) /\ Size(a.line) \in Nat
        /\ a = Nth(a.line, a.position)
    BY HostByteIs DEF N
  <2>2. N \in Nat
    BY LenProperties DEF TypeOK, N
  <2>3. a.line = N /\ a.position > Size(N) - m
    BY <1>1, <1>6, <2>1, <2>2 DEF Arrived, N, m
  <2>4. m # 0
    BY <2>1, <2>3
  <2>5. m <= Size(N)
    <3>1. host_rest # << >>
      BY <2>4, EmptySeq DEF m
    <3>2. QED
      BY <3>1 DEF HostRest, m, N
  <2> DEFINE k == a.position - (Size(N) - m)
  <2>6. k \in 1 .. m /\ Size(N) - m + k = a.position
    BY <1>1, <2>1, <2>3, <2>5
  <2>7. host_rest[k] = Nth(N, Size(N) - m + k)
    BY <1>1, <2>6 DEF HostRest, m, N
  <2>8. host_rest[k] = a
    BY <2>1, <2>3, <2>6, <2>7
  <2>9. QED
    BY <1>1, <2>6, <2>8, InToSet DEF m
<1>7. QED
  BY <1>2, <1>3, <1>4, <1>5, <1>6 DEF Before

LEMMA SameHost ==
  ASSUME UNCHANGED <<sent, host_rest>>, HostRest
  PROVE  /\ HostRest' /\ HostBytes' = HostBytes /\ Arrived' = Arrived
         /\ \A n : Size(n)' = Size(n)
         /\ \A n, i : Nth(n, i)' = Nth(n, i)
<1>1. (\A n : Size(n)' = Size(n)) /\ \A n, i : Nth(n, i)' = Nth(n, i)
  BY DEF Size, Nth
<1>2. HostBytes' = HostBytes
  BY DEF HostBytes, Size, Nth
<1>3. Arrived' = Arrived
  BY <1>2 DEF Arrived, Size
<1>4. HostRest'
  BY DEF HostRest, Size, Nth
<1>5. QED
  BY <1>1, <1>2, <1>3, <1>4
-----------------------------------------------------------------------------
(***************************************************************************)
(* The flow of bytes: the ring holds bytes that were stored, in the order  *)
(* of the host, and behind all that the framer has taken.                  *)
(***************************************************************************)
Flow ==
  /\ HostRest
  /\ lost \subseteq Arrived
  /\ ToSet(RingBytes) \subseteq Stored
  /\ Sorted(RingBytes)
  /\ Before(Taken, ToSet(RingBytes))

LEMMA InitFlow == Init => Flow
<1> SUFFICES ASSUME Init PROVE Flow
  OBVIOUS
<1>1. sent = << >> /\ host_rest = << >> /\ lost = {}
  BY DEF Init
<1>2. DOMAIN sent = {} /\ DOMAIN host_rest = {}
  BY <1>1
<1>3. HostRest
  BY <1>1, <1>2 DEF HostRest
<1>4. RingCount = 0
  <2>1. raw_receive_head = 0 /\ raw_receive_tail = 0
        /\ 0 \in 0 .. RingCapacity - 1
    BY ReceiveConstants DEF Init
  <2>2. QED
    BY <2>1, CountOf DEF RingCount
<1>5. RingBytes = << >>
  BY <1>4 DEF RingBytes
<1>6. HostBytes = {}
  BY <1>2 DEF HostBytes
<1>7. QED
  BY <1>1, <1>3, <1>5, <1>6, ToSetOfEmpty, SortedEmpty
     DEF Flow, Arrived, Stored, Taken, Before

LEMMA FlowBegins ==
  ASSUME TypeOK, TypeOK', Flow, Begins
  PROVE  Flow' /\ Arrived' = Arrived /\ Stored' = Stored /\ Taken' = Taken
<1>1. HostRest' /\ Arrived' = Arrived
  BY BeginsHost DEF Flow
<1>2. lost' = lost /\ RingBytes' = RingBytes
  BY DEF Begins
<1>3. Stored' = Stored /\ Taken' = Taken
  BY <1>1, <1>2 DEF Stored, Taken
<1>4. QED
  BY <1>1, <1>2, <1>3 DEF Flow

LEMMA FlowRests ==
  ASSUME TypeOK, Flow, Rests
  PROVE  Flow' /\ Arrived' = Arrived /\ Stored' = Stored /\ Taken' = Taken
<1>1. HostRest' /\ Arrived' = Arrived
  BY SameHost DEF Flow, Rests
<1>2. lost' = lost /\ RingBytes' = RingBytes
  BY DEF Rests
<1>3. Stored' = Stored /\ Taken' = Taken
  BY <1>1, <1>2 DEF Stored, Taken
<1>4. QED
  BY <1>1, <1>2, <1>3 DEF Flow

LEMMA FlowStores ==
  ASSUME TypeOK, Flow, Stores, NEW b, b = Head(host_rest)
  PROVE  /\ Flow' /\ Stored' = Stored \cup {b} /\ Taken' = Taken
         /\ b \in HostBytes /\ b \notin Arrived /\ Arrived' = Arrived \cup {b}
         /\ \A a \in Arrived : Precedes(a, b)
         /\ HostBytes' = HostBytes
<1>1. /\ HostRest' /\ HostBytes' = HostBytes
      /\ b \in HostBytes /\ b \notin Arrived
      /\ Arrived' = Arrived \cup {b}
      /\ \A a \in Arrived : Precedes(a, b)
  BY ArrivesHost DEF Stores, Flow
<1>2. RingBytes \in Seq(Byte) /\ b \in Byte
  BY <1>1, RingBytesIs DEF HostBytes
<1>3. RingBytes' = Append(RingBytes, b) /\ lost' = lost
  BY DEF Stores
<1>4. ToSet(RingBytes)' = ToSet(RingBytes) \cup {b}
  <2>1. ToSet(Append(RingBytes, b)) = ToSet(RingBytes) \cup {b}
    BY <1>2, ToSetAppend
  <2>2. QED
    BY <1>3, <2>1
<1>5. /\ lost \subseteq Arrived /\ ToSet(RingBytes) \subseteq Stored
      /\ Sorted(RingBytes) /\ Before(Taken, ToSet(RingBytes))
  BY DEF Flow
<1>6. Stored' = Stored \cup {b}
  BY <1>1, <1>3, <1>5 DEF Stored
<1>7. Taken' = Taken
  BY <1>1, <1>4, <1>5, <1>6 DEF Taken, Stored
<1>8. Sorted(RingBytes)'
  <2>1. \A x \in ToSet(RingBytes) : Precedes(x, b)
    BY <1>1, <1>5 DEF Stored
  <2>2. Sorted(Append(RingBytes, b))
    BY <1>2, <1>5, <2>1, SortedAppend
  <2>3. QED
    BY <1>3, <2>2
<1>9. Before(Taken, ToSet(RingBytes))'
  BY <1>1, <1>4, <1>5, <1>7 DEF Before, Taken, Stored
<1>10. lost' \subseteq Arrived' /\ ToSet(RingBytes)' \subseteq Stored'
  BY <1>1, <1>3, <1>4, <1>5, <1>6
<1>11. QED
  BY <1>1, <1>6, <1>7, <1>8, <1>9, <1>10 DEF Flow

LEMMA FlowDrops ==
  ASSUME TypeOK, Flow, Drops, NEW b, b = Head(host_rest)
  PROVE  /\ Flow' /\ Stored' = Stored /\ Taken' = Taken
         /\ b \in HostBytes /\ b \notin Arrived /\ Arrived' = Arrived \cup {b}
         /\ \A a \in Arrived : Precedes(a, b)
         /\ lost' = lost \cup {b} /\ HostBytes' = HostBytes
<1>1. /\ HostRest' /\ HostBytes' = HostBytes
      /\ b \in HostBytes /\ b \notin Arrived
      /\ Arrived' = Arrived \cup {b}
      /\ \A a \in Arrived : Precedes(a, b)
  BY ArrivesHost DEF Drops, Flow
<1>2. RingBytes' = RingBytes /\ lost' = lost \cup {b}
  BY DEF Drops
<1>3. Stored' = Stored /\ Taken' = Taken
  BY <1>1, <1>2 DEF Stored, Taken
<1>4. lost' \subseteq Arrived'
  BY <1>1, <1>2 DEF Flow
<1>5. QED
  BY <1>1, <1>2, <1>3, <1>4 DEF Flow

LEMMA FlowTakes ==
  ASSUME TypeOK, Flow, Takes, NEW b, b = Head(RingBytes)
  PROVE  /\ Flow' /\ Arrived' = Arrived /\ Stored' = Stored
         /\ Taken' = Taken \cup {b}
         /\ b \in HostBytes /\ b \in Stored /\ b \notin Taken
         /\ \A a \in Taken : Precedes(a, b)
         /\ ToSet(RingBytes) = {b} \cup ToSet(RingBytes)'
         /\ b \notin ToSet(RingBytes)'
         /\ \A x \in Stored : x \in Taken \/ x = b \/ Precedes(b, x)
         /\ HostBytes' = HostBytes
<1>1. HostRest' /\ Arrived' = Arrived /\ HostBytes' = HostBytes
  BY SameHost DEF Flow, Takes
<1>2. /\ RingBytes \in Seq(Byte) /\ RingBytes # << >> /\ lost' = lost
      /\ RingBytes' = Tail(RingBytes)
  BY RingBytesIs DEF Takes
<1>3. ToSet(RingBytes) = {b} \cup ToSet(RingBytes)'
  <2>1. ToSet(RingBytes) = {b} \cup ToSet(Tail(RingBytes))
    BY <1>2, ToSetTail
  <2>2. QED
    BY <1>2, <2>1
<1>4. /\ lost \subseteq Arrived /\ ToSet(RingBytes) \subseteq Stored
      /\ Sorted(RingBytes) /\ Before(Taken, ToSet(RingBytes))
  BY DEF Flow
<1>5. Sorted(RingBytes)' /\ \A x \in ToSet(RingBytes)' : Precedes(b, x)
  <2>1. /\ Sorted(Tail(RingBytes))
        /\ \A x \in ToSet(Tail(RingBytes)) : Precedes(b, x)
    BY <1>2, <1>4, SortedTail
  <2>2. QED
    BY <1>2, <2>1
<1>6. b \in Stored /\ b \in HostBytes /\ b \in Byte /\ b \notin Taken
  BY <1>3, <1>4 DEF Stored, Arrived, HostBytes, Taken
<1>7. b \notin ToSet(RingBytes)'
  BY <1>5, <1>6, PrecedesIsOrder
<1>8. Stored' = Stored
  BY <1>1, <1>2 DEF Stored
<1>9. Taken' = Taken \cup {b}
  BY <1>3, <1>6, <1>7, <1>8 DEF Taken
<1>10. \A a \in Taken : Precedes(a, b)
  BY <1>3, <1>4 DEF Before
<1>11. Before(Taken, ToSet(RingBytes))'
  BY <1>3, <1>4, <1>5, <1>9 DEF Before
<1>12. \A x \in Stored : x \in Taken \/ x = b \/ Precedes(b, x)
  BY <1>3, <1>5 DEF Taken
<1>13. lost' \subseteq Arrived' /\ ToSet(RingBytes)' \subseteq Stored'
  BY <1>1, <1>2, <1>3, <1>4, <1>8
<1>14. QED
  BY <1>1, <1>3, <1>5, <1>6, <1>7, <1>8, <1>9, <1>10, <1>11, <1>12, <1>13
     DEF Flow
-----------------------------------------------------------------------------
(***************************************************************************)
(* The framer: everything taken up to the last LF is done with, and behind *)
(* it come the bytes of the line under construction, unless the rest of    *)
(* this line is being discarded.                                           *)
(***************************************************************************)
Ended ==
  {c \in Taken : \E l \in Taken : IsLF(l) /\ (c = l \/ Precedes(c, l))}

Framing ==
  /\ receive_framer.discarding => receive_framer.line = << >>
  /\ Sorted(receive_framer.line)
  /\ \A c \in ToSet(receive_framer.line) : ~IsLF(c)
  /\ ToSet(receive_framer.line) \subseteq Taken
  /\ receive_framer.discarding
       \/ Taken \subseteq Ended \cup ToSet(receive_framer.line)
  /\ Before(Ended, ToSet(receive_framer.line))

Lines ==
  /\ \A i \in DOMAIN Accepted :
       Sorted(Accepted[i]) /\ ToSet(Accepted[i]) \subseteq Ended
  /\ \A i, j \in DOMAIN Accepted :
       i < j => Before(ToSet(Accepted[i]), ToSet(Accepted[j]))

LEMMA EndedGrows ==
  ASSUME TypeOK, Flow, Takes, NEW b, b = Head(RingBytes)
  PROVE  /\ IsLF(b) => Ended' = Taken \cup {b}
         /\ ~IsLF(b) => Ended' = Ended
         /\ Ended \subseteq Taken
<1>1. /\ Taken' = Taken \cup {b} /\ \A a \in Taken : Precedes(a, b)
      /\ b \in HostBytes /\ b \notin Taken
  BY FlowTakes
<1>2. Taken \subseteq Byte /\ b \in Byte
  BY <1>1 DEF Taken, Stored, Arrived, HostBytes
<1>3. Ended' = {c \in Taken \cup {b} :
                  \E l \in Taken \cup {b} : IsLF(l) /\ (c = l \/ Precedes(c, l))}
  BY <1>1 DEF Ended
<1>4. CASE IsLF(b)
  BY <1>1, <1>3, <1>4 DEF Ended
<1>5. CASE ~IsLF(b)
  <2>1. \A l \in Taken : ~Precedes(b, l) /\ b # l
    BY <1>1, <1>2, PrecedesIsOrder
  <2>2. Ended' = Ended
    BY <1>3, <1>5, <2>1 DEF Ended
  <2>3. QED
    BY <1>5, <2>2 DEF Ended
<1>6. QED
  BY <1>4, <1>5

LEMMA InitFraming == Init => Framing /\ Lines
<1> SUFFICES ASSUME Init PROVE Framing /\ Lines
  OBVIOUS
<1>1. /\ receive_framer.line = << >> /\ receive_framer.discarding = FALSE
      /\ delivered = << >> /\ received_lines = << >> /\ sent = << >>
  BY DEF Init, InitialFramer
<1>2. Taken = {}
  BY <1>1 DEF Taken, Stored, Arrived, HostBytes
<1>3. Accepted = << >>
  BY <1>1 DEF Accepted
<1>4. QED
  BY <1>1, <1>2, <1>3, ToSetOfEmpty, SortedEmpty
     DEF Framing, Lines, Before, Ended

LEMMA FramingKept ==
  ASSUME Framing, Lines, Taken' = Taken,
         UNCHANGED <<receive_framer, Accepted>>
  PROVE  Framing' /\ Lines' /\ Ended' = Ended
<1>1. Ended' = Ended
  BY DEF Ended
<1>2. QED
  BY <1>1 DEF Framing, Lines

LEMMA FramingTakes ==
  ASSUME TypeOK, Flow, Framing, Takes
  PROVE  Framing'
<1> DEFINE b == Head(RingBytes)
           line == receive_framer.line
<1>1. /\ Taken' = Taken \cup {b} /\ \A a \in Taken : Precedes(a, b)
      /\ b \in HostBytes /\ b \in Byte
  BY FlowTakes DEF HostBytes
<1>2. /\ IsLF(b) => Ended' = Taken \cup {b}
      /\ ~IsLF(b) => Ended' = Ended
      /\ Ended \subseteq Taken
  BY EndedGrows
<1>3. line \in Seq(Byte)
  BY DEF TypeOK, Framer
<1>4. ASSUME receive_framer'.line = << >>,
             IsLF(b) \/ receive_framer'.discarding
      PROVE  Framing'
  BY <1>1, <1>2, <1>4, ToSetOfEmpty, SortedEmpty DEF Framing, Before
<1> HIDE DEF b, line
<1>5. CASE Aborts(b)
  BY <1>4, <1>5 DEF Aborts
<1>6. CASE Skips(b)
  BY <1>4, <1>6 DEF Skips, Framing
<1>7. CASE Completes(b)
  BY <1>4, <1>7 DEF Completes
<1>8. CASE GivesUp(b)
  BY <1>4, <1>8 DEF GivesUp
<1>9. CASE Keeps(b)
  <2>1. /\ receive_framer'.line = Append(line, b)
        /\ receive_framer'.discarding = FALSE /\ ~IsLF(b)
        /\ ~receive_framer.discarding
    BY <1>9 DEF Keeps, line
  <2>2. /\ Sorted(line) /\ ToSet(line) \subseteq Taken
        /\ \A c \in ToSet(line) : ~IsLF(c)
        /\ Taken \subseteq Ended \cup ToSet(line)
        /\ Before(Ended, ToSet(line))
    BY <2>1 DEF Framing, line
  <2>3. ToSet(receive_framer'.line) = ToSet(line) \cup {b}
    BY <1>1, <1>3, <2>1, ToSetAppend
  <2>4. Sorted(receive_framer'.line)
    <3>1. \A x \in ToSet(line) : Precedes(x, b)
      BY <1>1, <2>2
    <3>2. QED
      BY <1>1, <1>3, <2>1, <2>2, <3>1, SortedAppend
  <2>5. Ended' = Ended
    BY <1>2, <2>1
  <2>6. Before(Ended', ToSet(receive_framer'.line))
    BY <1>1, <1>2, <2>2, <2>3, <2>5 DEF Before
  <2>7. QED
    BY <1>1, <2>1, <2>2, <2>3, <2>4, <2>5, <2>6 DEF Framing
<1>10. QED
  BY <1>5, <1>6, <1>7, <1>8, <1>9, TakesKinds DEF b

LEMMA LinesTakes ==
  ASSUME TypeOK, Flow, Framing, Lines, Takes
  PROVE  Lines'
<1> DEFINE b == Head(RingBytes)
           K == Len(Accepted)
           new == CompletedLine(receive_framer)
<1>1. IsLF(b) => Ended' = Taken \cup {b}
  BY EndedGrows
<1>2. Ended \subseteq Ended' /\ Ended \subseteq Taken
  BY EndedGrows
<1>3. CASE Accepted' = Accepted
  BY <1>2, <1>3 DEF Lines
<1>4. CASE IsLF(b) /\ Accepted' = Append(Accepted, new)
  <2>1. receive_framer \in Framer /\ new \in Seq(Byte)
    BY CompletedLineType DEF TypeOK
  <2>2. /\ Accepted \in Seq(Seq(Byte)) /\ DOMAIN Accepted = 1 .. K
        /\ K \in Nat
    BY AcceptedType, LenProperties
  <2>3. /\ DOMAIN Accepted' = 1 .. K + 1
        /\ \A i \in 1 .. K : Accepted'[i] = Accepted[i]
        /\ Accepted'[K + 1] = new
    BY <1>4, <2>1, <2>2, AppendProperties, LenProperties
  <2>4. /\ Sorted(new)
        /\ ToSet(new) \subseteq ToSet(receive_framer.line)
    BY <2>1, SortedCompletedLine DEF Framing
  <2>5. ToSet(new) \subseteq Ended' /\ Before(Ended, ToSet(new))
    BY <1>1, <1>4, <2>4 DEF Framing, Before
  <2> HIDE DEF K, new
  <2>6. ASSUME NEW i \in 1 .. K + 1
        PROVE  Sorted(Accepted'[i]) /\ ToSet(Accepted'[i]) \subseteq Ended'
    <3>1. CASE i \in 1 .. K
      BY <1>2, <2>2, <2>3, <3>1 DEF Lines
    <3>2. CASE i = K + 1
      BY <2>3, <2>4, <2>5, <3>2
    <3>3. QED
      BY <2>2, <3>1, <3>2
  <2>7. ASSUME NEW i \in 1 .. K + 1, NEW j \in 1 .. K + 1, i < j
        PROVE  Before(ToSet(Accepted'[i]), ToSet(Accepted'[j]))
    <3>1. i \in 1 .. K
      BY <2>2, <2>7
    <3>2. CASE j \in 1 .. K
      BY <2>2, <2>3, <2>7, <3>1, <3>2 DEF Lines
    <3>3. CASE j = K + 1
      BY <2>2, <2>3, <2>5, <3>1, <3>3 DEF Lines, Before
    <3>4. QED
      BY <2>2, <3>2, <3>3
  <2>8. QED
    BY <2>3, <2>6, <2>7 DEF Lines
<1>5. QED
  BY <1>3, <1>4, TakesKinds
     DEF Aborts, Skips, Completes, GivesUp, Keeps, SameLines

(***************************************************************************)
(* BytesInOrder follows: accepted lines, the line under construction, the  *)
(* ring and the rest at the host are in order, each and one behind another.*)
(***************************************************************************)
LEMMA OrderFollows == TypeOK /\ Flow /\ Framing /\ Lines => BytesInOrder
<1> SUFFICES ASSUME TypeOK, Flow, Framing, Lines PROVE BytesInOrder
  OBVIOUS
<1> DEFINE line == receive_framer.line
           last == <<line, RingBytes, host_rest>>
           pieces == Accepted \o last
           K == Len(Accepted)
<1>1. /\ line \in Seq(Byte) /\ RingBytes \in Seq(Byte)
      /\ host_rest \in Seq(Byte) /\ Accepted \in Seq(Seq(Byte))
  BY RingBytesIs, AcceptedType DEF TypeOK, Framer
<1>2. /\ last \in Seq(Seq(Byte)) /\ Len(last) = 3
      /\ last[1] = line /\ last[2] = RingBytes /\ last[3] = host_rest
  BY <1>1
<1>3. K \in Nat /\ DOMAIN Accepted = 1 .. K
  BY <1>1, LenProperties
<1> HIDE DEF line, last, K
<1>4. /\ pieces \in Seq(Seq(Byte)) /\ DOMAIN pieces = 1 .. K + 3
      /\ \A i \in 1 .. K : pieces[i] = Accepted[i]
      /\ pieces[K + 1] = line /\ pieces[K + 2] = RingBytes
      /\ pieces[K + 3] = host_rest
  <2>1. /\ pieces \in Seq(Seq(Byte)) /\ Len(pieces) = K + 3
        /\ \A i \in 1 .. K + 3 :
             pieces[i] = IF i <= K THEN Accepted[i] ELSE last[i - K]
    <3>1. /\ pieces \in Seq(Seq(Byte)) /\ Len(pieces) = K + Len(last)
          /\ \A i \in 1 .. K + Len(last) :
               pieces[i] = IF i <= K THEN Accepted[i] ELSE last[i - K]
      BY <1>1, <1>2, ConcatProperties, Zenon DEF K
    <3>2. QED
      BY <1>2, <3>1
  <2>2. DOMAIN pieces = 1 .. K + 3
    BY <2>1, LenProperties
  <2> HIDE DEF pieces
  <2>3. \A i \in 1 .. K : pieces[i] = Accepted[i]
    BY <1>3, <2>1
  <2>4. (K + 1) - K = 1 /\ (K + 2) - K = 2 /\ (K + 3) - K = 3
    BY <1>3
  <2>5. /\ pieces[K + 1] = last[1] /\ pieces[K + 2] = last[2]
        /\ pieces[K + 3] = last[3]
    BY <1>3, <2>1, <2>4
  <2>6. QED
    BY <1>2, <2>1, <2>2, <2>3, <2>5
<1> HIDE DEF pieces
<1>5. /\ Ended \subseteq Taken /\ Taken \subseteq Arrived
      /\ ToSet(RingBytes) \subseteq Arrived
      /\ ToSet(line) \subseteq Taken /\ Before(Ended, ToSet(line))
      /\ Before(Taken, ToSet(RingBytes))
      /\ Before(Arrived, ToSet(host_rest))
      /\ \A i \in 1 .. K : ToSet(Accepted[i]) \subseteq Ended
  BY <1>3, RestFollows DEF Flow, Framing, Lines, Ended, Taken, Stored, line
<1>6. ASSUME NEW i \in 1 .. K + 3 PROVE Sorted(pieces[i])
  <2>1. Sorted(line) /\ Sorted(RingBytes) /\ Sorted(host_rest)
    BY RestFollows DEF Flow, Framing, line
  <2>2. CASE i \in 1 .. K
    BY <1>3, <1>4, <2>2 DEF Lines
  <2>3. CASE i = K + 1
    BY <1>4, <2>1, <2>3
  <2>4. CASE i = K + 2
    BY <1>4, <2>1, <2>4
  <2>5. CASE i = K + 3
    BY <1>4, <2>1, <2>5
  <2>6. QED
    BY <1>3, <2>2, <2>3, <2>4, <2>5
<1>7. ASSUME NEW i \in 1 .. K + 3, NEW j \in 1 .. K + 3, i < j
      PROVE  Before(ToSet(pieces[i]), ToSet(pieces[j]))
  <2>1. CASE j \in 1 .. K
    <3>1. i \in 1 .. K
      BY <1>3, <1>7, <2>1
    <3>2. QED
      BY <1>3, <1>4, <1>7, <2>1, <3>1 DEF Lines
  <2>2. CASE j = K + 1
    <3>1. i \in 1 .. K
      BY <1>3, <1>7, <2>2
    <3>2. ToSet(pieces[i]) \subseteq Ended
      BY <1>4, <1>5, <3>1
    <3>3. QED
      BY <1>4, <1>5, <2>2, <3>2 DEF Before
  <2>3. CASE j = K + 2
    <3>1. i \in 1 .. K \/ i = K + 1
      BY <1>3, <1>7, <2>3
    <3>2. ToSet(pieces[i]) \subseteq Taken
      BY <1>4, <1>5, <3>1
    <3>3. QED
      BY <1>4, <1>5, <2>3, <3>2 DEF Before
  <2>4. CASE j = K + 3
    <3>1. i \in 1 .. K \/ i = K + 1 \/ i = K + 2
      BY <1>3, <1>7, <2>4
    <3>2. ToSet(pieces[i]) \subseteq Arrived
      BY <1>4, <1>5, <3>1
    <3>3. QED
      BY <1>4, <1>5, <2>4, <3>2 DEF Before
  <2>5. QED
    BY <1>3, <2>1, <2>2, <2>3, <2>4
<1>8. ASSUME NEW i \in 1 .. K + 3, NEW j \in 1 .. K + 3,
             NEW p \in DOMAIN pieces[i], NEW q \in DOMAIN pieces[j],
             i < j \/ (i = j /\ p < q)
      PROVE  Precedes(pieces[i][p], pieces[j][q])
  <2>1. CASE i = j /\ p < q
    BY <1>6, <2>1 DEF Sorted
  <2>2. CASE i < j
    <3>1. /\ pieces[i][p] \in ToSet(pieces[i])
          /\ pieces[j][q] \in ToSet(pieces[j])
      BY DEF ToSet
    <3>2. QED
      BY <1>7, <2>2, <3>1 DEF Before
  <2>3. QED
    BY <1>8, <2>1, <2>2
<1>9. QED
  BY <1>4, <1>8 DEF BytesInOrder, pieces, last, line
-----------------------------------------------------------------------------
(***************************************************************************)
(* Every line whose LF was taken is counted: TakenLines are their numbers. *)
(***************************************************************************)
TakenLines == {n \in Nat : \E l \in Taken : IsLF(l) /\ l.line = n}

Counted ==
  LET counted == Len(Accepted) + completed_lines_dropped
                 + receive_framer.overflow_count
      begun   == Cardinality(TakenLines)
                 + (IF receive_framer.discarding THEN 1 ELSE 0)
  IN /\ IsFiniteSet(TakenLines)
     /\ receive_overflow_pending => lost # {}
     /\ begun <= counted
     /\ lost = {} => begun = counted

LEMMA InitCounted == Init => Counted
<1> SUFFICES ASSUME Init PROVE Counted
  OBVIOUS
<1>1. /\ receive_framer.overflow_count = 0
      /\ receive_framer.discarding = FALSE /\ completed_lines_dropped = 0
      /\ delivered = << >> /\ received_lines = << >> /\ sent = << >>
      /\ receive_overflow_pending = FALSE
  BY DEF Init, InitialFramer
<1>2. Taken = {}
  BY <1>1 DEF Taken, Stored, Arrived, HostBytes
<1>3. TakenLines = {}
  BY <1>2 DEF TakenLines
<1>4. Accepted = << >> /\ Len(Accepted) = 0
  BY <1>1, EmptySeq DEF Accepted
<1>5. QED
  BY <1>1, <1>3, <1>4, FS_EmptySet DEF Counted

LEMMA CountedKept ==
  ASSUME TypeOK, Counted, Taken' = Taken, lost \subseteq lost',
         UNCHANGED <<receive_framer, Accepted, completed_lines_dropped>>,
         receive_overflow_pending' => receive_overflow_pending \/ lost' # {}
  PROVE  Counted'
<1>1. TakenLines' = TakenLines
  BY DEF TakenLines
<1>2. QED
  BY <1>1 DEF Counted

LEMMA CountedIf ==
  ASSUME NEW t \in Nat, NEW k \in Nat, NEW d \in Nat, NEW o \in Nat,
         NEW discarding \in {0, 1},
         IsFiniteSet(TakenLines'), Cardinality(TakenLines') = t,
         Len(Accepted') = k, completed_lines_dropped' = d,
         receive_framer'.overflow_count = o,
         (IF receive_framer'.discarding THEN 1 ELSE 0) = discarding,
         receive_overflow_pending' = FALSE,
         t + discarding <= k + d + o,
         lost' = {} => t + discarding = k + d + o
  PROVE  Counted'
BY DEF Counted

LEMMA CountedTakes ==
  ASSUME TypeOK, TypeOK', Flow, Counted, Takes
  PROVE  Counted'
<1> DEFINE b == Head(RingBytes)
           K == Len(Accepted)
           D == completed_lines_dropped
           O == receive_framer.overflow_count
           T == Cardinality(TakenLines)
<1>1. /\ Taken' = Taken \cup {b} /\ b \in HostBytes /\ b \notin Taken
      /\ lost' = lost /\ receive_overflow_pending' = FALSE
  BY FlowTakes DEF Takes
<1>2. /\ IsFiniteSet(TakenLines) /\ T \in Nat
      /\ receive_overflow_pending => lost # {}
      /\ T + (IF receive_framer.discarding THEN 1 ELSE 0) <= K + D + O
      /\ lost = {} =>
           T + (IF receive_framer.discarding THEN 1 ELSE 0) = K + D + O
  BY FS_CardinalityType DEF Counted
<1>3. /\ K \in Nat /\ D \in Nat /\ O \in Nat
      /\ receive_framer.discarding \in BOOLEAN
  BY AcceptedType, LenProperties DEF TypeOK, Framer
<1>4. b.line \in Nat /\ Taken \subseteq HostBytes
  BY <1>1, HostByteIs DEF Flow, Taken, Stored, Arrived
<1>5. CASE IsLF(b)
  <2>1. TakenLines' = TakenLines \cup {b.line}
    BY <1>1, <1>4, <1>5 DEF TakenLines
  <2>2. b.line \notin TakenLines
    <3>1. SUFFICES ASSUME NEW l \in Taken, IsLF(l), l.line = b.line
                   PROVE  FALSE
      BY DEF TakenLines
    <3>2. l.position = Size(l.line) /\ b.position = Size(b.line)
          /\ l = Nth(l.line, l.position) /\ b = Nth(b.line, b.position)
      BY <1>1, <1>4, <1>5, <3>1, HostByteIs DEF Flow
    <3>3. l = b
      BY <3>1, <3>2
    <3>4. QED
      BY <1>1, <3>1, <3>3
  <2>3. IsFiniteSet(TakenLines') /\ Cardinality(TakenLines') = T + 1
    BY <1>2, <2>1, <2>2, FS_AddElement
  <2>4. CASE Aborts(b)
    <3>1. /\ Len(Accepted') = K /\ completed_lines_dropped' = D
          /\ receive_framer'.overflow_count = O + 1
          /\ (IF receive_framer'.discarding THEN 1 ELSE 0) = 0
          /\ receive_overflow_pending
      BY <1>5, <2>4 DEF Aborts, SameLines
    <3>2. (T + 1) + 0 <= K + D + (O + 1)
      BY <1>2, <1>3
    <3>3. O + 1 \in Nat /\ T + 1 \in Nat /\ 0 \in {0, 1} /\ lost' # {}
      BY <1>1, <1>2, <1>3, <3>1
    <3>4. QED
      BY <1>1, <1>3, <2>3, <3>1, <3>2, <3>3, CountedIf
  <2>5. CASE Skips(b)
    <3>1. /\ Len(Accepted') = K /\ completed_lines_dropped' = D
          /\ receive_framer'.overflow_count = O
          /\ (IF receive_framer'.discarding THEN 1 ELSE 0) = 0
          /\ (IF receive_framer.discarding THEN 1 ELSE 0) = 1
      BY <1>5, <2>5 DEF Skips, SameLines
    <3>2. /\ (T + 1) + 0 <= K + D + O /\ T + 1 \in Nat /\ 0 \in {0, 1}
          /\ lost' = {} => (T + 1) + 0 = K + D + O
      BY <1>1, <1>2, <1>3, <3>1
    <3>3. QED
      BY <1>1, <1>3, <2>3, <3>1, <3>2, CountedIf
  <2>6. CASE Completes(b)
    <3>1. /\ receive_framer'.overflow_count = O
          /\ (IF receive_framer'.discarding THEN 1 ELSE 0) = 0
          /\ (IF receive_framer.discarding THEN 1 ELSE 0) = 0
      BY <2>6 DEF Completes
    <3>2. /\ T + 1 \in Nat /\ K + 1 \in Nat /\ D + 1 \in Nat /\ 0 \in {0, 1}
          /\ T + 0 <= K + D + O
          /\ lost' = {} => T + 0 = K + D + O
      BY <1>1, <1>2, <1>3, <3>1
    <3>3. CASE /\ Accepted' = Append(Accepted, CompletedLine(receive_framer))
               /\ UNCHANGED completed_lines_dropped
      <4>1. CompletedLine(receive_framer) \in Seq(Byte)
        BY CompletedLineType DEF TypeOK
      <4>2. Len(Accepted') = K + 1 /\ completed_lines_dropped' = D
        BY <3>3, <4>1, AcceptedType, AppendProperties
      <4>3. /\ (T + 1) + 0 <= (K + 1) + D + O
            /\ lost' = {} => (T + 1) + 0 = (K + 1) + D + O
        BY <1>2, <1>3, <3>2
      <4>4. QED
        BY <1>1, <1>3, <2>3, <3>1, <3>2, <4>2, <4>3, CountedIf
    <3>4. CASE completed_lines_dropped' = D + 1 /\ UNCHANGED Accepted
      <4>1. /\ (T + 1) + 0 <= K + (D + 1) + O
            /\ lost' = {} => (T + 1) + 0 = K + (D + 1) + O
        BY <1>2, <1>3, <3>2
      <4>2. QED
        BY <1>1, <1>3, <2>3, <3>1, <3>2, <3>4, <4>1, CountedIf
    <3>5. QED
      BY <2>6, <3>3, <3>4 DEF Completes
  <2>7. QED
    BY <1>5, <2>4, <2>5, <2>6, TakesKinds DEF GivesUp, Keeps
<1>6. CASE ~IsLF(b)
  <2>1. TakenLines' = TakenLines
    BY <1>1, <1>6 DEF TakenLines
  <2>2. IsFiniteSet(TakenLines') /\ Cardinality(TakenLines') = T
    BY <1>2, <2>1
  <2>3. CASE Aborts(b) \/ GivesUp(b)
    <3>1. /\ Len(Accepted') = K /\ completed_lines_dropped' = D
          /\ receive_framer'.overflow_count = O + 1
          /\ (IF receive_framer'.discarding THEN 1 ELSE 0) = 1
          /\ receive_overflow_pending \/ ~receive_framer.discarding
      BY <1>6, <2>3 DEF Aborts, GivesUp, SameLines
    <3>2. /\ T + 1 <= K + D + (O + 1) /\ O + 1 \in Nat /\ 1 \in {0, 1}
          /\ lost' = {} => T + 1 = K + D + (O + 1)
      BY <1>1, <1>2, <1>3, <3>1
    <3>3. QED
      BY <1>1, <1>2, <1>3, <2>2, <3>1, <3>2, CountedIf
  <2>4. CASE Skips(b) \/ Keeps(b)
    <3>1. /\ Len(Accepted') = K /\ completed_lines_dropped' = D
          /\ receive_framer'.overflow_count = O
          /\ (IF receive_framer'.discarding THEN 1 ELSE 0)
               = (IF receive_framer.discarding THEN 1 ELSE 0)
      BY <1>6, <2>4 DEF Skips, Keeps, SameLines
    <3>2. PICK x \in {0, 1} : x = (IF receive_framer.discarding THEN 1 ELSE 0)
      OBVIOUS
    <3>3. T + x <= K + D + O /\ (lost' = {} => T + x = K + D + O)
      BY <1>1, <1>2, <3>2
    <3>4. QED
      BY <1>1, <1>2, <1>3, <2>2, <3>1, <3>2, <3>3, CountedIf
  <2>5. QED
    BY <1>6, <2>3, <2>4, TakesKinds DEF Completes
<1>7. QED
  BY <1>5, <1>6

(***************************************************************************)
(* TakenLines are the lines that TerminatedLines counts.                   *)
(***************************************************************************)
LEMMA TerminatedIsTaken ==
  ASSUME TypeOK, Flow
  PROVE  TerminatedLines = Cardinality(TakenLines)
<1> DEFINE Elsewhere == Outstanding \cup lost
           Terminated == {n \in DOMAIN sent :
                            \A b \in Elsewhere : ~(IsLF(b) /\ b.line = n)}
<1>1. HostRest
  BY DEF Flow
<1>2. /\ ToSet(host_rest) \subseteq HostBytes
      /\ HostBytes \subseteq Arrived \cup ToSet(host_rest)
      /\ Before(Arrived, ToSet(host_rest))
  BY <1>1, RestFollows
<1>3. /\ Elsewhere \subseteq HostBytes
      /\ \A b \in HostBytes : b \in Elsewhere <=> b \notin Taken
  <2>1. \A b \in Arrived : b \notin ToSet(host_rest)
    BY <1>2, PrecedesIsOrder DEF Before, Arrived, HostBytes
  <2>2. lost \subseteq Arrived /\ ToSet(RingBytes) \subseteq Stored
        /\ Arrived \subseteq HostBytes
    BY DEF Flow, Arrived
  <2>3. QED
    BY <1>2, <2>1, <2>2 DEF Outstanding, Taken, Stored
<1>4. Taken \subseteq HostBytes
  BY DEF Taken, Stored, Arrived
<1> HIDE DEF Elsewhere
<1>5. ASSUME NEW n \in Terminated PROVE n \in TakenLines
  <2>1. n \in DOMAIN sent /\ n \in Nat /\ Size(n) \in 1 .. Size(n)
    BY <1>1, SentIs
  <2> DEFINE l == Nth(n, Size(n))
  <2>2. l \in HostBytes /\ l.line = n /\ IsLF(l)
    BY <1>1, <2>1, NthIsHostByte
  <2> HIDE DEF l
  <2>3. l \notin Elsewhere
    BY <2>2, <1>5
  <2>4. l \in Taken
    BY <1>3, <2>2, <2>3
  <2>5. QED
    BY <2>1, <2>2, <2>4 DEF TakenLines
<1>6. ASSUME NEW n \in TakenLines PROVE n \in Terminated
  <2>1. PICK l \in Taken : IsLF(l) /\ l.line = n
    BY DEF TakenLines
  <2>2. l \in HostBytes /\ l.line \in DOMAIN sent
    BY <1>1, <1>4, <2>1, HostByteIs
  <2>3. SUFFICES ASSUME NEW b \in Elsewhere, IsLF(b), b.line = n PROVE FALSE
    BY <2>1, <2>2
  <2>4. b \in HostBytes
    BY <1>3
  <2>5. /\ l = Nth(l.line, l.position) /\ l.position = Size(l.line)
        /\ b = Nth(b.line, b.position) /\ b.position = Size(b.line)
    BY <1>1, <2>1, <2>2, <2>3, <2>4, HostByteIs
  <2>6. b = l
    BY <2>1, <2>3, <2>5
  <2>7. QED
    BY <1>3, <2>1, <2>4, <2>6
<1>7. Terminated = TakenLines
  BY <1>5, <1>6
<1>8. QED
  BY <1>7 DEF TerminatedLines, Elsewhere

LEMMA CountFollows == TypeOK /\ Flow /\ Counted => LinesAreCounted
BY TerminatedIsTaken DEF Counted, LinesAreCounted
-----------------------------------------------------------------------------
(***************************************************************************)
(* Gaps.  A stored byte is a gap's end when the byte before it was lost;   *)
(* the last gap is open while nothing was stored behind it.                *)
(***************************************************************************)
Follows(c, b) == \/ c.line = b.line /\ b.position = c.position + 1
                 \/ IsLF(c) /\ b.line = c.line + 1 /\ b.position = 1

Gaps == {g \in Stored : \E c \in lost : Follows(c, g)}
Open == \E c \in lost : \A d \in Arrived : ~Precedes(c, d)

LEMMA NothingBetween ==
  ASSUME TypeOK, HostRest, NEW c \in HostBytes, NEW b \in HostBytes,
         Follows(c, b)
  PROVE  /\ Precedes(c, b)
         /\ \A d \in HostBytes : Precedes(d, b) => ~Precedes(c, d)
<1>1. /\ c.line \in Nat /\ c.position \in Nat
      /\ b.line \in Nat /\ b.position \in Nat
      /\ IsLF(c) <=> c.position = Size(c.line)
  BY HostByteIs
<1>2. ASSUME NEW d \in HostBytes, Precedes(d, b), Precedes(c, d) PROVE FALSE
  <2>1. /\ d.line \in Nat /\ d.position \in Nat /\ d.position >= 1
        /\ d.position <= Size(d.line) /\ Size(d.line) \in Nat
    BY HostByteIs
  <2>2. CASE c.line = b.line /\ b.position = c.position + 1
    BY <1>1, <1>2, <2>1, <2>2 DEF Precedes
  <2>3. CASE IsLF(c) /\ b.line = c.line + 1 /\ b.position = 1
    <3>1. d.line = c.line
      BY <1>1, <1>2, <2>1, <2>3 DEF Precedes
    <3>2. c.position < d.position /\ c.position = Size(d.line)
      BY <1>1, <1>2, <2>1, <2>3, <3>1 DEF Precedes
    <3>3. QED
      BY <1>1, <2>1, <3>2
  <2>4. QED
    BY <2>2, <2>3 DEF Follows
<1>3. Precedes(c, b)
  BY <1>1 DEF Follows, Precedes
<1>4. QED
  BY <1>2, <1>3

LEMMA Predecessor ==
  ASSUME TypeOK, HostRest, NEW b \in HostBytes,
         ~(b.line = 1 /\ b.position = 1)
  PROVE  \E c \in HostBytes : Follows(c, b)
<1>1. /\ b.line \in Nat /\ b.position \in Nat /\ b.line \in DOMAIN sent
      /\ b.line >= 1 /\ b.position >= 1 /\ b.position <= Size(b.line)
      /\ b.line <= Len(sent) /\ Size(b.line) \in Nat
  BY HostByteIs
<1>2. CASE b.position # 1
  <2>1. b.position - 1 \in 1 .. Size(b.line)
    BY <1>1, <1>2
  <2> DEFINE c == Nth(b.line, b.position - 1)
  <2>2. c \in HostBytes /\ c.line = b.line /\ c.position = b.position - 1
    BY <1>1, <2>1, NthIsHostByte
  <2> HIDE DEF c
  <2>3. b.position = c.position + 1
    BY <1>1, <2>2
  <2>4. QED
    BY <2>2, <2>3 DEF Follows
<1>3. CASE b.position = 1
  <2>1. b.line - 1 \in 1 .. Len(sent) /\ DOMAIN sent = 1 .. Len(sent)
    <3>1. Len(sent) \in Nat /\ DOMAIN sent = 1 .. Len(sent)
      BY LenProperties DEF TypeOK
    <3>2. QED
      BY <1>1, <1>3, <3>1
  <2> DEFINE n == b.line - 1
             c == Nth(n, Size(n))
  <2>2. n \in DOMAIN sent /\ Size(n) \in 1 .. Size(n)
    BY <2>1, SentIs
  <2>3. c \in HostBytes /\ c.line = n /\ IsLF(c)
    BY <2>2, NthIsHostByte
  <2>4. b.line = n + 1
    BY <1>1
  <2> HIDE DEF n, c
  <2>5. QED
    BY <1>3, <2>3, <2>4 DEF Follows
<1>4. QED
  BY <1>2, <1>3

(***************************************************************************)
(* What precedes a byte that has arrived has arrived.                      *)
(***************************************************************************)
LEMMA ArrivedBefore ==
  ASSUME TypeOK, HostRest, NEW b \in Arrived, NEW c \in HostBytes,
         Precedes(c, b)
  PROVE  c \in Arrived
<1>1. b \in HostBytes
  BY DEF Arrived
<1>2. /\ b.line \in Nat /\ b.position \in Nat /\ b.line <= Len(sent)
      /\ c.line \in Nat /\ c.position \in Nat /\ Size(b.line) \in Nat
  BY <1>1, HostByteIs
<1>3. Len(sent) \in Nat /\ Len(host_rest) \in Nat
  BY LenProperties DEF TypeOK
<1>4. CASE c.line < b.line
  BY <1>2, <1>3, <1>4 DEF Arrived
<1>5. CASE c.line = b.line /\ c.position < b.position
  BY <1>2, <1>3, <1>5 DEF Arrived
<1>6. QED
  BY <1>4, <1>5 DEF Precedes

LEMMA GapsKept ==
  ASSUME Stored' = Stored, Arrived' = Arrived, lost' = lost
  PROVE  Gaps' = Gaps /\ (Open' <=> Open)
BY DEF Gaps, Open

LEMMA GapsStores ==
  ASSUME TypeOK, Flow, Stores, NEW b, b = Head(host_rest)
  PROVE  /\ Gaps \subseteq Gaps' /\ Gaps' \subseteq Gaps \cup {b}
         /\ b \in Gaps' => Open
         /\ ~Open'
<1>1. /\ Stored' = Stored \cup {b} /\ Arrived' = Arrived \cup {b}
      /\ b \in HostBytes /\ \A a \in Arrived : Precedes(a, b)
      /\ lost' = lost
  BY FlowStores DEF Stores
<1>2. lost \subseteq Arrived /\ Arrived \subseteq HostBytes /\ HostRest
  BY DEF Flow, Arrived
<1>3. Gaps \subseteq Gaps' /\ Gaps' \subseteq Gaps \cup {b}
  BY <1>1 DEF Gaps
<1>4. ASSUME b \in Gaps' PROVE Open
  <2>1. PICK c \in lost : Follows(c, b)
    BY <1>1, <1>4 DEF Gaps
  <2>2. \A d \in Arrived : ~Precedes(c, d)
    BY <1>1, <1>2, <2>1, NothingBetween
  <2>3. QED
    BY <2>2 DEF Open
<1>5. ~Open'
  BY <1>1, <1>2 DEF Open
<1>6. QED
  BY <1>3, <1>4, <1>5

LEMMA GapsDrops ==
  ASSUME TypeOK, Flow, Drops
  PROVE  Gaps' = Gaps /\ Open'
<1> DEFINE b == Head(host_rest)
<1>1. /\ Stored' = Stored /\ Arrived' = Arrived \cup {b}
      /\ b \in HostBytes /\ \A a \in Arrived : Precedes(a, b)
      /\ lost' = lost \cup {b}
  BY FlowDrops
<1>2. /\ Arrived \subseteq HostBytes /\ HostRest /\ Stored \subseteq Arrived
      /\ HostBytes \subseteq Byte
  BY DEF Flow, Arrived, HostBytes, Stored
<1> HIDE DEF b
<1>3. \A g \in Arrived : ~Precedes(b, g)
  BY <1>1, <1>2, PrecedesIsOrder
<1>4. \A g \in Stored : ~Follows(b, g)
  BY <1>1, <1>2, <1>3, NothingBetween
<1>5. Gaps' = Gaps
  BY <1>1, <1>4 DEF Gaps
<1>6. ~Precedes(b, b)
  BY <1>1, <1>2, PrecedesIsOrder
<1>7. QED
  BY <1>1, <1>3, <1>5, <1>6 DEF Open

(***************************************************************************)
(* Every gap is reported: there are no more of them than discards begun,   *)
(* and when the last one is open and no overflow is pending, the discard   *)
(* that counts for it has begun already.                                   *)
(***************************************************************************)
Reported ==
  /\ IsFiniteSet(Gaps)
  /\ receive_overflow_pending => Open
  /\ Cardinality(Gaps) <= receive_framer.overflow_count
  /\ Open /\ ~receive_overflow_pending
       => Cardinality(Gaps) < receive_framer.overflow_count

LEMMA InitReported == Init => Reported
<1> SUFFICES ASSUME Init PROVE Reported
  OBVIOUS
<1>1. /\ receive_framer.overflow_count = 0 /\ lost = {}
      /\ receive_overflow_pending = FALSE
  BY DEF Init, InitialFramer
<1>2. Gaps = {} /\ ~Open
  BY <1>1 DEF Gaps, Open
<1>3. IsFiniteSet({}) /\ Cardinality({}) = 0
  BY FS_EmptySet
<1>4. QED
  BY <1>1, <1>2, <1>3 DEF Reported

LEMMA ReportedKept ==
  ASSUME Reported, Gaps' = Gaps, Open' <=> Open,
         UNCHANGED <<receive_framer, receive_overflow_pending>>
  PROVE  Reported'
BY DEF Reported

LEMMA ReportedStores ==
  ASSUME TypeOK, Flow, Reported, Stores
  PROVE  Reported'
<1> DEFINE b == Head(host_rest)
<1>1. /\ Gaps \subseteq Gaps' /\ Gaps' \subseteq Gaps \cup {b}
      /\ b \in Gaps' => Open
      /\ ~Open'
  BY GapsStores
<1>2. /\ receive_framer' = receive_framer /\ ~receive_overflow_pending
      /\ ~receive_overflow_pending'
  BY DEF Stores, Arrives
<1>3. IsFiniteSet(Gaps) /\ Cardinality(Gaps) \in Nat
      /\ receive_framer.overflow_count \in Nat
  BY FS_CardinalityType DEF Reported, TypeOK, Framer
<1> HIDE DEF b
<1>4. CASE b \in Gaps' /\ b \notin Gaps
  <2>1. Gaps' = Gaps \cup {b}
    BY <1>1, <1>4
  <2>2. IsFiniteSet(Gaps') /\ Cardinality(Gaps') = Cardinality(Gaps) + 1
    BY <1>3, <1>4, <2>1, FS_AddElement
  <2>3. Cardinality(Gaps) < receive_framer.overflow_count
    BY <1>1, <1>2, <1>4 DEF Reported
  <2>4. Cardinality(Gaps') <= receive_framer'.overflow_count
    BY <1>2, <1>3, <2>2, <2>3
  <2>5. QED
    BY <1>1, <1>2, <2>2, <2>4 DEF Reported
<1>5. CASE ~(b \in Gaps' /\ b \notin Gaps)
  <2>1. Gaps' = Gaps
    BY <1>1, <1>5
  <2>2. QED
    BY <1>1, <1>2, <2>1 DEF Reported
<1>6. QED
  BY <1>4, <1>5

LEMMA ReportedDrops ==
  ASSUME TypeOK, Flow, Reported, Drops
  PROVE  Reported'
BY GapsDrops DEF Reported, Drops, Arrives

LEMMA ReportedTakes ==
  ASSUME TypeOK, Flow, Reported, Takes
  PROVE  Reported'
<1> DEFINE b == Head(RingBytes)
<1>1. Gaps' = Gaps /\ (Open' <=> Open)
  BY FlowTakes, GapsKept DEF Takes
<1>2. ~receive_overflow_pending'
  BY DEF Takes
<1>3. /\ receive_framer.overflow_count \in Nat
      /\ \/ receive_framer'.overflow_count = receive_framer.overflow_count + 1
         \/ /\ receive_framer'.overflow_count = receive_framer.overflow_count
            /\ ~receive_overflow_pending
  BY TakesKinds
     DEF Aborts, Skips, Completes, GivesUp, Keeps, TypeOK, Framer
<1>4. /\ IsFiniteSet(Gaps) /\ Cardinality(Gaps) \in Nat
      /\ Cardinality(Gaps) <= receive_framer.overflow_count
      /\ Open /\ ~receive_overflow_pending
           => Cardinality(Gaps) < receive_framer.overflow_count
  BY FS_CardinalityType DEF Reported
<1>5. CASE receive_framer'.overflow_count = receive_framer.overflow_count + 1
  <2>1. Cardinality(Gaps) < receive_framer'.overflow_count
    BY <1>3, <1>4, <1>5
  <2>2. Cardinality(Gaps) <= receive_framer'.overflow_count
    BY <1>3, <1>4, <1>5
  <2>3. QED
    BY <1>1, <1>2, <1>4, <2>1, <2>2 DEF Reported
<1>6. CASE /\ receive_framer'.overflow_count = receive_framer.overflow_count
           /\ ~receive_overflow_pending
  BY <1>1, <1>2, <1>4, <1>6 DEF Reported
<1>7. QED
  BY <1>3, <1>5, <1>6
-----------------------------------------------------------------------------
(***************************************************************************)
(* Without a gap before it, the byte that is taken continues the line      *)
(* under construction: it is the first byte of a host line when nothing    *)
(* was kept, and else the one behind the byte kept last.                   *)
(***************************************************************************)
LEMMA Continues ==
  ASSUME TypeOK, Flow, Framing, Takes, NEW b, b = Head(RingBytes),
         b \notin Gaps, ~receive_framer.discarding
  PROVE  LET line == receive_framer.line
             last == line[Len(line)]
         IN \/ line = << >> /\ b.position = 1
            \/ /\ line # << >> /\ last \in ToSet(line)
               /\ last.line = b.line /\ b.position = last.position + 1
<1> DEFINE line == receive_framer.line
           last == line[Len(line)]
<1>1. /\ b \in HostBytes /\ b \in Stored
      /\ \A a \in Taken : Precedes(a, b)
      /\ \A x \in Stored : x \in Taken \/ x = b \/ Precedes(b, x)
  BY FlowTakes
<1>2. /\ HostRest /\ Taken \subseteq HostBytes /\ HostBytes \subseteq Byte
      /\ b \in Arrived
  BY <1>1 DEF Flow, Taken, Stored, Arrived, HostBytes
<1>3. /\ Sorted(line) /\ \A c \in ToSet(line) : ~IsLF(c)
      /\ ToSet(line) \subseteq Taken
      /\ Taken \subseteq Ended \cup ToSet(line)
      /\ Before(Ended, ToSet(line))
  BY DEF Framing
<1>4. ASSUME line # << >>
      PROVE  /\ last \in ToSet(line)
             /\ \A c \in ToSet(line) : c = last \/ Precedes(c, last)
  <2>1. /\ line \in Seq(Byte) /\ Len(line) \in Nat
        /\ DOMAIN line = 1 .. Len(line)
    BY LenProperties DEF TypeOK, Framer
  <2>2. Len(line) # 0
    BY <1>4, <2>1, EmptySeq
  <2>3. Len(line) \in DOMAIN line
    BY <2>1, <2>2
  <2>4. last \in ToSet(line)
    BY <2>3 DEF ToSet
  <2>5. ASSUME NEW c \in ToSet(line) PROVE c = last \/ Precedes(c, last)
    <3>1. PICK i \in DOMAIN line : line[i] = c
      BY DEF ToSet
    <3>2. i = Len(line) \/ i < Len(line)
      BY <2>1
    <3>3. QED
      BY <1>3, <2>3, <3>1, <3>2 DEF Sorted
  <2>6. QED
    BY <2>4, <2>5
<1> HIDE DEF line, last
<1>5. CASE b.line = 1 /\ b.position = 1
  <2>1. ASSUME NEW a \in Taken PROVE FALSE
    <3>1. a.line \in Nat /\ a.line >= 1 /\ a.position \in Nat
          /\ a.position \in 1 .. Size(a.line) /\ Size(a.line) \in Nat
      BY <1>2, <2>1, HostByteIs
    <3>2. Precedes(a, b)
      BY <1>1
    <3>3. QED
      BY <1>5, <3>1, <3>2 DEF Precedes
  <2>2. line = << >>
    BY <1>3, <1>4, <2>1
  <2>3. QED
    BY <1>5, <2>2 DEF line
<1>6. CASE ~(b.line = 1 /\ b.position = 1)
  <2>1. PICK c \in HostBytes : Follows(c, b)
    BY <1>1, <1>2, <1>6, Predecessor
  <2>2. /\ Precedes(c, b)
        /\ \A d \in HostBytes : Precedes(d, b) => ~Precedes(c, d)
    BY <1>1, <1>2, <2>1, NothingBetween
  <2>3. c \in Arrived
    BY <1>2, <2>2, ArrivedBefore
  <2>4. c \notin lost
    BY <1>1, <2>1 DEF Gaps
  <2>5. c \in Taken
    <3>1. c \in Stored
      BY <2>3, <2>4 DEF Stored
    <3>2. c # b /\ ~Precedes(b, c)
      BY <1>1, <1>2, <2>2, PrecedesIsOrder
    <3>3. QED
      BY <1>1, <3>1, <3>2
  <2>6. CASE c \in ToSet(line)
    <3>1. line # << >>
      BY <2>6, ToSetOfEmpty
    <3>2. last \in ToSet(line) /\ (c = last \/ Precedes(c, last))
      BY <1>4, <2>6, <3>1
    <3>3. last \in HostBytes /\ Precedes(last, b)
      BY <1>1, <1>2, <1>3, <3>2
    <3>4. c = last
      BY <2>2, <3>2, <3>3
    <3>5. ~IsLF(c)
      BY <1>3, <2>6
    <3>6. c.line = b.line /\ b.position = c.position + 1
      BY <2>1, <3>5 DEF Follows
    <3>7. QED
      BY <3>1, <3>2, <3>4, <3>6 DEF line, last
  <2>7. CASE c \in Ended
    <3>1. PICK l \in Taken : IsLF(l) /\ (c = l \/ Precedes(c, l))
      BY <2>7 DEF Ended
    <3>2. l \in HostBytes /\ Precedes(l, b)
      BY <1>1, <1>2
    <3>3. c = l
      BY <2>2, <3>1, <3>2
    <3>4. line = << >>
      <4>1. SUFFICES ASSUME line # << >> PROVE FALSE
        OBVIOUS
      <4>2. last \in ToSet(line)
        BY <1>4, <4>1
      <4>3. last \in HostBytes /\ Precedes(last, b) /\ Precedes(c, last)
        BY <1>1, <1>2, <1>3, <2>7, <4>2 DEF Before
      <4>4. QED
        BY <2>2, <4>3
    <3>5. b.position = 1
      <4>1. c.position = Size(c.line) /\ Size(c.line) \in Nat
        BY <1>2, <2>1, <3>1, <3>3, HostByteIs
      <4>2. b.position \in 1 .. Size(b.line) /\ b.position \in Nat
        BY <1>1, <1>2, HostByteIs
      <4>3. ~(c.line = b.line /\ b.position = c.position + 1)
        BY <4>1, <4>2
      <4>4. QED
        BY <2>1, <4>3 DEF Follows
    <3>6. QED
      BY <3>4, <3>5 DEF line
  <2>8. QED
    BY <1>3, <2>5, <2>6, <2>7
<1>7. QED
  BY <1>5, <1>6

(***************************************************************************)
(* Without a gap in its host line, the line under construction is the      *)
(* beginning of that line.                                                 *)
(***************************************************************************)
Unbroken(n, bytes) == \A c \in bytes : c.line = n => c \notin Gaps

Prefix ==
  LET line == receive_framer.line
      n    == line[Len(line)].line
  IN line # << >> /\ Unbroken(n, ToSet(line))
       => \A i \in DOMAIN line : line[i] = Nth(n, i)

LEMMA InitPrefix == Init => Prefix
BY DEF Init, InitialFramer, Prefix

LEMMA PrefixKept ==
  ASSUME TypeOK, Flow, Framing, Prefix, receive_framer' = receive_framer,
         Gaps \subseteq Gaps',
         \A n \in DOMAIN sent : \A i : Nth(n, i)' = Nth(n, i)
  PROVE  Prefix'
<1> DEFINE line == receive_framer.line
           n == line[Len(line)].line
<1>1. SUFFICES ASSUME line # << >>, Unbroken(n, ToSet(line))'
               PROVE  \A i \in DOMAIN line : line[i] = Nth(n, i)'
  BY DEF Prefix
<1>2. Unbroken(n, ToSet(line))
  BY <1>1 DEF Unbroken
<1>3. n \in DOMAIN sent
  <2>1. /\ line \in Seq(Byte) /\ Len(line) \in Nat
        /\ DOMAIN line = 1 .. Len(line)
    BY LenProperties DEF TypeOK, Framer
  <2>2. Len(line) # 0
    BY <1>1, <2>1, EmptySeq
  <2>3. line[Len(line)] \in ToSet(line)
    BY <2>1, <2>2 DEF ToSet
  <2>4. QED
    BY <2>3 DEF Framing, Taken, Stored, Arrived, HostBytes
<1>4. \A i \in DOMAIN line : line[i] = Nth(n, i)
  BY <1>1, <1>2 DEF Prefix
<1>5. QED
  BY <1>3, <1>4

LEMMA PrefixTakes ==
  ASSUME TypeOK, Flow, Framing, Prefix, Takes
  PROVE  Prefix'
<1> DEFINE b == Head(RingBytes)
           line == receive_framer.line
           k == Len(line)
<1>1. /\ b \in HostBytes /\ b \in Byte /\ HostRest
      /\ Gaps' = Gaps /\ HostBytes' = HostBytes
  BY FlowTakes, GapsKept DEF Takes, Flow, HostBytes
<1>2. \A n, i : Nth(n, i)' = Nth(n, i)
  BY <1>1, SameHost DEF Takes
<1>3. line \in Seq(Byte) /\ k \in Nat /\ DOMAIN line = 1 .. k
  BY LenProperties DEF TypeOK, Framer
<1>4. ASSUME receive_framer'.line = << >> PROVE Prefix'
  BY <1>4 DEF Prefix
<1>5. CASE Keeps(b)
  <2>1. receive_framer'.line = Append(line, b) /\ ~receive_framer.discarding
    BY <1>5 DEF Keeps
  <2> DEFINE new == Append(line, b)
  <2>2. /\ new \in Seq(Byte) /\ Len(new) = k + 1 /\ DOMAIN new = 1 .. k + 1
        /\ \A i \in 1 .. k : new[i] = line[i]
        /\ new[k + 1] = b
        /\ ToSet(new) = ToSet(line) \cup {b}
    BY <1>1, <1>3, AppendProperties, LenProperties, ToSetAppend
  <2> HIDE DEF new, b, line, k
  <2>3. SUFFICES ASSUME Unbroken(b.line, ToSet(new))
                 PROVE  \A i \in DOMAIN new : new[i] = Nth(b.line, i)
    <3>1. new[Len(new)].line = b.line
      BY <2>2
    <3>2. receive_framer'.line = new
      BY <2>1 DEF new
    <3>3. sent' = sent
      BY DEF Takes
    <3>4. QED
      BY <1>1, <2>3, <3>1, <3>2, <3>3 DEF Prefix, Unbroken, Nth, Size
  <2>4. b \notin Gaps /\ Unbroken(b.line, ToSet(line))
    BY <2>2, <2>3 DEF Unbroken
  <2>5. \/ line = << >> /\ b.position = 1
        \/ /\ line # << >> /\ line[k].line = b.line
           /\ b.position = line[k].position + 1
    BY <2>1, <2>4, Continues DEF b, line, k
  <2>6. b = Nth(b.line, b.position)
    BY <1>1, HostByteIs
  <2>7. CASE line = << >> /\ b.position = 1
    <3>1. k = 0
      BY <2>7, EmptySeq DEF k
    <3>2. QED
      BY <2>2, <2>6, <2>7, <3>1
  <2>8. CASE /\ line # << >> /\ line[k].line = b.line
             /\ b.position = line[k].position + 1
    <3>1. \A i \in 1 .. k : line[i] = Nth(b.line, i)
      BY <1>3, <2>4, <2>8 DEF Prefix, line, k
    <3>2. k \in 1 .. k
      BY <1>3, <2>8, EmptySeq DEF k
    <3>3. line[k].position = k
      <4>1. line[k] = Nth(b.line, k)
        BY <3>1, <3>2
      <4>2. Nth(b.line, k).position = k
        BY DEF Nth, ByteAt
      <4>3. QED
        BY <4>1, <4>2
    <3>4. b = Nth(b.line, k + 1)
      BY <2>6, <2>8, <3>3
    <3>5. QED
      BY <1>3, <2>2, <3>1, <3>4
  <2>9. QED
    BY <2>5, <2>7, <2>8
<1>6. CASE Skips(b)
  <2>1. receive_framer.discarding /\ receive_framer'.line = line
    BY <1>6 DEF Skips
  <2>2. QED
    BY <1>4, <2>1 DEF Framing
<1>7. QED
  BY <1>4, <1>5, <1>6, TakesKinds DEF Aborts, Completes, GivesUp
-----------------------------------------------------------------------------
(***************************************************************************)
(* What an LF hands over when there is no gap in its host line: the        *)
(* payload of that line.                                                   *)
(***************************************************************************)
LEMMA WholeWithoutGap ==
  ASSUME TypeOK, Flow, Framing, Prefix, Takes, NEW b, b = Head(RingBytes),
         IsLF(b), ~receive_framer.discarding,
         Unbroken(b.line, ToSet(receive_framer.line) \cup {b})
  PROVE  /\ b.line \in DOMAIN sent
         /\ CompletedLine(receive_framer) = Payload(b.line, sent[b.line][1])
<1> DEFINE line == receive_framer.line
           k == Len(line)
           n == b.line
           length == sent[n][1]
<1>1. b \in HostBytes /\ HostRest
  BY FlowTakes DEF Flow
<1>2. /\ n \in DOMAIN sent /\ n \in Nat
      /\ b.position = Size(n) /\ Size(n) \in Nat
      /\ length \in Nat /\ length > 0
      /\ Size(n) = length + 1 \/ Size(n) = length + 2
  <2>1. n \in DOMAIN sent /\ b.position = Size(n)
    BY <1>1, HostByteIs
  <2>2. QED
    BY <1>1, <2>1, SentIs
<1>3. line \in Seq(Byte) /\ k \in Nat /\ DOMAIN line = 1 .. k
  BY LenProperties DEF TypeOK, Framer
<1>4. b \notin Gaps /\ Unbroken(n, ToSet(line))
  BY DEF Unbroken
<1>5. \/ line = << >> /\ b.position = 1
      \/ /\ line # << >> /\ line[k].line = n
         /\ b.position = line[k].position + 1
  BY <1>4, Continues
<1> HIDE DEF line, k, n, length
<1>6. /\ line # << >> /\ line[k].line = n
      /\ Size(n) = line[k].position + 1
  BY <1>2, <1>5
<1>7. \A i \in 1 .. k : line[i] = Nth(n, i)
  BY <1>3, <1>4, <1>6 DEF Prefix, line, k
<1>8. k \in 1 .. k /\ line[k] = Nth(n, k)
  <2>1. k \in 1 .. k
    BY <1>3, <1>6, EmptySeq DEF k
  <2>2. QED
    BY <1>7, <2>1
<1>9. Size(n) = k + 1
  <2>1. Nth(n, k).position = k
    BY DEF Nth, ByteAt
  <2>2. QED
    BY <1>6, <1>8, <2>1
<1>10. ASSUME NEW i \in 1 .. k
       PROVE  /\ i <= length => line[i] = [line |-> n, position |-> i,
                                           kind |-> "data"]
              /\ length < i => line[i].kind = "cr"
  <2>1. i \in 1 .. Size(n) /\ i < Size(n)
    BY <1>3, <1>9
  <2>2. /\ i <= length => Nth(n, i) = [line |-> n, position |-> i,
                                       kind |-> "data"]
        /\ length < i => Nth(n, i).kind = "cr"
    BY <1>1, <1>2, <2>1, NthIsHostByte DEF length
  <2>3. QED
    BY <1>7, <2>2
<1>11. ASSUME NEW s \in Seq(Byte), Len(s) = length,
              \A i \in 1 .. length : s[i] = line[i], length <= k
       PROVE  s = Payload(n, length)
  <2>1. /\ Payload(n, length) \in Seq(Byte)
        /\ Len(Payload(n, length)) = length
        /\ \A i \in 1 .. length :
             Payload(n, length)[i]
               = [line |-> n, position |-> i, kind |-> "data"]
    <3>1. Payload(n, length) \in [1 .. length -> Byte]
      BY <1>2 DEF Payload, Byte, ByteKind
    <3>2. /\ Payload(n, length) \in Seq(Byte)
          /\ Len(Payload(n, length)) = length
      BY <1>2, <3>1, FunctionIsSequence
    <3>3. QED
      BY <3>2 DEF Payload
  <2>2. \A i \in 1 .. length : s[i] = Payload(n, length)[i]
    BY <1>2, <1>3, <1>10, <1>11, <2>1
  <2>3. QED
    BY <1>11, <2>1, <2>2, SeqEqual
<1>12. CompletedLine(receive_framer)
         = IF line # << >> /\ Last(line).kind = "cr" THEN Front(line)
                                                     ELSE line
  BY DEF CompletedLine, line
<1>13. Last(line) = line[k]
  BY DEF Last, k
<1>14. CASE Size(n) = length + 1
  <2>1. k = length
    BY <1>2, <1>3, <1>9, <1>14
  <2>2. line[k].kind = "data"
    <3>1. k <= length
      BY <1>2, <2>1
    <3>2. line[k] = [line |-> n, position |-> k, kind |-> "data"]
      BY <1>8, <1>10, <3>1
    <3>3. QED
      BY <3>2
  <2>3. CompletedLine(receive_framer) = line
    BY <1>12, <1>13, <2>2
  <2>4. QED
    BY <1>2, <1>3, <1>11, <2>1, <2>3 DEF k, n, length
<1>15. CASE Size(n) = length + 2
  <2>1. k = length + 1
    BY <1>2, <1>3, <1>9, <1>15
  <2>2. line[k].kind = "cr"
    <3>1. length < k
      BY <1>2, <2>1
    <3>2. QED
      BY <1>8, <1>10, <3>1
  <2>3. CompletedLine(receive_framer) = Front(line)
    BY <1>6, <1>12, <1>13, <2>2
  <2>4. k - 1 = length /\ k >= 1 /\ \A i \in 1 .. k - 1 : line[i] \in Byte
    BY <1>2, <1>3, <2>1, ElementOfSeq DEF k
  <2>5. /\ Front(line) \in Seq(Byte) /\ Len(Front(line)) = k - 1
        /\ \A i \in 1 .. k - 1 : Front(line)[i] = line[i]
    BY <1>3, <2>4, SubSeqProperties DEF Front, k
  <2>6. /\ Len(Front(line)) = length /\ length <= k
        /\ \A i \in 1 .. length : Front(line)[i] = line[i]
    BY <1>2, <2>1, <2>4, <2>5
  <2>7. Front(line) = Payload(n, length)
    BY <1>11, <2>5, <2>6
  <2>8. QED
    BY <1>2, <2>3, <2>7 DEF n, length
<1>16. QED
  BY <1>2, <1>14, <1>15

(***************************************************************************)
(* DamageIsLocal is kept.  The only step that matters is the one that      *)
(* accepts a line.  If that line has a byte of a host line n whose bytes   *)
(* and whose preceding LF were all stored, the LF that completes it is     *)
(* line n's own, since no stored LF lies between; and no byte of line n is *)
(* behind a gap.                                                           *)
(***************************************************************************)
Clean(n) == \A c \in lost : c.line # n /\ ~(c.line = n - 1 /\ IsLF(c))

Local(n, line) ==
  (\E j \in DOMAIN line : line[j].line = n) => line = Payload(n, sent[n][1])

LEMMA LocalIs ==
  DamageIsLocal
    <=> \A n \in DOMAIN sent : Clean(n) =>
          \A i \in DOMAIN Accepted : Local(n, Accepted[i])
BY DEF DamageIsLocal, Clean, Local

LEMMA OwnLine ==
  ASSUME TypeOK, Flow, Framing, Takes, NEW b, b = Head(RingBytes), IsLF(b),
         ~receive_framer.discarding, NEW c \in ToSet(receive_framer.line),
         Clean(c.line)
  PROVE  c.line = b.line
<1>1. /\ b \in HostBytes /\ b \in Stored
      /\ \A a \in Taken : Precedes(a, b)
      /\ \A x \in Stored : x \in Taken \/ x = b \/ Precedes(b, x)
  BY FlowTakes
<1>2. /\ HostRest /\ Taken \subseteq HostBytes /\ HostBytes \subseteq Byte
      /\ b \in Arrived
  BY <1>1 DEF Flow, Taken, Stored, Arrived, HostBytes
<1>3. c \in Taken /\ ~IsLF(c) /\ c \in HostBytes
  BY <1>2 DEF Framing
<1>4. /\ c.line \in DOMAIN sent /\ c.line \in Nat /\ b.line \in Nat
      /\ c.position \in 1 .. Size(c.line) /\ c.position # Size(c.line)
      /\ Size(c.line) \in Nat
  BY <1>1, <1>2, <1>3, HostByteIs
<1> DEFINE l == Nth(c.line, Size(c.line))
<1>5. l \in HostBytes /\ IsLF(l) /\ l.line = c.line
      /\ l.position = Size(c.line)
  <2>1. Size(c.line) \in 1 .. Size(c.line)
    BY <1>4
  <2>2. QED
    BY <1>2, <1>4, <2>1, NthIsHostByte
<1> HIDE DEF l
<1>6. Precedes(c, l)
  BY <1>4, <1>5 DEF Precedes
<1>7. SUFFICES ASSUME c.line # b.line PROVE FALSE
  OBVIOUS
<1>8. Precedes(c, b)
  BY <1>1, <1>3
<1>9. Precedes(l, b)
  BY <1>4, <1>5, <1>7, <1>8 DEF Precedes
<1>10. l \in Taken
  <2>1. l \in Arrived
    BY <1>2, <1>5, <1>9, ArrivedBefore
  <2>2. l \notin lost
    BY <1>5 DEF Clean
  <2>3. l # b /\ ~Precedes(b, l)
    BY <1>1, <1>2, <1>5, <1>9, PrecedesIsOrder
  <2>4. QED
    BY <1>1, <2>1, <2>2, <2>3 DEF Stored
<1>11. l \in Ended
  BY <1>5, <1>10 DEF Framing, Ended
<1>12. Precedes(l, c)
  BY <1>11 DEF Framing, Before
<1>13. QED
  BY <1>2, <1>3, <1>5, <1>6, <1>12, PrecedesIsOrder

LEMMA CleanIsUnbroken ==
  ASSUME TypeOK, Flow, NEW n \in Nat, Clean(n), NEW bytes
  PROVE  Unbroken(n, bytes)
<1>1. SUFFICES ASSUME NEW g \in Gaps, g.line = n PROVE FALSE
  BY DEF Unbroken
<1>2. PICK c \in lost : Follows(c, g)
  BY DEF Gaps
<1>3. c \in HostBytes /\ HostRest
  BY DEF Flow, Arrived
<1>4. c.line \in Nat
  BY <1>3, HostByteIs
<1>5. QED
  BY <1>1, <1>2, <1>4 DEF Follows, Clean

LEMMA LocalTakes ==
  ASSUME TypeOK, Flow, Framing, Prefix, DamageIsLocal, Takes
  PROVE  DamageIsLocal'
<1> DEFINE b == Head(RingBytes)
           K == Len(Accepted)
           new == CompletedLine(receive_framer)
<1>1. sent' = sent /\ lost' = lost
  BY DEF Takes
<1>2. CASE Accepted' = Accepted
  BY <1>1, <1>2 DEF DamageIsLocal
<1>3. CASE Completes(b) /\ Accepted' = Append(Accepted, new)
  <2>1. receive_framer \in Framer /\ new \in Seq(Byte)
    BY CompletedLineType DEF TypeOK
  <2>2. /\ Accepted \in Seq(Seq(Byte)) /\ DOMAIN Accepted = 1 .. K
        /\ K \in Nat
    BY AcceptedType, LenProperties
  <2>3. /\ DOMAIN Accepted' = 1 .. K + 1
        /\ \A i \in 1 .. K : Accepted'[i] = Accepted[i]
        /\ Accepted'[K + 1] = new
    BY <1>3, <2>1, <2>2, AppendProperties, LenProperties
  <2>4. ToSet(new) \subseteq ToSet(receive_framer.line)
    BY <2>1, SortedCompletedLine DEF Framing
  <2>5. IsLF(b) /\ ~receive_framer.discarding
    BY <1>3 DEF Completes
  <2> HIDE DEF b, K, new
  <2>6. ASSUME NEW n \in DOMAIN sent, Clean(n) PROVE Local(n, new)
    <3>1. SUFFICES ASSUME NEW j \in DOMAIN new, new[j].line = n
                   PROVE  new = Payload(n, sent[n][1])
      BY DEF Local
    <3>2. new[j] \in ToSet(receive_framer.line)
      BY <2>4 DEF ToSet
    <3>3. n = b.line
      BY <2>5, <2>6, <3>1, <3>2, OwnLine DEF b
    <3>4. n \in Nat
      BY SentIs DEF Flow
    <3>5. Unbroken(b.line, ToSet(receive_framer.line) \cup {b})
      BY <2>6, <3>3, <3>4, CleanIsUnbroken
    <3>6. QED
      BY <2>5, <3>3, <3>5, WholeWithoutGap DEF b, new
  <2>7. ASSUME NEW n \in DOMAIN sent, Clean(n), NEW i \in 1 .. K + 1
        PROVE  Local(n, Accepted'[i])
    <3>1. CASE i \in 1 .. K
      BY <2>2, <2>3, <2>7, <3>1, LocalIs
    <3>2. CASE i = K + 1
      BY <2>3, <2>6, <2>7, <3>2
    <3>3. QED
      BY <2>2, <3>1, <3>2
  <2>8. QED
    BY <1>1, <2>3, <2>7 DEF DamageIsLocal, Clean, Local
<1>4. QED
  BY <1>2, <1>3, TakesKinds
     DEF Aborts, Skips, Completes, GivesUp, Keeps, SameLines

LEMMA LocalKept ==
  ASSUME DamageIsLocal, UNCHANGED <<sent, Accepted>>, lost \subseteq lost'
  PROVE  DamageIsLocal'
BY DEF DamageIsLocal

LEMMA LocalBegins ==
  ASSUME TypeOK, TypeOK', Flow, Lines, DamageIsLocal, Begins
  PROVE  DamageIsLocal'
<1>1. /\ Len(sent) \in Nat /\ DOMAIN sent' = 1 .. Len(sent) + 1
      /\ \A n \in DOMAIN sent : sent'[n] = sent[n]
      /\ DOMAIN sent = 1 .. Len(sent)
  BY BeginsHost, LenProperties DEF Flow, TypeOK
<1>2. lost' = lost /\ Accepted' = Accepted
  BY DEF Begins
<1>3. ASSUME NEW i \in DOMAIN Accepted, NEW j \in DOMAIN Accepted[i]
      PROVE  Accepted[i][j].line \in DOMAIN sent
  <2>1. Accepted[i][j] \in Ended
    BY DEF Lines, ToSet
  <2>2. QED
    BY <2>1 DEF Ended, Taken, Stored, Arrived, HostBytes
<1>4. ASSUME NEW n \in DOMAIN sent', Clean(n),
             NEW i \in DOMAIN Accepted, NEW j \in DOMAIN Accepted[i],
             Accepted[i][j].line = n
      PROVE  Accepted[i] = Payload(n, sent'[n][1])
  <2>1. n \in DOMAIN sent
    BY <1>3, <1>4
  <2>2. Local(n, Accepted[i])
    BY <1>4, <2>1, LocalIs
  <2>3. QED
    BY <1>1, <1>4, <2>1, <2>2 DEF Local
<1>5. QED
  BY <1>2, <1>4 DEF DamageIsLocal, Clean
-----------------------------------------------------------------------------
(***************************************************************************)
(* A mutilated line has a gap in it: there are no more of them than gaps   *)
(* that the framer has left behind.                                        *)
(***************************************************************************)
Mutilated == {i \in DOMAIN Accepted : ~Whole(Accepted[i])}

Damaged ==
  /\ IsFiniteSet(Mutilated)
  /\ Cardinality(Mutilated) <= Cardinality(Gaps \cap Ended)

LEMMA InitDamaged == Init => Damaged
<1> SUFFICES ASSUME Init PROVE Damaged
  OBVIOUS
<1>1. delivered = << >> /\ received_lines = << >> /\ lost = {}
  BY DEF Init
<1>2. Accepted = << >>
  BY <1>1 DEF Accepted
<1>3. Mutilated = {} /\ Gaps \cap Ended = {}
  BY <1>1, <1>2 DEF Mutilated, Gaps
<1>4. IsFiniteSet({}) /\ Cardinality({}) = 0
  BY FS_EmptySet
<1>5. Cardinality(Mutilated) = 0 /\ Cardinality(Gaps \cap Ended) = 0
  BY <1>3, <1>4, Zenon
<1>6. IsFiniteSet(Mutilated)
  BY <1>3, <1>4, Zenon
<1>7. QED
  BY <1>5, <1>6 DEF Damaged

LEMMA DamagedKept ==
  ASSUME Damaged, Reported', Mutilated' \subseteq Mutilated,
         Gaps \subseteq Gaps', Ended \subseteq Ended'
  PROVE  Damaged'
<1>1. /\ IsFiniteSet(Mutilated') /\ IsFiniteSet(Gaps' \cap Ended')
      /\ Gaps \cap Ended \subseteq Gaps' \cap Ended'
  BY FS_Subset DEF Damaged, Reported
<1>2. /\ Cardinality(Mutilated') <= Cardinality(Mutilated)
      /\ Cardinality(Gaps \cap Ended) <= Cardinality(Gaps' \cap Ended')
  BY <1>1, FS_Subset DEF Damaged
<1>3. /\ Cardinality(Mutilated') \in Nat /\ Cardinality(Mutilated) \in Nat
      /\ Cardinality(Gaps \cap Ended) \in Nat
      /\ Cardinality(Gaps' \cap Ended') \in Nat
  BY <1>1, FS_Subset, FS_CardinalityType DEF Damaged
<1>4. Cardinality(Mutilated') <= Cardinality(Gaps' \cap Ended')
  BY <1>2, <1>3 DEF Damaged
<1>5. QED
  BY <1>1, <1>4 DEF Damaged

LEMMA DamagedTakes ==
  ASSUME TypeOK, TypeOK', Flow, Framing, Prefix, Reported', Damaged, Takes
  PROVE  Damaged'
<1> DEFINE b == Head(RingBytes)
           K == Len(Accepted)
           new == CompletedLine(receive_framer)
           line == receive_framer.line
<1>1. /\ sent' = sent /\ Gaps' = Gaps /\ b \notin Taken
      /\ HostBytes' = HostBytes
  BY FlowTakes, GapsKept DEF Takes
<1>2. /\ IsLF(b) => Ended' = Taken \cup {b}
      /\ Ended \subseteq Taken /\ Ended \subseteq Ended'
  BY EndedGrows
<1>3. CASE Accepted' = Accepted
  <2>1. Mutilated' = Mutilated
    BY <1>1, <1>3 DEF Mutilated, Whole
  <2>2. QED
    BY <1>1, <1>2, <2>1, DamagedKept
<1>4. CASE Completes(b) /\ Accepted' = Append(Accepted, new)
  <2>1. receive_framer \in Framer /\ new \in Seq(Byte)
    BY CompletedLineType DEF TypeOK
  <2>2. /\ Accepted \in Seq(Seq(Byte)) /\ DOMAIN Accepted = 1 .. K
        /\ K \in Nat
    BY AcceptedType, LenProperties
  <2>3. /\ DOMAIN Accepted' = 1 .. K + 1
        /\ \A i \in 1 .. K : Accepted'[i] = Accepted[i]
        /\ Accepted'[K + 1] = new
    BY <1>4, <2>1, <2>2, AppendProperties, LenProperties
  <2>4. IsLF(b) /\ ~receive_framer.discarding
    BY <1>4 DEF Completes
  <2> HIDE DEF b, K, new, line
  <2>6. /\ Mutilated' \subseteq Mutilated \cup {K + 1}
        /\ Whole(new) => Mutilated' \subseteq Mutilated
    BY <1>1, <2>2, <2>3 DEF Mutilated, Whole
  <2>7. CASE Whole(new)
    BY <1>1, <1>2, <2>6, <2>7, DamagedKept
  <2>8. CASE ~Whole(new)
    <3>1. ~Unbroken(b.line, ToSet(line) \cup {b})
      BY <2>4, <2>8, WholeWithoutGap DEF b, new, line, Whole
    <3>2. PICK g \in ToSet(line) \cup {b} : g \in Gaps
      BY <3>1 DEF Unbroken
    <3>3. g \notin Ended
      <4>1. CASE g = b
        BY <1>1, <1>2, <4>1
      <4>2. CASE g \in ToSet(line)
        <5>1. g \in Byte
          BY <4>2 DEF Framing, Taken, Stored, Arrived, HostBytes, line
        <5>2. ~Precedes(g, g)
          BY <5>1, PrecedesIsOrder
        <5>3. QED
          BY <4>2, <5>2 DEF Framing, Before, line
      <4>3. QED
        BY <3>2, <4>1, <4>2
    <3>4. g \in Ended'
      BY <1>2, <2>4, <3>2 DEF Framing, line
    <3> DEFINE old == Gaps \cap Ended
               now == Gaps' \cap Ended'
    <3>5. /\ IsFiniteSet(old) /\ IsFiniteSet(now) /\ IsFiniteSet(Mutilated)
          /\ old \cup {g} \subseteq now /\ g \notin old
      BY <1>1, <1>2, <3>2, <3>3, <3>4, FS_Subset DEF Reported, Damaged
    <3> HIDE DEF old, now
    <3>6. /\ IsFiniteSet(old \cup {g})
          /\ Cardinality(old \cup {g}) = Cardinality(old) + 1
      BY <3>5, FS_AddElement
    <3>7. Cardinality(old) + 1 <= Cardinality(now)
      BY <3>5, <3>6, FS_Subset
    <3>8. /\ IsFiniteSet(Mutilated \cup {K + 1})
          /\ Cardinality(Mutilated \cup {K + 1}) = Cardinality(Mutilated) + 1
      <4>1. K + 1 \notin Mutilated
        BY <2>2 DEF Mutilated
      <4>2. QED
        BY <3>5, <4>1, FS_AddElement
    <3>9. /\ IsFiniteSet(Mutilated')
          /\ Cardinality(Mutilated') <= Cardinality(Mutilated) + 1
      BY <2>6, <3>8, FS_Subset
    <3>10. /\ Cardinality(Mutilated) \in Nat /\ Cardinality(Mutilated') \in Nat
           /\ Cardinality(old) \in Nat /\ Cardinality(now) \in Nat
      BY <3>5, <3>9, FS_CardinalityType
    <3>11. Cardinality(Mutilated) <= Cardinality(old)
      BY DEF Damaged, old
    <3>12. Cardinality(Mutilated') <= Cardinality(now)
      BY <3>7, <3>9, <3>10, <3>11
    <3>13. QED
      BY <3>9, <3>12 DEF Damaged, now
  <2>9. QED
    BY <2>7, <2>8
<1>5. QED
  BY <1>3, <1>4, TakesKinds
     DEF Aborts, Skips, Completes, GivesUp, Keeps, SameLines

LEMMA MutilatedBegins ==
  ASSUME TypeOK, TypeOK', Flow, Begins
  PROVE  Mutilated' \subseteq Mutilated
<1>1. /\ DOMAIN sent \subseteq DOMAIN sent'
      /\ \A n \in DOMAIN sent : sent'[n] = sent[n]
  <2>1. /\ DOMAIN sent' = 1 .. Len(sent) + 1 /\ DOMAIN sent = 1 .. Len(sent)
        /\ Len(sent) \in Nat
        /\ \A n \in DOMAIN sent : sent'[n] = sent[n]
    BY BeginsHost, LenProperties DEF Flow, TypeOK
  <2>2. QED
    BY <2>1
<1>2. Accepted' = Accepted
  BY DEF Begins
<1>3. ASSUME NEW i \in DOMAIN Accepted, Whole(Accepted[i])
      PROVE  \E n \in DOMAIN sent' : Accepted[i] = Payload(n, sent'[n][1])
  BY <1>1, <1>3 DEF Whole
<1>4. QED
  BY <1>2, <1>3 DEF Mutilated, Whole

LEMMA DamageFollows == TypeOK /\ Reported /\ Damaged => DamageIsCounted
<1> SUFFICES ASSUME TypeOK, Reported, Damaged PROVE DamageIsCounted
  OBVIOUS
<1>1. /\ IsFiniteSet(Gaps \cap Ended)
      /\ Cardinality(Gaps \cap Ended) <= Cardinality(Gaps)
  BY FS_Subset DEF Reported
<1>2. /\ Cardinality(Gaps \cap Ended) \in Nat /\ Cardinality(Gaps) \in Nat
      /\ Cardinality(Mutilated) \in Nat
  BY <1>1, FS_CardinalityType DEF Reported, Damaged
<1>3. Cardinality(Gaps) <= receive_framer.overflow_count
      /\ Cardinality(Mutilated) <= Cardinality(Gaps \cap Ended)
  BY DEF Reported, Damaged
<1>4. receive_framer.overflow_count \in Nat
  BY DEF TypeOK, Framer
<1>5. Cardinality(Mutilated) <= receive_framer.overflow_count
  BY <1>1, <1>2, <1>3, <1>4
<1>6. QED
  BY <1>5 DEF DamageIsCounted, Mutilated
-----------------------------------------------------------------------------
(***************************************************************************)
(* The inductive invariant of the receive path, and the four properties    *)
(* that follow from it.                                                    *)
(***************************************************************************)
ReceiveInvariant ==
  /\ Flow
  /\ Framing
  /\ Lines
  /\ Counted
  /\ Reported
  /\ Prefix
  /\ Damaged
  /\ DamageIsLocal

LEMMA InitInvariant == Init => ReceiveInvariant
<1>1. Init => DamageIsLocal
  BY DEF Init, DamageIsLocal
<1>2. QED
  BY <1>1, InitFlow, InitFraming, InitCounted, InitReported, InitPrefix,
     InitDamaged DEF ReceiveInvariant

LEMMA InvariantStep ==
  TypeOK /\ TypeOK' /\ PendingMeansFull /\ ReceiveInvariant /\ [Next]_vars
    => ReceiveInvariant'
<1> SUFFICES ASSUME TypeOK, TypeOK', PendingMeansFull, ReceiveInvariant,
                    [Next]_vars
             PROVE  ReceiveInvariant'
  OBVIOUS
<1>1. /\ Flow /\ Framing /\ Lines /\ Counted /\ Reported /\ Prefix
      /\ Damaged /\ DamageIsLocal
  BY DEF ReceiveInvariant
<1>2. CASE Begins
  <2>1. /\ Flow' /\ Arrived' = Arrived /\ Stored' = Stored /\ Taken' = Taken
    BY <1>1, <1>2, FlowBegins
  <2>2. /\ UNCHANGED <<receive_framer, Accepted, completed_lines_dropped,
                       receive_overflow_pending, lost>>
    BY <1>2 DEF Begins
  <2>3. Framing' /\ Lines' /\ Ended' = Ended
    BY <1>1, <2>1, <2>2, FramingKept
  <2>4. Gaps' = Gaps /\ (Open' <=> Open)
    BY <2>1, <2>2, GapsKept
  <2>5. Counted'
    BY <1>1, <2>1, <2>2, CountedKept
  <2>6. Reported'
    BY <1>1, <2>2, <2>4, ReportedKept
  <2>7. Prefix'
    BY <1>1, <1>2, <2>2, <2>4, BeginsHost, PrefixKept DEF Flow
  <2>8. Damaged'
    BY <1>1, <1>2, <2>3, <2>4, <2>6, MutilatedBegins, DamagedKept
  <2>9. DamageIsLocal'
    BY <1>1, <1>2, LocalBegins
  <2>10. QED
    BY <2>1, <2>3, <2>5, <2>6, <2>7, <2>8, <2>9 DEF ReceiveInvariant
<1>3. CASE Stores \/ Drops
  <2>1. /\ Flow' /\ Taken' = Taken
    BY <1>1, <1>3, FlowStores, FlowDrops
  <2>2. /\ UNCHANGED <<sent, receive_framer, Accepted,
                       completed_lines_dropped>>
        /\ lost \subseteq lost'
        /\ receive_overflow_pending' => receive_overflow_pending \/ lost' # {}
    <3>1. Arrives
      BY <1>3 DEF Stores, Drops
    <3>2. CASE Stores
      BY <3>1, <3>2 DEF Stores, Arrives
    <3>3. CASE Drops
      <4>1. lost' = lost \cup {Head(host_rest)}
        BY <3>3 DEF Drops
      <4>2. QED
        BY <3>1, <4>1 DEF Arrives
    <3>4. QED
      BY <1>3, <3>2, <3>3
  <2>3. Framing' /\ Lines' /\ Ended' = Ended
    BY <1>1, <2>1, <2>2, FramingKept
  <2>4. Gaps \subseteq Gaps'
    BY <1>1, <1>3, GapsStores, GapsDrops
  <2>5. Counted'
    BY <1>1, <2>1, <2>2, CountedKept
  <2>6. Reported'
    BY <1>1, <1>3, ReportedStores, ReportedDrops
  <2>7. \A n \in DOMAIN sent : \A i : Nth(n, i)' = Nth(n, i)
    BY <2>2 DEF Nth, Size
  <2>8. Prefix'
    BY <1>1, <2>2, <2>4, <2>7, PrefixKept
  <2>9. Mutilated' = Mutilated
    BY <2>2 DEF Mutilated, Whole
  <2>10. Damaged'
    BY <1>1, <2>3, <2>4, <2>6, <2>9, DamagedKept
  <2>11. DamageIsLocal'
    BY <1>1, <2>2, LocalKept
  <2>12. QED
    BY <2>1, <2>3, <2>5, <2>6, <2>8, <2>10, <2>11 DEF ReceiveInvariant
<1>4. CASE Takes
  <2>1. Flow' /\ Framing' /\ Lines' /\ Counted' /\ Reported'
    BY <1>1, <1>4, FlowTakes, FramingTakes, LinesTakes, CountedTakes,
       ReportedTakes
  <2>2. Prefix' /\ Damaged' /\ DamageIsLocal'
    BY <1>1, <1>4, <2>1, PrefixTakes, DamagedTakes, LocalTakes
  <2>3. QED
    BY <2>1, <2>2 DEF ReceiveInvariant
<1>5. CASE Rests
  <2>1. /\ Flow' /\ Arrived' = Arrived /\ Stored' = Stored /\ Taken' = Taken
    BY <1>1, <1>5, FlowRests
  <2>2. /\ UNCHANGED <<receive_framer, Accepted, completed_lines_dropped,
                       receive_overflow_pending, lost, sent>>
    BY <1>5 DEF Rests
  <2>3. Framing' /\ Lines' /\ Ended' = Ended
    BY <1>1, <2>1, <2>2, FramingKept
  <2>4. Gaps' = Gaps /\ (Open' <=> Open)
    BY <2>1, <2>2, GapsKept
  <2>5. Counted'
    BY <1>1, <2>1, <2>2, CountedKept
  <2>6. Reported'
    BY <1>1, <2>2, <2>4, ReportedKept
  <2>7. \A n \in DOMAIN sent : \A i : Nth(n, i)' = Nth(n, i)
    BY <2>2 DEF Nth, Size
  <2>8. Prefix'
    BY <1>1, <2>2, <2>4, <2>7, PrefixKept
  <2>9. Mutilated' = Mutilated
    BY <2>2 DEF Mutilated, Whole
  <2>10. Damaged'
    BY <1>1, <2>3, <2>4, <2>6, <2>9, DamagedKept
  <2>11. DamageIsLocal'
    BY <1>1, <2>2, LocalKept
  <2>12. QED
    BY <2>1, <2>3, <2>5, <2>6, <2>8, <2>10, <2>11 DEF ReceiveInvariant
<1>6. QED
  BY <1>2, <1>3, <1>4, <1>5, StepKinds

(***************************************************************************)
(* TypeOK and PendingMeansFull are invariants of their own, so that the    *)
(* rest follows from them and from InvariantStep.                          *)
(***************************************************************************)
THEOREM ReceiveInvariantHolds == Spec => []ReceiveInvariant
<1>1. Spec => []TypeOK
  BY TypeCorrect
<1>2. Spec => []PendingMeansFull
  BY OverflowReportedAtFullRing
<1>3. QED
  BY <1>1, <1>2, InitInvariant, InvariantStep, PTL DEF Spec

(***************************************************************************)
(* The ring is a queue: an interrupt appends the byte of the host or       *)
(* leaves the ring alone, a pop takes the oldest byte, and no other step   *)
(* of cdc_receive and pop_received_byte changes what the ring holds,       *)
(* wherever its two indices wrap.                                          *)
(***************************************************************************)
THEOREM RingIsQueue ==
  Spec => [][\/ RingBytes' = RingBytes
             \/ /\ host_rest # << >> /\ host_rest' = Tail(host_rest)
                /\ RingBytes' = Append(RingBytes, Head(host_rest))
             \/ /\ RingBytes # << >> /\ RingBytes' = Tail(RingBytes)]_vars
<1>1. TypeOK /\ TypeOK' /\ PendingMeansFull /\ [Next]_vars
        => \/ RingBytes' = RingBytes
           \/ /\ host_rest # << >> /\ host_rest' = Tail(host_rest)
              /\ RingBytes' = Append(RingBytes, Head(host_rest))
           \/ /\ RingBytes # << >> /\ RingBytes' = Tail(RingBytes)
  BY StepKinds DEF Begins, Stores, Drops, Arrives, Takes, Rests
<1>2. QED
  BY <1>1, TypeCorrect, OverflowReportedAtFullRing, PTL DEF Spec

(***************************************************************************)
(* BytesInOrder: between the interrupt, the ring, the framer and the       *)
(* queue of lines no byte is overwritten, repeated or overtaken.           *)
(***************************************************************************)
THEOREM BytesKeepOrder == Spec => []BytesInOrder
<1>1. TypeOK /\ ReceiveInvariant => BytesInOrder
  BY OrderFollows DEF ReceiveInvariant
<1>2. QED
  BY <1>1, TypeCorrect, ReceiveInvariantHolds, PTL

(***************************************************************************)
(* LinesAreCounted: every host line whose LF the framer consumed is        *)
(* accepted or counted in one of the two statistics; exactly once each     *)
(* while no byte was dropped.                                              *)
(***************************************************************************)
THEOREM EveryLineCounted == Spec => []LinesAreCounted
<1>1. TypeOK /\ ReceiveInvariant => LinesAreCounted
  BY CountFollows DEF ReceiveInvariant
<1>2. QED
  BY <1>1, TypeCorrect, ReceiveInvariantHolds, PTL

(***************************************************************************)
(* DamageIsCounted: however often the ring overflows, the statistic of     *)
(* discards is at least the number of mutilated lines that were accepted.  *)
(***************************************************************************)
THEOREM DamageCounted == Spec => []DamageIsCounted
<1>1. TypeOK /\ ReceiveInvariant => DamageIsCounted
  BY DamageFollows DEF ReceiveInvariant
<1>2. QED
  BY <1>1, TypeCorrect, ReceiveInvariantHolds, PTL

(***************************************************************************)
(* DamageIsLocal: a line that was stored completely, behind a stored LF,   *)
(* is accepted as the host sent it or not at all.                          *)
(***************************************************************************)
THEOREM DamageStaysLocal == Spec => []DamageIsLocal
<1>1. ReceiveInvariant => DamageIsLocal
  BY DEF ReceiveInvariant
<1>2. QED
  BY <1>1, ReceiveInvariantHolds, PTL
=============================================================================
