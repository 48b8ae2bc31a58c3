--------------------------- MODULE NewlineFramer ---------------------------
(***************************************************************************)
(* The bounded LF framer of the manufacturing firmware                     *)
(* (firmware/manufacturing_test/protocol/newline_framer.c), one byte at a  *)
(* time.  A framer is a record:                                            *)
(*                                                                         *)
(*   line            the bytes of framer->line[0 .. framer->length - 1]    *)
(*   discarding      the rest of the current line is being thrown away     *)
(*   overflow_count  number of discards begun since initialisation         *)
(*                                                                         *)
(* A byte is a record whose field "kind" tells what the framer tells apart *)
(* ("data", "cr" or "lf"); its other fields are carried along untouched.   *)
(***************************************************************************)
EXTENDS Naturals, Sequences, SequencesExt

CONSTANT MaxLineLength  \* NEWLINE_FRAMER_MAX_LINE_LENGTH, 4096 in the code

ASSUME MaxLineLengthIsPositive == MaxLineLength \in Nat \ {0}

ByteKind == {"data", "cr", "lf"}

(***************************************************************************)
(* newline_framer_initialize                                               *)
(***************************************************************************)
InitialFramer == [line |-> << >>, discarding |-> FALSE, overflow_count |-> 0]

(***************************************************************************)
(* Two faults of newline_framer_discard_current_line: the discard is not   *)
(* counted, and only the bytes kept so far are thrown away.                *)
(***************************************************************************)
DiscardUncounted(framer) == [framer EXCEPT !.line = << >>, !.discarding = TRUE]

DiscardKeptBytesOnly(framer) ==
  [framer EXCEPT !.line = << >>, !.overflow_count = @ + 1]

(***************************************************************************)
(* newline_framer_discard_current_line                                     *)
(***************************************************************************)
DiscardCurrentLine(framer) ==
  [line |-> << >>, discarding |-> TRUE,
   overflow_count |-> framer.overflow_count + 1]

(***************************************************************************)
(* Two faults of newline_framer_consume: the limit is one byte short, and  *)
(* the length is not reset.                                                *)
(***************************************************************************)
ConsumeShortLimit(framer, byte) ==
  IF byte.kind = "lf"
  THEN [framer EXCEPT !.line = << >>, !.discarding = FALSE]
  ELSE IF framer.discarding THEN framer
  ELSE IF Len(framer.line) + 1 = MaxLineLength
  THEN DiscardCurrentLine(framer)
  ELSE [framer EXCEPT !.line = Append(@, byte)]

ConsumeKeepingLine(framer, byte) ==
  IF byte.kind = "lf" THEN [framer EXCEPT !.discarding = FALSE]
  ELSE IF framer.discarding THEN framer
  ELSE IF Len(framer.line) = MaxLineLength
  THEN DiscardCurrentLine(framer)
  ELSE [framer EXCEPT !.line = Append(@, byte)]

(***************************************************************************)
(* The state newline_framer_consume leaves behind after one byte: inside a *)
(* discarded line only the LF matters; an LF ends the line; a byte that no *)
(* longer fits starts a discard; any other byte is kept.                   *)
(***************************************************************************)
Consume(framer, byte) ==
  IF framer.discarding
  THEN IF byte.kind = "lf" THEN [framer EXCEPT !.discarding = FALSE]
                           ELSE framer
  ELSE IF byte.kind = "lf"
  THEN [framer EXCEPT !.line = << >>]
  ELSE IF Len(framer.line) = MaxLineLength
  THEN DiscardCurrentLine(framer)
  ELSE [framer EXCEPT !.line = Append(@, byte)]

(***************************************************************************)
(* Whether consuming the byte calls line_callback, and the line it passes: *)
(* the bytes kept so far without one trailing CR.                          *)
(***************************************************************************)
CompletesLine(framer, byte) == ~framer.discarding /\ byte.kind = "lf"

CompletedLine(framer) ==
  IF framer.line # << >> /\ Last(framer.line).kind = "cr"
  THEN Front(framer.line)
  ELSE framer.line
=============================================================================
