--------------------------- MODULE OutgoingLines ---------------------------
(***************************************************************************)
(* What the firmware's transmit queue promises its callers: lines reach    *)
(* the host in the order they were queued, each at least once, and a line  *)
(* is emitted again only when a USB interruption made the firmware forget  *)
(* that the host already has it.  A line leaves the queue only after it    *)
(* was emitted.                                                            *)
(***************************************************************************)
EXTENDS Naturals, Sequences

CONSTANTS
  Depth,      \* lines the queue holds
  Lines       \* the lines callers queue

VARIABLES
  queue,      \* lines accepted and not yet retired, oldest first
  emitted,    \* the host has the oldest line and the firmware knows it
  host        \* every line the host received, in order

vars == <<queue, emitted, host>>

Init ==
  /\ queue = << >>
  /\ emitted = FALSE
  /\ host = << >>

Accept(line) ==
  /\ Len(queue) < Depth
  /\ queue' = Append(queue, line)
  /\ UNCHANGED <<emitted, host>>

Emit ==
  /\ queue # << >>
  /\ ~emitted
  /\ emitted' = TRUE
  /\ host' = Append(host, Head(queue))
  /\ UNCHANGED queue

Retire ==
  /\ queue # << >>
  /\ emitted
  /\ emitted' = FALSE
  /\ queue' = Tail(queue)
  /\ UNCHANGED host

Forget ==
  /\ emitted
  /\ emitted' = FALSE
  /\ UNCHANGED <<queue, host>>

Next == (\E line \in Lines : Accept(line)) \/ Emit \/ Retire \/ Forget

Spec == Init /\ [][Next]_vars
=============================================================================
