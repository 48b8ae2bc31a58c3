------------------------- MODULE ComponentLifecycle -------------------------
(***************************************************************************)
(* What the component test runner sees of one component: start() leaves it *)
(* in one of its starting states, each call of process() that has an       *)
(* effect is one of its steps, a final result switches it off, and stop()  *)
(* may come between any two calls.  SessionProtocol drives the components  *)
(* in these terms.                                                         *)
(***************************************************************************)
EXTENDS ComponentBehaviours

CONSTANTS
  StartStates,  \* what start() may leave behind
  Behaviour     \* the steps of process()

VARIABLES
  component,    \* the component's state, Off when no test of it runs
  result        \* what process() returned last

Init ==
  /\ component = Off
  /\ result = "none"

Start ==
  /\ component = Off
  /\ component' \in StartStates
  /\ result' = "none"

Process ==
  \E step \in Behaviour :
    /\ step.from = component
    /\ component' = IF step.result \in Terminal THEN Off ELSE step.to
    /\ result' = step.result

Stop ==
  /\ component # Off
  /\ component' = Off
  /\ result' = "none"

Next == Start \/ Process \/ Stop

Spec == Init /\ [][Next]_<<component, result>>
=============================================================================
