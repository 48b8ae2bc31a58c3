------------------------- MODULE MCSessionProtocol -------------------------
(***************************************************************************)
(* Instances of SessionProtocol for TLC: the queue depths of the code, and *)
(* the component types that differ in how they start, report and end.      *)
(***************************************************************************)
EXTENDS SessionProtocol

EveryBehaviour ==
  {"status_led_red", "rgb_led", "imu", "barometer", "sd_card", "gps"}
=============================================================================
