--------------------------- MODULE MCTestSession ---------------------------
(***************************************************************************)
(* Instances of TestSession for TLC: a live test before another test that  *)
(* asks the operator, and the two other styles of handler.                 *)
(***************************************************************************)
EXTENDS TestSession

LiveThenLive == {<<"imu", "barometer">>}
OnlyBarometer == {<<"barometer">>}
EveryHandler ==
  LiveThenLive \cup {<<"barometer", "rgb_led">>, <<"status_led_red", "sd_card">>}
NoTypes == {}
=============================================================================
