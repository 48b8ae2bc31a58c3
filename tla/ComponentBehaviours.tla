------------------------ MODULE ComponentBehaviours ------------------------
(***************************************************************************)
(* The component tests of the firmware as their runner sees them           *)
(* (firmware/manufacturing_test/components): what start() may leave        *)
(* behind, and what each call of process() may return.  Timers, sensor     *)
(* values, block counts and the hardware's answers are abstracted to the   *)
(* choice between the steps below; the result of an event is its name.     *)
(***************************************************************************)
Off == "off"        \* stop() was called, or start() never was

Step(from, result, to) == [from |-> from, result |-> result, to |-> to]

(***************************************************************************)
(* status_led_test.c: the pin is driven until stop().                      *)
(***************************************************************************)
StatusLedStarts == {"on"}
StatusLedSteps == {Step("on", "running", "on")}

(***************************************************************************)
(* rgb_led_test.c: start() already transmits the colour, and may fail.     *)
(***************************************************************************)
RgbLedStarts == {"colour_ready", "failed"}
RgbLedSteps ==
  { Step("colour_ready", "rgb_colour_active", "active"),
    Step("active", "running", "active"),
    Step("failed", "failed", "failed") }

(***************************************************************************)
(* bmi270_test.c: a failure is reported by the result alone.               *)
(***************************************************************************)
ImuStarts == {"initializing"}
ImuSteps ==
  { Step("initializing", "imu_ready", "sampling"),
    Step("initializing", "failed", "failed"),
    Step("sampling", "running", "sampling"),
    Step("sampling", "imu_sample", "sampling"),
    Step("sampling", "failed", "failed"),
    Step("failed", "failed", "failed") }

(***************************************************************************)
(* bmp388_test.c: a failure is an event first, and the result of the next  *)
(* call.                                                                   *)
(***************************************************************************)
BarometerStarts == {"initializing"}
BarometerSteps ==
  { Step("initializing", "barometer_stabilizing", "settling"),
    Step("initializing", "component_failure", "failed"),
    Step("settling", "running", "settling"),
    Step("settling", "barometer_ready", "sampling"),
    Step("sampling", "running", "sampling"),
    Step("sampling", "barometer_sample", "sampling"),
    Step("sampling", "component_failure", "failed"),
    Step("failed", "failed", "failed") }

(***************************************************************************)
(* sd_card_test.c: the card is removed if it is there, inserted, written,  *)
(* verified and cleaned up; from initialization on each step may fail.     *)
(***************************************************************************)
SdCardStarts == {"announce_removal", "announce_insertion"}
SdCardSteps ==
  { Step("announce_removal", "sd_card_remove_required", "waiting_for_removal"),
    Step("waiting_for_removal", "running", "waiting_for_removal"),
    Step("waiting_for_removal", "sd_card_removed", "announce_insertion"),
    Step("announce_insertion", "sd_card_insert_required",
         "waiting_for_insertion"),
    Step("waiting_for_insertion", "running", "waiting_for_insertion"),
    Step("waiting_for_insertion", "sd_card_detected", "initializing"),
    Step("initializing", "sd_card_initialized", "writing"),
    Step("writing", "sd_card_written", "verifying"),
    Step("verifying", "sd_card_verified", "cleaning_up"),
    Step("cleaning_up", "sd_card_cleaned_up", "complete"),
    Step("complete", "passed", "complete"),
    Step("failed", "failed", "failed") }
  \cup { Step(s, "running", s) :
           s \in {"writing", "verifying", "cleaning_up"} }
  \cup { Step(s, "component_failure", "failed") :
           s \in {"initializing", "writing", "verifying", "cleaning_up"} }

(***************************************************************************)
(* component_registry.c: the runnable types and their definitions.         *)
(***************************************************************************)
ProductionTests ==
  {"status_led_red", "status_led_green", "rgb_led", "imu", "barometer",
   "sd_card"}

Starts ==
  [t \in ProductionTests |->
     CASE t \in {"status_led_red", "status_led_green"} -> StatusLedStarts
       [] t = "rgb_led"   -> RgbLedStarts
       [] t = "imu"       -> ImuStarts
       [] t = "barometer" -> BarometerStarts
       [] t = "sd_card"   -> SdCardStarts]

Steps ==
  [t \in ProductionTests |->
     CASE t \in {"status_led_red", "status_led_green"} -> StatusLedSteps
       [] t = "rgb_led"   -> RgbLedSteps
       [] t = "imu"       -> ImuSteps
       [] t = "barometer" -> BarometerSteps
       [] t = "sd_card"   -> SdCardSteps]

Terminal == {"passed", "failed"}
=============================================================================
