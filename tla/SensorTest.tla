----------------------------- MODULE SensorTest -----------------------------
(***************************************************************************)
(* The tests of the two sensors (components/bmi270/bmi270_test.c and       *)
(* components/bmp388/bmp388_test.c) with their drivers, on a millisecond   *)
(* counter that wraps.                                                     *)
(*                                                                         *)
(* A call of process() reads HAL_GetTick once, when it is entered.  A call *)
(* of the driver then takes its time: each of its stages is a step, and    *)
(* the counter runs on between the steps.  The main loop may also stay     *)
(* away from process() for a while (a queue of messages without room).     *)
(* One sensor is under test in a behaviour; its tests follow each other.   *)
(***************************************************************************)
EXTENDS ComponentBehaviours, Integers, Sequences

CONSTANTS
  TickRange,          \* values of uwTick, 2^32
  SettlingTime,       \* BMP388_SETTLING_TIME_MS, 2000
  BarometerInterval,  \* BMP388_SAMPLE_INTERVAL_MS, 200
  ImuInterval,        \* BMI270_SAMPLE_INTERVAL_MS, 100
  CallTicks,          \* bound: ticks within one call of process()
  StallTicks          \* bound: ticks from one call of process() to the next

Interval == [imu |-> ImuInterval, barometer |-> BarometerInterval]
Slack == CallTicks + StallTicks

\* Deadlines and delays stay below half the range of the counter.
ASSUME TimerConstants ==
  /\ TickRange \in Nat \ {0} /\ TickRange % 2 = 0
  /\ {SettlingTime, BarometerInterval, ImuInterval} \subseteq Nat \ {0}
  /\ {CallTicks, StallTicks} \subseteq Nat
  /\ \A time \in {SettlingTime, BarometerInterval, ImuInterval} :
       time + Slack < TickRange \div 2

VARIABLES
  sensor,          \* "imu" or "barometer": the one under test
  active,          \* the runner's active test is this one
  state,           \* bmi270_test_state_t, bmp388_test_state_t
  next_sample_at,
  result,          \* what process() returned last
  tick,            \* uwTick
  now,             \* initialization: the counter when process() was entered
  at,              \* the step of the driver, "returned" outside of it
  outcome,         \* what the driver returned: "none", "ok" or "failed"
  ready,           \* bmi270_ready, bmp388_ready
  last_failure,    \* bmp388_failure_t.stage
  bus_ready,       \* barometer_i2c_ready, spi context ready
  device,          \* the sensor: "sleep" or "normal" (measuring)
  pause,           \* history: ticks since process() was entered or left
  since_normal,    \* history: ticks in normal mode, up to SettlingTime
  since_sample,    \* history: ticks since the call of the last sample (since
                   \* Interval before it, when the first one becomes due)
  faulted          \* history: an access has failed since the initialization

testVars == <<active, state, next_sample_at, result>>
driverVars == <<at, outcome, ready, last_failure>>
deviceVars == <<bus_ready, device, since_normal, faulted>>
vars == <<sensor, testVars, tick, now, driverVars, deviceVars, pause,
          since_sample>>

MaxSince == Interval[sensor] + Slack + 1

Init ==
  /\ sensor \in {"imu", "barometer"}
  /\ active = FALSE
  /\ state = "initializing"
  /\ next_sample_at = 0
  /\ result = "none"
  /\ tick = 0
  /\ now = 0
  /\ at = "returned"
  /\ outcome = "none"
  /\ ready = FALSE
  /\ last_failure = "none"
  /\ bus_ready = FALSE
  /\ device \in {"sleep", "normal"}
  /\ pause = 0
  /\ since_normal = 0
  /\ since_sample = 0
  /\ faulted = (device = "normal")
-----------------------------------------------------------------------------
(***************************************************************************)
(* Deadlines: (int32_t)(now - next_sample_at) < 0 says "not yet".          *)
(***************************************************************************)
Later(time, delay) == (time + delay) % TickRange

Signed(word) == IF word < TickRange \div 2 THEN word ELSE word - TickRange

\* Faults: the counter is taken for one that never wraps; only the very
\* millisecond counts.
ReachedUnwrapped(deadline) == tick >= deadline
ReachedExactly(deadline) == tick = deadline

Reached(deadline) == Signed((tick - deadline) % TickRange) >= 0

\* process() has been entered and has not returned.
InCall == at # "returned" \/ outcome # "none"

(***************************************************************************)
(* SysTick_Handler: HAL_IncTick.                                           *)
(***************************************************************************)
Tick ==
  /\ active
  /\ pause < (IF InCall THEN CallTicks ELSE StallTicks)
  /\ tick' = Later(tick, 1)
  /\ pause' = pause + 1
  /\ since_normal' =
       IF device = "normal" /\ since_normal < SettlingTime
       THEN since_normal + 1 ELSE since_normal
  /\ since_sample' =
       IF state = "sampling" /\ since_sample < MaxSince
       THEN since_sample + 1 ELSE since_sample
  /\ UNCHANGED <<sensor, testVars, now, driverVars, bus_ready, device, faulted>>
-----------------------------------------------------------------------------
(***************************************************************************)
(* The accesses of the drivers.  Each finds its bus ready or prepares it,  *)
(* and may fail at that or on the wire.  An access that fails may have had *)
(* its effect on the sensor all the same.                                  *)
(***************************************************************************)
Succeeds(effect) ==
  /\ bus_ready' = TRUE
  /\ device' = effect
  /\ UNCHANGED faulted

Fails(effect) ==
  /\ bus_ready' \in {bus_ready, TRUE}
  /\ device' \in {device, effect}
  /\ faulted' = TRUE

DriverReturns(with) == at' = "returned" /\ outcome' = with

(***************************************************************************)
(* bmi270_driver_initialize and bmp388_driver_initialize: the stages in    *)
(* order.  The Bosch initialization resets the sensor, the last stage lets *)
(* it measure.  Only the barometer's driver keeps the failure.             *)
(***************************************************************************)
Stages ==
  IF sensor = "imu"
  THEN <<"init", "set_sensor_config", "sensor_enable">>
  ELSE <<"i2c_address_probe", "chip_id_and_calibration",
         "sampling_configuration", "normal_mode">>

StageEffect ==
  CASE at \in {"sensor_enable", "normal_mode"} -> "normal"
    [] at \in {"init", "chip_id_and_calibration"} -> "sleep"
    [] OTHER -> device

RecordFailure(stage) ==
  last_failure' = IF sensor = "barometer" THEN stage ELSE last_failure

BeginInitialize ==
  /\ at' = Stages[1]
  /\ outcome' = "none"
  /\ ready' = FALSE
  /\ last_failure' = "none"
  /\ faulted' = FALSE
  /\ UNCHANGED <<bus_ready, device, since_normal>>

Initialize ==
  /\ \E i \in DOMAIN Stages :
       /\ at = Stages[i]
       /\ \/ /\ Succeeds(StageEffect)
             /\ IF i = Len(Stages)
                THEN DriverReturns("ok") /\ ready' = TRUE
                ELSE at' = Stages[i + 1] /\ UNCHANGED <<outcome, ready>>
             /\ UNCHANGED last_failure
          \/ /\ Fails(StageEffect)
             /\ DriverReturns("failed")
             /\ RecordFailure(at)
             /\ UNCHANGED ready
  /\ since_normal' = 0
  /\ UNCHANGED <<sensor, testVars, tick, now, pause, since_sample>>

(***************************************************************************)
(* bmi270_driver_read_sample and bmp388_driver_read_sample.  A value out   *)
(* of range is the barometer's alone.                                      *)
(***************************************************************************)
BeginRead ==
  /\ at' = "sample_read"
  /\ outcome' = "none"
  /\ UNCHANGED <<ready, last_failure, deviceVars>>

ReadSample ==
  /\ at = "sample_read"
  /\ \/ /\ ready
        /\ Succeeds(device)
        /\ \/ DriverReturns("ok") /\ UNCHANGED last_failure
           \/ /\ sensor = "barometer"
              /\ DriverReturns("failed")
              /\ RecordFailure("sample_conversion")
     \/ /\ Fails(device)
        /\ DriverReturns("failed")
        /\ RecordFailure("sample_read")
  /\ UNCHANGED <<sensor, testVars, tick, now, ready, pause, since_normal,
                 since_sample>>

(***************************************************************************)
(* bmp388_driver_shutdown puts a sensor to sleep that it has made ready;   *)
(* bmi270_driver_shutdown only forgets that it has.                        *)
(***************************************************************************)
\* Fault: ready is cleared before it is asked.
ShutdownForgetful ==
  /\ ready' = FALSE
  /\ UNCHANGED <<last_failure, deviceVars>>

Shutdown ==
  /\ ready' = FALSE
  /\ \/ /\ sensor = "barometer" /\ ready
        /\ Succeeds("sleep") \/ Fails("sleep")
     \/ /\ sensor = "imu" \/ ~ready
        /\ UNCHANGED <<bus_ready, device, faulted>>
  /\ UNCHANGED <<last_failure, since_normal>>
-----------------------------------------------------------------------------
(***************************************************************************)
(* component_test_runner_start: bmi270_test_start, bmp388_test_start.  Any *)
(* time may have passed since the test before.                             *)
(***************************************************************************)
Start ==
  /\ ~active
  /\ active' = TRUE
  /\ state' = "initializing"
  /\ result' = "none"
  /\ tick' \in 0 .. TickRange - 1
  /\ pause' = 0
  /\ UNCHANGED <<sensor, next_sample_at, now, driverVars, deviceVars,
                 since_sample>>

(***************************************************************************)
(* A call of process(): it reads the counter; it may ask the driver, and   *)
(* it returns a result and leaves a state.                                 *)
(***************************************************************************)
Enters ==
  /\ active
  /\ at = "returned" /\ outcome = "none"
  /\ pause' = 0
  /\ UNCHANGED <<sensor, tick>>

Returns(with, to) == result' = with /\ state' = to

CallInitialize ==
  /\ state = "initializing"
  /\ Enters
  /\ now' = tick
  /\ BeginInitialize
  /\ UNCHANGED <<testVars, since_sample>>

\* Fault: the settling time is left out.
SettlingDeadlineMissing == now
SettlingDeadline == Later(now, SettlingTime)

InitializeReturns ==
  /\ active /\ state = "initializing"
  /\ at = "returned" /\ outcome # "none"
  /\ outcome' = "none"
  /\ pause' = 0
  /\ \/ /\ outcome = "ok" /\ sensor = "imu"
        /\ Returns("imu_ready", "sampling")
        /\ next_sample_at' = now
        /\ since_sample' = Interval[sensor] + pause
     \/ /\ outcome = "ok" /\ sensor = "barometer"
        /\ Returns("barometer_stabilizing", "settling")
        /\ next_sample_at' = SettlingDeadline
        /\ UNCHANGED since_sample
     \/ /\ outcome = "failed" /\ sensor = "barometer"
        /\ Returns("component_failure", "failed")
        /\ UNCHANGED <<next_sample_at, since_sample>>
  /\ now' = 0
  /\ UNCHANGED <<sensor, active, tick, at, ready, last_failure, deviceVars>>

\* Nothing to do yet.
Wait ==
  /\ state \in {"settling", "sampling"}
  /\ ~Reached(next_sample_at)
  /\ Enters
  /\ Returns("running", state)
  /\ UNCHANGED <<active, next_sample_at, now, driverVars, deviceVars,
                 since_sample>>

Settled ==
  /\ state = "settling"
  /\ Reached(next_sample_at)
  /\ Enters
  /\ Returns("barometer_ready", "sampling")
  /\ next_sample_at' = tick
  /\ since_sample' = Interval[sensor]
  /\ UNCHANGED <<active, now, driverVars, deviceVars>>

\* The deadline of the next sample is set before this one is read.
CallReadSample ==
  /\ state = "sampling"
  /\ Reached(next_sample_at)
  /\ Enters
  /\ next_sample_at' = Later(tick, Interval[sensor])
  /\ since_sample' = 0
  /\ BeginRead
  /\ UNCHANGED <<active, state, now, result>>

SampleEvent == [imu |-> "imu_sample", barometer |-> "barometer_sample"]

\* Fault: the barometer's failure is its result at once.
FailedSampleAtOnce ==
  \/ outcome = "ok" /\ Returns(SampleEvent[sensor], "sampling")
  \/ outcome = "failed" /\ sensor = "barometer" /\ Returns("failed", "failed")

FinishedSample ==
  \/ outcome = "ok" /\ Returns(SampleEvent[sensor], "sampling")
  \/ /\ outcome = "failed" /\ sensor = "barometer"
     /\ Returns("component_failure", "failed")

ReadSampleReturns ==
  /\ active /\ state = "sampling"
  /\ at = "returned" /\ outcome # "none"
  /\ outcome' = "none"
  /\ pause' = 0
  /\ FinishedSample
  /\ UNCHANGED <<sensor, active, next_sample_at, tick, now, at, ready,
                 last_failure, deviceVars, since_sample>>

(***************************************************************************)
(* A failure ends the test, and the runner calls stop(): with the call     *)
(* that failed for the IMU, with the one after the event for the           *)
(* barometer.  A stop request ends it between two calls.                   *)
(***************************************************************************)
Ends(with, to) ==
  /\ active' = FALSE
  /\ Returns(with, to)
  /\ outcome' = "none"
  /\ Shutdown
  /\ now' = 0 /\ since_sample' = 0
  /\ UNCHANGED <<sensor, next_sample_at, tick, at>>

ImuFails ==
  /\ active /\ sensor = "imu"
  /\ at = "returned" /\ outcome = "failed"
  /\ Ends("failed", "failed")
  /\ UNCHANGED pause

Verdict ==
  /\ state = "failed"
  /\ Enters
  /\ Ends("failed", "failed")

Stop ==
  /\ active
  /\ at = "returned" /\ outcome = "none"
  /\ Ends("none", state)
  /\ UNCHANGED pause

Process ==
  \/ CallInitialize \/ Initialize \/ InitializeReturns
  \/ Wait \/ Settled
  \/ CallReadSample \/ ReadSample \/ ReadSampleReturns
  \/ ImuFails \/ Verdict

Next == Tick \/ Start \/ Process \/ Stop

Spec == Init /\ [][Next]_vars
-----------------------------------------------------------------------------
FlagsOK ==
  /\ active \in BOOLEAN /\ ready \in BOOLEAN
  /\ bus_ready \in BOOLEAN /\ faulted \in BOOLEAN

PlaceOK ==
  /\ sensor \in {"imu", "barometer"}
  /\ state \in {"initializing", "settling", "sampling", "failed"}
  /\ at \in {"returned", "sample_read", "init", "set_sensor_config",
             "sensor_enable", "i2c_address_probe", "chip_id_and_calibration",
             "sampling_configuration", "normal_mode"}
  /\ outcome \in {"none", "ok", "failed"}
  /\ device \in {"sleep", "normal"}

ClocksOK ==
  /\ next_sample_at \in 0 .. TickRange - 1
  /\ tick \in 0 .. TickRange - 1
  /\ now \in 0 .. TickRange - 1
  /\ pause \in 0 .. Slack
  /\ since_normal \in 0 .. SettlingTime
  /\ since_sample \in 0 .. MaxSince

TypeOK == FlagsOK /\ PlaceOK /\ ClocksOK

(***************************************************************************)
(* Two samples are never closer to each other than the interval, wherever  *)
(* the counter wraps and whatever was left in next_sample_at by a test     *)
(* before.                                                                 *)
(***************************************************************************)
SamplesSpaced ==
  [][at # "sample_read" /\ at' = "sample_read"
     => since_sample >= Interval[sensor]]_vars

(***************************************************************************)
(* A test that samples goes on sampling: no sample is later than the       *)
(* interval and the time the main loop may take, wherever the counter      *)
(* wraps.                                                                  *)
(***************************************************************************)
SamplesInTime ==
  active /\ state = "sampling" => since_sample <= Interval[sensor] + Slack

(***************************************************************************)
(* No sample is read before the barometer has measured for the settling    *)
(* time, less what the initialization took after its last stage: the       *)
(* deadline counts from the entry of the call.                             *)
(***************************************************************************)
SettledBeforeSampling ==
  sensor = "barometer" /\ at = "sample_read"
  => since_normal >= SettlingTime - CallTicks

(***************************************************************************)
(* However a test of the barometer ends, the sensor does not go on         *)
(* measuring, unless an access to it failed.                               *)
(***************************************************************************)
AsleepAfterTest ==
  sensor = "barometer" /\ ~active /\ ~faulted => device = "sleep"

(***************************************************************************)
(* The sensor tests behave as their runner and SessionProtocol take them   *)
(* to.  An event's name reaches the runner with the event; the IMU's is    *)
(* "imu_ready" from start() on.                                            *)
(***************************************************************************)
ImuLifecycle ==
  INSTANCE ComponentLifecycle
    WITH StartStates <- ImuStarts,
         Behaviour <- ImuSteps,
         component <- IF sensor = "imu" /\ active THEN state ELSE Off,
         result <- IF sensor = "imu" THEN result ELSE "none"

BarometerLifecycle ==
  INSTANCE ComponentLifecycle
    WITH StartStates <- BarometerStarts,
         Behaviour <- BarometerSteps,
         component <- IF sensor = "barometer" /\ active THEN state ELSE Off,
         result <- IF sensor = "barometer" THEN result ELSE "none"

ImplementsLifecycle == ImuLifecycle!Spec /\ BarometerLifecycle!Spec
=============================================================================
