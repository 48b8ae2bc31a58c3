-------------------------- MODULE SensorTest_proofs --------------------------
(***************************************************************************)
(* Theorems about the sensor tests for every range of the millisecond      *)
(* counter and every settling time, interval and stall that stay below     *)
(* half of it.                                                             *)
(***************************************************************************)
EXTENDS SensorTest, TLAPS

Half == TickRange \div 2

\* The counter is e ticks past the deadline (before it, for a negative e),
\* however often it has wrapped.
After(deadline, e) ==
  \/ tick = deadline + e
  \/ tick = deadline + e + TickRange
  \/ tick = deadline + e - TickRange

(***************************************************************************)
(* Where the test is inside a call of process(), and how long.             *)
(***************************************************************************)
InStages == at \notin {"returned", "sample_read"}

ControlAgrees ==
  /\ InStages => active /\ state = "initializing"
  /\ at = "sample_read" => active /\ state = "sampling"
  /\ outcome # "none" => /\ active /\ at = "returned"
                         /\ state \in {"initializing", "sampling"}
  /\ active => pause <= IF InCall THEN CallTicks ELSE StallTicks
  /\ state = "settling" => sensor = "barometer"

(***************************************************************************)
(* What the deadlines and the histories say of the counter.                *)
(***************************************************************************)
InitializationTimed ==
  active /\ state = "initializing" /\ InCall => After(now, pause)

SettlingTimed ==
  active /\ state = "settling" =>
    /\ device = "normal"
    /\ \E e \in 0 .. SettlingTime + CallTicks + pause :
         /\ After(next_sample_at, e - SettlingTime)
         /\ since_normal >= e - CallTicks \/ since_normal = SettlingTime

SamplingTimed ==
  active /\ state = "sampling" =>
    /\ After(next_sample_at, since_sample - Interval[sensor])
    /\ IF InCall THEN since_sample = pause
       ELSE since_sample <= Interval[sensor] + CallTicks + pause

(***************************************************************************)
(* What the driver's flag says of the sensor.                              *)
(***************************************************************************)
Measured ==
  sensor = "barometer" =>
    /\ state = "initializing" /\ outcome = "ok" => device = "normal"
    /\ active /\ state = "sampling" => since_normal >= SettlingTime - CallTicks

AwakeIsKnown ==
  sensor = "barometer" /\ device = "normal" /\ ~faulted =>
    \/ ready /\ active
    \/ at \in {"i2c_address_probe", "chip_id_and_calibration"}

Inv == /\ TypeOK
       /\ ControlAgrees
       /\ InitializationTimed /\ SettlingTimed /\ SamplingTimed
       /\ Measured /\ AwakeIsKnown
-----------------------------------------------------------------------------
(***************************************************************************)
(* The constants, and the arithmetic of the counter.                       *)
(***************************************************************************)
LEMMA Constants ==
  /\ TickRange \in Nat \ {0} /\ Half \in Nat /\ TickRange = 2 * Half
  /\ CallTicks \in Nat /\ StallTicks \in Nat /\ Slack = CallTicks + StallTicks
  /\ SettlingTime \in Nat \ {0} /\ SettlingTime + Slack < Half
<1>1. TickRange \in Nat \ {0} /\ TickRange % 2 = 0
  BY TimerConstants
<1>2. Half \in Nat /\ TickRange = 2 * Half
  BY <1>1 DEF Half
<1> QED
  BY <1>1, <1>2, TimerConstants DEF Half, Slack

LEMMA IntervalFits ==
  ASSUME sensor \in {"imu", "barometer"}
  PROVE  /\ Interval[sensor] \in Nat \ {0}
         /\ Interval[sensor] + Slack < Half
<1>1. Interval[sensor] \in {BarometerInterval, ImuInterval}
  BY DEF Interval
<1> QED
  BY <1>1, TimerConstants DEF Half

LEMMA StageNames ==
  ASSUME sensor \in {"imu", "barometer"}
  PROVE  /\ DOMAIN Stages = IF sensor = "imu" THEN 1..3 ELSE 1..4
         /\ Stages[1] = IF sensor = "imu" THEN "init" ELSE "i2c_address_probe"
         /\ Stages[2] = IF sensor = "imu" THEN "set_sensor_config"
                                          ELSE "chip_id_and_calibration"
         /\ Stages[3] = IF sensor = "imu" THEN "sensor_enable"
                                          ELSE "sampling_configuration"
         /\ sensor = "barometer" => Stages[4] = "normal_mode"
BY DEF Stages

LEMMA LaterWraps ==
  ASSUME NEW time \in 0 .. TickRange - 1, NEW delay \in 0 .. TickRange - 1
  PROVE  /\ Later(time, delay) \in 0 .. TickRange - 1
         /\ \/ Later(time, delay) = time + delay
            \/ Later(time, delay) = time + delay - TickRange
BY Constants DEF Later

LEMMA ReachedInTime ==
  ASSUME NEW deadline \in 0 .. TickRange - 1, tick \in 0 .. TickRange - 1,
         NEW e \in Int, -Half < e, e < Half, After(deadline, e)
  PROVE  Reached(deadline) <=> e >= 0
<1> DEFINE word == (tick - deadline) % TickRange
<1>1. word = IF e >= 0 THEN e ELSE e + TickRange
  BY Constants DEF After
<1>2. Signed(word) = e
  BY <1>1, Constants DEF Signed, Half
<1> QED
  BY <1>2 DEF Reached

LEMMA SettlingFits == SettlingTime \in 0 .. TickRange - 1
BY Constants

(***************************************************************************)
(* A stage of the initialization ends it well, leads to the next one or    *)
(* fails.                                                                  *)
(***************************************************************************)
LEMMA StageEnds ==
  ASSUME PlaceOK, Initialize
  PROVE  /\ InStages
         /\ \/ /\ Succeeds(StageEffect)
               /\ at \in {"sensor_enable", "normal_mode"}
               /\ at' = "returned" /\ outcome' = "ok" /\ ready' = TRUE
            \/ /\ Succeeds(StageEffect)
               /\ at \notin {"sensor_enable", "normal_mode"}
               /\ at' = "chip_id_and_calibration" <=> at = "i2c_address_probe"
               /\ at' \in {"set_sensor_config", "sensor_enable",
                           "chip_id_and_calibration",
                           "sampling_configuration", "normal_mode"}
               /\ UNCHANGED <<outcome, ready>>
            \/ /\ Fails(StageEffect)
               /\ at' = "returned" /\ outcome' = "failed"
               /\ UNCHANGED ready
         /\ since_normal' = 0
         /\ UNCHANGED <<sensor, testVars, tick, now, pause, since_sample>>
<1>1. PICK i \in DOMAIN Stages :
        /\ at = Stages[i]
        /\ \/ /\ Succeeds(StageEffect)
              /\ IF i = Len(Stages)
                 THEN DriverReturns("ok") /\ ready' = TRUE
                 ELSE at' = Stages[i + 1] /\ UNCHANGED <<outcome, ready>>
              /\ UNCHANGED last_failure
           \/ /\ Fails(StageEffect)
              /\ DriverReturns("failed")
              /\ RecordFailure(at)
              /\ UNCHANGED ready
  BY DEF Initialize
<1>2. /\ since_normal' = 0
      /\ UNCHANGED <<sensor, testVars, tick, now, pause, since_sample>>
  BY DEF Initialize
<1>3. CASE sensor = "imu"
  <2>1. Len(Stages) = 3 /\ i \in {1, 2, 3}
    BY <1>3 DEF Stages
  <2>2. /\ Stages[1] = "init" /\ Stages[2] = "set_sensor_config"
        /\ Stages[3] = "sensor_enable"
    BY <1>3 DEF Stages
  <2> QED
    BY <1>1, <1>2, <2>1, <2>2 DEF InStages, DriverReturns
<1>4. CASE sensor = "barometer"
  <2>1. Len(Stages) = 4 /\ i \in {1, 2, 3, 4}
    BY <1>4 DEF Stages
  <2>2. /\ Stages[1] = "i2c_address_probe"
        /\ Stages[2] = "chip_id_and_calibration"
        /\ Stages[3] = "sampling_configuration"
        /\ Stages[4] = "normal_mode"
    BY <1>4 DEF Stages
  <2> QED
    BY <1>1, <1>2, <2>1, <2>2 DEF InStages, DriverReturns
<1> QED
  BY <1>3, <1>4 DEF PlaceOK

LEMMA ShutdownKnown ==
  ASSUME AwakeIsKnown, Shutdown, UNCHANGED <<sensor, at>>, at = "returned"
  PROVE  AwakeIsKnown'
<1>1. CASE sensor = "barometer" /\ ready /\ Succeeds("sleep")
  BY <1>1 DEF AwakeIsKnown, Succeeds
<1>2. CASE sensor = "barometer" /\ ready /\ Fails("sleep")
  BY <1>2 DEF AwakeIsKnown, Fails
<1>3. CASE (sensor = "imu" \/ ~ready) /\ UNCHANGED <<device, faulted>>
  BY <1>3 DEF AwakeIsKnown
<1> QED
  BY <1>1, <1>2, <1>3 DEF Shutdown
-----------------------------------------------------------------------------
(***************************************************************************)
(* Each part of the invariant survives each step.                          *)
(***************************************************************************)
LEMMA FlagsStep == Inv /\ [Next]_vars => FlagsOK'
<1> SUFFICES ASSUME Inv, [Next]_vars PROVE FlagsOK'
  OBVIOUS
<1>1. CASE Tick
  BY <1>1
     DEF Inv, TypeOK, FlagsOK, PlaceOK, Tick, testVars, driverVars,
         deviceVars
<1>2. CASE Start
  BY <1>2
     DEF Inv, TypeOK, FlagsOK, PlaceOK, Start, testVars, driverVars,
         deviceVars
<1>3. CASE CallInitialize
  BY <1>3
     DEF Inv, TypeOK, FlagsOK, PlaceOK, CallInitialize, Enters,
         BeginInitialize, testVars, driverVars, deviceVars
<1>4. CASE Initialize
  BY <1>4, StageEnds
     DEF Inv, TypeOK, FlagsOK, PlaceOK, testVars, driverVars, deviceVars,
         Succeeds, Fails, StageEffect
<1>5. CASE InitializeReturns
  BY <1>5
     DEF Inv, TypeOK, FlagsOK, PlaceOK, InitializeReturns, Returns,
         SettlingDeadline, testVars, driverVars, deviceVars
<1>6. CASE Wait
  BY <1>6
     DEF Inv, TypeOK, FlagsOK, PlaceOK, Wait, Enters, Returns, testVars,
         driverVars, deviceVars
<1>7. CASE Settled
  BY <1>7
     DEF Inv, TypeOK, FlagsOK, PlaceOK, Settled, Enters, Returns, testVars,
         driverVars, deviceVars
<1>8. CASE CallReadSample
  BY <1>8
     DEF Inv, TypeOK, FlagsOK, PlaceOK, CallReadSample, Enters, BeginRead,
         testVars, driverVars, deviceVars
<1>9. CASE ReadSample
  BY <1>9
     DEF Inv, TypeOK, FlagsOK, PlaceOK, ReadSample, Succeeds, Fails,
         DriverReturns, RecordFailure, testVars, driverVars, deviceVars
<1>10. CASE ReadSampleReturns
  BY <1>10
     DEF Inv, TypeOK, FlagsOK, PlaceOK, ReadSampleReturns, FinishedSample,
         Returns, testVars, driverVars, deviceVars
<1>11. CASE ImuFails
  BY <1>11
     DEF Inv, TypeOK, FlagsOK, PlaceOK, ImuFails, Ends, Shutdown, Returns,
         Succeeds, Fails, testVars, driverVars, deviceVars
<1>12. CASE Verdict
  BY <1>12
     DEF Inv, TypeOK, FlagsOK, PlaceOK, Verdict, Enters, Ends, Shutdown,
         Returns, Succeeds, Fails, testVars, driverVars, deviceVars
<1>13. CASE Stop
  BY <1>13
     DEF Inv, TypeOK, FlagsOK, PlaceOK, Stop, Ends, Shutdown, Returns,
         Succeeds, Fails, testVars, driverVars, deviceVars
<1>14. CASE UNCHANGED vars
  BY <1>14
     DEF Inv, TypeOK, FlagsOK, PlaceOK, vars, testVars, driverVars,
         deviceVars
<1> QED
  BY <1>1, <1>2, <1>3, <1>4, <1>5, <1>6, <1>7, <1>8, <1>9, <1>10, <1>11,
     <1>12, <1>13, <1>14
     DEF Next, Process

LEMMA PlaceStep == Inv /\ [Next]_vars => PlaceOK'
<1> SUFFICES ASSUME Inv, [Next]_vars PROVE PlaceOK'
  OBVIOUS
<1>1. CASE Tick
  BY <1>1, StageNames
     DEF Inv, TypeOK, PlaceOK, Tick, testVars, driverVars, deviceVars
<1>2. CASE Start
  BY <1>2, StageNames
     DEF Inv, TypeOK, PlaceOK, Start, testVars, driverVars, deviceVars
<1>3. CASE CallInitialize
  BY <1>3, StageNames
     DEF Inv, TypeOK, PlaceOK, CallInitialize, Enters, BeginInitialize,
         testVars, driverVars, deviceVars
<1>4. CASE Initialize
  BY <1>4, StageNames, StageEnds
     DEF Inv, TypeOK, PlaceOK, testVars, driverVars, deviceVars, Succeeds,
         Fails, StageEffect
<1>5. CASE InitializeReturns
  BY <1>5, StageNames
     DEF Inv, TypeOK, PlaceOK, InitializeReturns, Returns, SettlingDeadline,
         testVars, driverVars, deviceVars
<1>6. CASE Wait
  BY <1>6, StageNames
     DEF Inv, TypeOK, PlaceOK, Wait, Enters, Returns, testVars, driverVars,
         deviceVars
<1>7. CASE Settled
  BY <1>7, StageNames
     DEF Inv, TypeOK, PlaceOK, Settled, Enters, Returns, testVars,
         driverVars, deviceVars
<1>8. CASE CallReadSample
  BY <1>8, StageNames
     DEF Inv, TypeOK, PlaceOK, CallReadSample, Enters, BeginRead, testVars,
         driverVars, deviceVars
<1>9. CASE ReadSample
  BY <1>9, StageNames
     DEF Inv, TypeOK, PlaceOK, ReadSample, Succeeds, Fails, DriverReturns,
         RecordFailure, testVars, driverVars, deviceVars
<1>10. CASE ReadSampleReturns
  BY <1>10, StageNames
     DEF Inv, TypeOK, PlaceOK, ReadSampleReturns, FinishedSample, Returns,
         testVars, driverVars, deviceVars
<1>11. CASE ImuFails
  BY <1>11, StageNames
     DEF Inv, TypeOK, PlaceOK, ImuFails, Ends, Shutdown, Returns, Succeeds,
         Fails, testVars, driverVars, deviceVars
<1>12. CASE Verdict
  BY <1>12, StageNames
     DEF Inv, TypeOK, PlaceOK, Verdict, Enters, Ends, Shutdown, Returns,
         Succeeds, Fails, testVars, driverVars, deviceVars
<1>13. CASE Stop
  BY <1>13, StageNames
     DEF Inv, TypeOK, PlaceOK, Stop, Ends, Shutdown, Returns, Succeeds,
         Fails, testVars, driverVars, deviceVars
<1>14. CASE UNCHANGED vars
  BY <1>14, StageNames
     DEF Inv, TypeOK, PlaceOK, vars, testVars, driverVars, deviceVars
<1> QED
  BY <1>1, <1>2, <1>3, <1>4, <1>5, <1>6, <1>7, <1>8, <1>9, <1>10, <1>11,
     <1>12, <1>13, <1>14
     DEF Next, Process

LEMMA ClocksStep == Inv /\ [Next]_vars => ClocksOK'
<1> SUFFICES ASSUME Inv, [Next]_vars PROVE ClocksOK'
  OBVIOUS
<1>0. /\ ClocksOK /\ SettlingTime \in Nat /\ Slack \in Nat
      /\ Interval[sensor] \in 0 .. TickRange - 1
      /\ SettlingTime \in 0 .. TickRange - 1
      /\ 0 \in 0 .. TickRange - 1 /\ 0 \in 0 .. Slack
      /\ 0 \in 0 .. SettlingTime
      /\ CallTicks <= Slack /\ StallTicks <= Slack
  BY IntervalFits, Constants DEF Inv, TypeOK, PlaceOK
<1>a. /\ MaxSince \in Nat /\ 0 \in 0 .. MaxSince
      /\ MaxSince = Interval[sensor] + Slack + 1
      /\ sensor' = sensor => MaxSince' = MaxSince
  BY <1>0 DEF MaxSince
<1>b. active => /\ pause \in Nat
                /\ pause <= IF InCall THEN CallTicks ELSE StallTicks
  BY <1>0 DEF Inv, ControlAgrees, ClocksOK
<1>1. CASE Tick
  <2>1. tick' \in 0 .. TickRange - 1
    BY <1>1, <1>0, LaterWraps, Constants DEF Tick, ClocksOK
  <2>2. pause' \in 0 .. Slack
    BY <1>1, <1>0, <1>b, Constants DEF Tick
  <2>3. since_normal' \in 0 .. SettlingTime
    BY <1>1, <1>0 DEF Tick, ClocksOK
  <2>4. since_sample' \in 0 .. MaxSince'
    BY <1>1, <1>0, <1>a DEF Tick, ClocksOK
  <2> QED
    BY <1>1, <1>0, <2>1, <2>2, <2>3, <2>4 DEF Tick, ClocksOK, testVars
<1>2. CASE Start
  BY <1>2, <1>0, <1>a
     DEF ClocksOK, Start, deviceVars
<1>3. CASE CallInitialize
  BY <1>3, <1>0, <1>a
     DEF ClocksOK, CallInitialize, Enters, BeginInitialize, testVars
<1>4. CASE Initialize
  BY <1>4, <1>0, <1>a, StageEnds
     DEF ClocksOK, Inv, TypeOK, testVars
<1>5. CASE InitializeReturns
  <2>1. next_sample_at' \in 0 .. TickRange - 1
    <3>1. next_sample_at' \in {next_sample_at, now, Later(now, SettlingTime)}
      BY <1>5 DEF InitializeReturns, SettlingDeadline
    <3>2. /\ next_sample_at \in 0 .. TickRange - 1
          /\ now \in 0 .. TickRange - 1
          /\ SettlingTime \in 0 .. TickRange - 1
      BY <1>0, Constants DEF ClocksOK
    <3>3. Later(now, SettlingTime) \in 0 .. TickRange - 1
      BY <3>2, LaterWraps
    <3> QED
      BY <3>1, <3>2, <3>3
  <2>2. Interval[sensor] + pause \in 0 .. MaxSince
    BY <1>5, <1>0, <1>a, <1>b DEF InitializeReturns, InCall, ClocksOK
  <2>3. since_sample' \in 0 .. MaxSince'
    BY <1>5, <1>0, <1>a, <2>2 DEF InitializeReturns, ClocksOK
  <2> QED
    BY <1>5, <1>0, <2>1, <2>3 DEF InitializeReturns, ClocksOK, deviceVars
<1>6. CASE Wait
  BY <1>6, <1>0, <1>a
     DEF ClocksOK, Wait, Enters, deviceVars
<1>7. CASE Settled
  <2>1. Interval[sensor] \in 0 .. MaxSince
    BY <1>0, <1>a
  <2> QED
    BY <1>7, <1>0, <1>a, <2>1 DEF Settled, Enters, ClocksOK, deviceVars
<1>8. CASE CallReadSample
  <2>1. next_sample_at' \in 0 .. TickRange - 1
    BY <1>8, <1>0, LaterWraps DEF CallReadSample, Enters, ClocksOK
  <2> QED
    BY <1>8, <1>0, <1>a, <2>1
       DEF CallReadSample, Enters, BeginRead, ClocksOK, deviceVars
<1>9. CASE ReadSample
  BY <1>9, <1>0, <1>a
     DEF ClocksOK, ReadSample, testVars
<1>10. CASE ReadSampleReturns
  BY <1>10, <1>0, <1>a
     DEF ClocksOK, ReadSampleReturns, deviceVars
<1>11. CASE ImuFails
  BY <1>11, <1>0, <1>a
     DEF ClocksOK, ImuFails, Ends, Shutdown
<1>12. CASE Verdict
  BY <1>12, <1>0, <1>a
     DEF ClocksOK, Verdict, Enters, Ends, Shutdown
<1>13. CASE Stop
  BY <1>13, <1>0, <1>a
     DEF ClocksOK, Stop, Ends, Shutdown
<1>14. CASE UNCHANGED vars
  BY <1>14, <1>0, <1>a
     DEF ClocksOK, vars, testVars, deviceVars
<1> QED
  BY <1>1, <1>2, <1>3, <1>4, <1>5, <1>6, <1>7, <1>8, <1>9, <1>10, <1>11,
     <1>12, <1>13, <1>14
     DEF Next, Process

LEMMA ControlStep == Inv /\ [Next]_vars => ControlAgrees'
<1> SUFFICES ASSUME Inv, [Next]_vars PROVE ControlAgrees'
  OBVIOUS
<1>1. CASE Tick
  BY <1>1, Constants, StageNames
     DEF Inv, TypeOK, PlaceOK, ClocksOK, ControlAgrees, InStages, InCall,
         Tick, testVars, driverVars, deviceVars
<1>2. CASE Start
  BY <1>2, Constants, StageNames
     DEF Inv, TypeOK, PlaceOK, ClocksOK, ControlAgrees, InStages, InCall,
         Start, testVars, driverVars, deviceVars
<1>3. CASE CallInitialize
  BY <1>3, Constants, StageNames
     DEF Inv, TypeOK, PlaceOK, ClocksOK, ControlAgrees, InStages, InCall,
         CallInitialize, Enters, BeginInitialize, testVars, driverVars,
         deviceVars
<1>4. CASE Initialize
  BY <1>4, Constants, StageNames, StageEnds
     DEF Inv, TypeOK, PlaceOK, ClocksOK, ControlAgrees, InStages, InCall,
         testVars, driverVars, deviceVars, Succeeds, Fails, StageEffect
<1>5. CASE InitializeReturns
  BY <1>5, Constants, StageNames
     DEF Inv, TypeOK, PlaceOK, ClocksOK, ControlAgrees, InStages, InCall,
         InitializeReturns, Returns, SettlingDeadline, testVars, driverVars,
         deviceVars
<1>6. CASE Wait
  BY <1>6, Constants, StageNames
     DEF Inv, TypeOK, PlaceOK, ClocksOK, ControlAgrees, InStages, InCall,
         Wait, Enters, Returns, testVars, driverVars, deviceVars
<1>7. CASE Settled
  BY <1>7, Constants, StageNames
     DEF Inv, TypeOK, PlaceOK, ClocksOK, ControlAgrees, InStages, InCall,
         Settled, Enters, Returns, testVars, driverVars, deviceVars
<1>8. CASE CallReadSample
  BY <1>8, Constants, StageNames
     DEF Inv, TypeOK, PlaceOK, ClocksOK, ControlAgrees, InStages, InCall,
         CallReadSample, Enters, BeginRead, testVars, driverVars, deviceVars
<1>9. CASE ReadSample
  BY <1>9, Constants, StageNames
     DEF Inv, TypeOK, PlaceOK, ClocksOK, ControlAgrees, InStages, InCall,
         ReadSample, Succeeds, Fails, DriverReturns, RecordFailure, testVars,
         driverVars, deviceVars
<1>10. CASE ReadSampleReturns
  BY <1>10, Constants, StageNames
     DEF Inv, TypeOK, PlaceOK, ClocksOK, ControlAgrees, InStages, InCall,
         ReadSampleReturns, FinishedSample, Returns, testVars, driverVars,
         deviceVars
<1>11. CASE ImuFails
  BY <1>11, Constants, StageNames
     DEF Inv, TypeOK, PlaceOK, ClocksOK, ControlAgrees, InStages, InCall,
         ImuFails, Ends, Shutdown, Returns, Succeeds, Fails, testVars,
         driverVars, deviceVars
<1>12. CASE Verdict
  BY <1>12, Constants, StageNames
     DEF Inv, TypeOK, PlaceOK, ClocksOK, ControlAgrees, InStages, InCall,
         Verdict, Enters, Ends, Shutdown, Returns, Succeeds, Fails, testVars,
         driverVars, deviceVars
<1>13. CASE Stop
  BY <1>13, Constants, StageNames
     DEF Inv, TypeOK, PlaceOK, ClocksOK, ControlAgrees, InStages, InCall,
         Stop, Ends, Shutdown, Returns, Succeeds, Fails, testVars,
         driverVars, deviceVars
<1>14. CASE UNCHANGED vars
  BY <1>14, Constants, StageNames
     DEF Inv, TypeOK, PlaceOK, ClocksOK, ControlAgrees, InStages, InCall,
         vars, testVars, driverVars, deviceVars
<1> QED
  BY <1>1, <1>2, <1>3, <1>4, <1>5, <1>6, <1>7, <1>8, <1>9, <1>10, <1>11,
     <1>12, <1>13, <1>14
     DEF Next, Process

LEMMA AwakeStep == Inv /\ [Next]_vars => AwakeIsKnown'
<1> SUFFICES ASSUME Inv, [Next]_vars PROVE AwakeIsKnown'
  OBVIOUS
<1>1. CASE Tick
  BY <1>1, StageNames
     DEF Inv, TypeOK, PlaceOK, ControlAgrees, InStages, AwakeIsKnown, Tick,
         testVars, driverVars, deviceVars
<1>2. CASE Start
  BY <1>2, StageNames
     DEF Inv, TypeOK, PlaceOK, ControlAgrees, InStages, AwakeIsKnown, Start,
         testVars, driverVars, deviceVars
<1>3. CASE CallInitialize
  BY <1>3, StageNames
     DEF Inv, TypeOK, PlaceOK, ControlAgrees, InStages, AwakeIsKnown,
         CallInitialize, Enters, BeginInitialize, testVars, driverVars,
         deviceVars
<1>4. CASE Initialize
  BY <1>4, StageNames, StageEnds
     DEF Inv, TypeOK, PlaceOK, ControlAgrees, InStages, AwakeIsKnown,
         testVars, driverVars, deviceVars, Succeeds, Fails, StageEffect
<1>5. CASE InitializeReturns
  BY <1>5, StageNames
     DEF Inv, TypeOK, PlaceOK, ControlAgrees, InStages, AwakeIsKnown,
         InitializeReturns, Returns, SettlingDeadline, testVars, driverVars,
         deviceVars
<1>6. CASE Wait
  BY <1>6, StageNames
     DEF Inv, TypeOK, PlaceOK, ControlAgrees, InStages, AwakeIsKnown, Wait,
         Enters, Returns, testVars, driverVars, deviceVars
<1>7. CASE Settled
  BY <1>7, StageNames
     DEF Inv, TypeOK, PlaceOK, ControlAgrees, InStages, AwakeIsKnown,
         Settled, Enters, Returns, testVars, driverVars, deviceVars
<1>8. CASE CallReadSample
  BY <1>8, StageNames
     DEF Inv, TypeOK, PlaceOK, ControlAgrees, InStages, AwakeIsKnown,
         CallReadSample, Enters, BeginRead, testVars, driverVars, deviceVars
<1>9. CASE ReadSample
  BY <1>9, StageNames
     DEF Inv, TypeOK, PlaceOK, ControlAgrees, InStages, AwakeIsKnown,
         ReadSample, Succeeds, Fails, DriverReturns, RecordFailure, testVars,
         driverVars, deviceVars
<1>10. CASE ReadSampleReturns
  BY <1>10, StageNames
     DEF Inv, TypeOK, PlaceOK, ControlAgrees, InStages, AwakeIsKnown,
         ReadSampleReturns, FinishedSample, Returns, testVars, driverVars,
         deviceVars
<1>11. CASE ImuFails
  BY <1>11, ShutdownKnown DEF ImuFails, Ends, Inv, ControlAgrees
<1>12. CASE Verdict
  BY <1>12, ShutdownKnown DEF Verdict, Enters, Ends, Inv, ControlAgrees
<1>13. CASE Stop
  BY <1>13, ShutdownKnown DEF Stop, Ends, Inv, ControlAgrees
<1>14. CASE UNCHANGED vars
  BY <1>14, StageNames
     DEF Inv, TypeOK, PlaceOK, ControlAgrees, InStages, AwakeIsKnown, vars,
         testVars, driverVars, deviceVars
<1> QED
  BY <1>1, <1>2, <1>3, <1>4, <1>5, <1>6, <1>7, <1>8, <1>9, <1>10, <1>11,
     <1>12, <1>13, <1>14
     DEF Next, Process

-----------------------------------------------------------------------------
(***************************************************************************)
(* A tick takes the counter one further past every deadline.               *)
(***************************************************************************)
LEMMA TickAfter ==
  ASSUME NEW deadline \in 0 .. TickRange - 1, NEW e \in Int,
         tick \in 0 .. TickRange - 1, -Half < e + 1, e + 1 < Half,
         After(deadline, e), tick' = Later(tick, 1)
  PROVE  \/ tick' = deadline + e + 1
         \/ tick' = deadline + e + 1 + TickRange
         \/ tick' = deadline + e + 1 - TickRange
<1>1. \/ tick' = tick + 1
      \/ tick' = tick + 1 - TickRange /\ tick = TickRange - 1
  BY LaterWraps, Constants
<1> QED
  BY <1>1, Constants DEF After

LEMMA InitializationStep == Inv /\ [Next]_vars => InitializationTimed'
<1> SUFFICES ASSUME Inv, [Next]_vars PROVE InitializationTimed'
  OBVIOUS
<1>0. /\ PlaceOK /\ ClocksOK /\ ControlAgrees
      /\ InitializationTimed /\ SettlingTimed /\ SamplingTimed /\ Measured
  BY DEF Inv, TypeOK
<1>a. /\ Interval[sensor] \in Nat /\ Interval[sensor] + Slack < Half
      /\ Interval[sensor] \in 0 .. TickRange - 1
      /\ pause \in Nat /\ since_sample \in Nat /\ since_normal \in Nat
  BY <1>0, IntervalFits, Constants DEF PlaceOK, ClocksOK
<1>1. CASE Tick
  <2> SUFFICES ASSUME active, state = "initializing", InCall
               PROVE  After(now, pause)'
    BY <1>1 DEF Tick, InitializationTimed, InCall, testVars, driverVars
  <2>1. /\ After(now, pause) /\ pause < CallTicks
        /\ tick' = Later(tick, 1) /\ now' = now /\ pause' = pause + 1
    BY <1>1, <1>0 DEF Tick, InitializationTimed
  <2>2. /\ now \in 0 .. TickRange - 1 /\ tick \in 0 .. TickRange - 1
        /\ pause \in Int /\ -Half < pause + 1 /\ pause + 1 < Half
    BY <1>0, <1>a, <2>1, Constants DEF ClocksOK
  <2>3. \/ tick' = now + pause + 1
        \/ tick' = now + pause + 1 + TickRange
        \/ tick' = now + pause + 1 - TickRange
    BY <2>1, <2>2, TickAfter
  <2> QED
    BY <1>a, <2>1, <2>2, <2>3, Constants DEF After
<1>2. CASE Start
  BY <1>2, <1>0
     DEF InitializationTimed, After, InCall, InStages, ControlAgrees, Start,
         driverVars, deviceVars
<1>3. CASE CallInitialize
  BY <1>3, <1>0, Constants
     DEF CallInitialize, Enters, InitializationTimed, After, ClocksOK
<1>4. CASE Initialize
  BY <1>4, <1>0, StageEnds
     DEF InitializationTimed, After, InCall, InStages, ControlAgrees, testVars
<1>5. CASE InitializeReturns
  BY <1>5, <1>0
     DEF InitializationTimed, After, InCall, InStages, ControlAgrees,
         InitializeReturns, Returns, deviceVars
<1>6. CASE Wait
  BY <1>6, <1>0
     DEF InitializationTimed, After, InCall, InStages, ControlAgrees, Wait,
         Enters, Returns, driverVars, deviceVars
<1>7. CASE Settled
  BY <1>7, <1>0
     DEF InitializationTimed, After, InCall, InStages, ControlAgrees,
         Settled, Enters, Returns, driverVars, deviceVars
<1>8. CASE CallReadSample
  BY <1>8, <1>0
     DEF InitializationTimed, After, InCall, InStages, ControlAgrees,
         CallReadSample, Enters, BeginRead, deviceVars
<1>9. CASE ReadSample
  BY <1>9, <1>0
     DEF InitializationTimed, After, InCall, InStages, ControlAgrees,
         ReadSample, DriverReturns, testVars
<1>10. CASE ReadSampleReturns
  BY <1>10, <1>0
     DEF InitializationTimed, After, InCall, InStages, ControlAgrees,
         ReadSampleReturns, FinishedSample, Returns, deviceVars
<1>11. CASE ImuFails
  BY <1>11, <1>0
     DEF InitializationTimed, After, InCall, InStages, ControlAgrees,
         ImuFails, Ends, Returns, Shutdown
<1>12. CASE Verdict
  BY <1>12, <1>0
     DEF InitializationTimed, After, InCall, InStages, ControlAgrees,
         Verdict, Enters, Ends, Returns, Shutdown
<1>13. CASE Stop
  BY <1>13, <1>0
     DEF InitializationTimed, After, InCall, InStages, ControlAgrees, Stop,
         Ends, Returns, Shutdown
<1>14. CASE UNCHANGED vars
  BY <1>14, <1>0
     DEF InitializationTimed, After, InCall, InStages, ControlAgrees, vars,
         testVars, driverVars, deviceVars
<1> QED
  BY <1>1, <1>2, <1>3, <1>4, <1>5, <1>6, <1>7, <1>8, <1>9, <1>10, <1>11,
     <1>12, <1>13, <1>14
     DEF Next, Process

LEMMA SettlingStep == Inv /\ [Next]_vars => SettlingTimed'
<1> SUFFICES ASSUME Inv, [Next]_vars PROVE SettlingTimed'
  OBVIOUS
<1>0. /\ PlaceOK /\ ClocksOK /\ ControlAgrees
      /\ InitializationTimed /\ SettlingTimed /\ SamplingTimed /\ Measured
  BY DEF Inv, TypeOK
<1>a. /\ Interval[sensor] \in Nat /\ Interval[sensor] + Slack < Half
      /\ Interval[sensor] \in 0 .. TickRange - 1
      /\ pause \in Nat /\ since_sample \in Nat /\ since_normal \in Nat
  BY <1>0, IntervalFits, Constants DEF PlaceOK, ClocksOK
<1>1. CASE Tick
  <2> SUFFICES ASSUME active, state = "settling" PROVE SettlingTimed'
    BY <1>1 DEF Tick, SettlingTimed, testVars
  <2>1. /\ ~InCall /\ pause < StallTicks /\ device = "normal"
        /\ tick' = Later(tick, 1) /\ pause' = pause + 1
        /\ UNCHANGED <<next_sample_at, device>>
        /\ since_normal' = IF since_normal < SettlingTime
                           THEN since_normal + 1 ELSE since_normal
    BY <1>1, <1>0
       DEF Tick, SettlingTimed, ControlAgrees, InCall, InStages, PlaceOK,
           testVars
  <2>2. PICK e \in 0 .. SettlingTime + CallTicks + pause :
          /\ After(next_sample_at, e - SettlingTime)
          /\ since_normal >= e - CallTicks \/ since_normal = SettlingTime
    BY <1>0 DEF SettlingTimed
  <2>3. PICK f \in 0 .. SettlingTime + CallTicks + pause' : f = e + 1
    BY <1>a, <2>1, <2>2, Constants
  <2>4. After(next_sample_at, f - SettlingTime)'
    <3> DEFINE d == e - SettlingTime
    <3>1. /\ next_sample_at \in 0 .. TickRange - 1
          /\ tick \in 0 .. TickRange - 1
          /\ d \in Int /\ -Half < d + 1 /\ d + 1 < Half
      BY <1>0, <1>a, <2>1, <2>2, Constants DEF ClocksOK
    <3>2. After(next_sample_at, d)
      BY <2>2
    <3> HIDE DEF d
    <3>3. \/ tick' = next_sample_at + d + 1
          \/ tick' = next_sample_at + d + 1 + TickRange
          \/ tick' = next_sample_at + d + 1 - TickRange
      BY <2>1, <3>1, <3>2, TickAfter
    <3> QED
      BY <2>1, <2>2, <2>3, <3>1, <3>3, Constants DEF After, d
  <2>5. \/ since_normal' >= f - CallTicks
        \/ since_normal' = SettlingTime
    BY <1>0, <1>a, <2>1, <2>2, <2>3, Constants DEF ClocksOK
  <2>6. device' = "normal"
    BY <2>1
  <2> QED
    BY <2>4, <2>5, <2>6 DEF SettlingTimed, After
<1>2. CASE Start
  BY <1>2, <1>0
     DEF SettlingTimed, After, InCall, InStages, ControlAgrees, Start,
         driverVars, deviceVars
<1>3. CASE CallInitialize
  BY <1>3, <1>0
     DEF SettlingTimed, After, InCall, InStages, ControlAgrees,
         CallInitialize, Enters, BeginInitialize, testVars
<1>4. CASE Initialize
  BY <1>4, <1>0, StageEnds
     DEF SettlingTimed, After, InCall, InStages, ControlAgrees, testVars
<1>5. CASE InitializeReturns
  <2> SUFFICES ASSUME state' = "settling" PROVE SettlingTimed'
    BY DEF SettlingTimed
  <2>1. /\ active /\ state = "initializing" /\ outcome = "ok"
        /\ sensor = "barometer" /\ InCall
        /\ next_sample_at' = Later(now, SettlingTime)
        /\ pause' = 0 /\ UNCHANGED <<tick, device, since_normal>>
    BY <1>5 DEF InitializeReturns, Returns, SettlingDeadline, InCall,
                deviceVars
  <2>2. After(now, pause) /\ pause <= CallTicks /\ device = "normal"
    BY <1>0, <2>1 DEF InitializationTimed, ControlAgrees, Measured
  <2>3. pause \in 0 .. SettlingTime + CallTicks + pause'
    BY <1>a, <2>1, <2>2, Constants
  <2>4. \/ tick' = next_sample_at' + (pause - SettlingTime)
        \/ tick' = next_sample_at' + (pause - SettlingTime) + TickRange
        \/ tick' = next_sample_at' + (pause - SettlingTime) - TickRange
    <3>1. /\ now \in 0 .. TickRange - 1 /\ tick \in 0 .. TickRange - 1
          /\ tick' = tick
      BY <1>0, <2>1 DEF ClocksOK
    <3>2. /\ next_sample_at' \in 0 .. TickRange - 1
          /\ \/ next_sample_at' = now + SettlingTime
             \/ next_sample_at' = now + SettlingTime - TickRange
      BY <2>1, <3>1, LaterWraps, SettlingFits
    <3>3. \/ tick = now + pause
          \/ tick = now + pause - TickRange
      BY <1>a, <2>2, <3>1, Constants DEF After
    <3>4. /\ pause \in Int /\ TickRange \in Int /\ SettlingTime \in Int
          /\ now \in Int /\ tick \in Int /\ tick' = tick
          /\ next_sample_at' \in Int
      BY <1>a, <3>1, <3>2, Constants
    <3>5. CASE next_sample_at' = now + SettlingTime
      BY <3>3, <3>4, <3>5
    <3>6. CASE next_sample_at' = now + SettlingTime - TickRange
      BY <3>3, <3>4, <3>6
    <3> QED
      BY <3>2, <3>5, <3>6
  <2>5. since_normal' >= pause - CallTicks
    BY <1>a, <2>1, <2>2, Constants
  <2> QED
    BY <2>1, <2>2, <2>3, <2>4, <2>5 DEF SettlingTimed, After
<1>6. CASE Wait
  <2> SUFFICES ASSUME active, state = "settling" PROVE SettlingTimed'
    BY <1>6 DEF Wait, Enters, Returns, SettlingTimed
  <2>1. /\ ~Reached(next_sample_at) /\ pause' = 0
        /\ UNCHANGED <<tick, next_sample_at, device, since_normal>>
    BY <1>6 DEF Wait, Enters, deviceVars
  <2>2. PICK e \in 0 .. SettlingTime + CallTicks + pause :
          /\ After(next_sample_at, e - SettlingTime)
          /\ since_normal >= e - CallTicks \/ since_normal = SettlingTime
    BY <1>0 DEF SettlingTimed
  <2>3. pause <= StallTicks
    BY <1>6, <1>0 DEF ControlAgrees, Wait, Enters, InCall
  <2>4. e - SettlingTime < 0
    BY <1>0, <1>a, <2>1, <2>2, <2>3, ReachedInTime, Constants DEF ClocksOK
  <2>5. e \in 0 .. SettlingTime + CallTicks + pause'
    BY <2>1, <2>4, Constants
  <2> QED
    BY <1>0, <2>1, <2>2, <2>5 DEF SettlingTimed, After
<1>7. CASE Settled
  BY <1>7, <1>0
     DEF SettlingTimed, After, InCall, InStages, ControlAgrees, Settled,
         Enters, Returns, driverVars, deviceVars
<1>8. CASE CallReadSample
  BY <1>8, <1>0
     DEF SettlingTimed, After, InCall, InStages, ControlAgrees,
         CallReadSample, Enters, BeginRead, deviceVars
<1>9. CASE ReadSample
  BY <1>9, <1>0
     DEF SettlingTimed, After, InCall, InStages, ControlAgrees, ReadSample,
         DriverReturns, testVars
<1>10. CASE ReadSampleReturns
  BY <1>10, <1>0
     DEF SettlingTimed, After, InCall, InStages, ControlAgrees,
         ReadSampleReturns, FinishedSample, Returns, deviceVars
<1>11. CASE ImuFails
  BY <1>11, <1>0
     DEF SettlingTimed, After, InCall, InStages, ControlAgrees, ImuFails,
         Ends, Returns, Shutdown
<1>12. CASE Verdict
  BY <1>12, <1>0
     DEF SettlingTimed, After, InCall, InStages, ControlAgrees, Verdict,
         Enters, Ends, Returns, Shutdown
<1>13. CASE Stop
  BY <1>13, <1>0
     DEF SettlingTimed, After, InCall, InStages, ControlAgrees, Stop, Ends,
         Returns, Shutdown
<1>14. CASE UNCHANGED vars
  BY <1>14, <1>0
     DEF SettlingTimed, After, InCall, InStages, ControlAgrees, vars,
         testVars, driverVars, deviceVars
<1> QED
  BY <1>1, <1>2, <1>3, <1>4, <1>5, <1>6, <1>7, <1>8, <1>9, <1>10, <1>11,
     <1>12, <1>13, <1>14
     DEF Next, Process

LEMMA SamplingStep == Inv /\ [Next]_vars => SamplingTimed'
<1> SUFFICES ASSUME Inv, [Next]_vars PROVE SamplingTimed'
  OBVIOUS
<1>0. /\ PlaceOK /\ ClocksOK /\ ControlAgrees
      /\ InitializationTimed /\ SettlingTimed /\ SamplingTimed /\ Measured
  BY DEF Inv, TypeOK
<1>a. /\ Interval[sensor] \in Nat /\ Interval[sensor] + Slack < Half
      /\ Interval[sensor] \in 0 .. TickRange - 1
      /\ pause \in Nat /\ since_sample \in Nat /\ since_normal \in Nat
  BY <1>0, IntervalFits, Constants DEF PlaceOK, ClocksOK
<1>1. CASE Tick
  <2> SUFFICES ASSUME active, state = "sampling" PROVE SamplingTimed'
    BY <1>1 DEF Tick, SamplingTimed, testVars
  <2> DEFINE d == since_sample - Interval[sensor]
  <2>1. /\ After(next_sample_at, d)
        /\ IF InCall THEN since_sample = pause /\ pause < CallTicks
           ELSE /\ since_sample <= Interval[sensor] + CallTicks + pause
                /\ pause < StallTicks
    BY <1>1, <1>0 DEF Tick, SamplingTimed
  <2>2. /\ since_sample < MaxSince /\ since_sample < Interval[sensor] + Slack
        /\ d \in Int /\ -Half < d + 1 /\ d + 1 < Half
    BY <1>0, <1>a, <2>1, Constants DEF MaxSince
  <2>3. /\ tick' = Later(tick, 1) /\ pause' = pause + 1
        /\ since_sample' = since_sample + 1
        /\ UNCHANGED <<sensor, next_sample_at, at, outcome>>
    BY <1>1, <2>2 DEF Tick, testVars, driverVars
  <2>4. /\ next_sample_at \in 0 .. TickRange - 1
        /\ tick \in 0 .. TickRange - 1
    BY <1>0 DEF ClocksOK
  <2>5. \/ tick' = next_sample_at + d + 1
        \/ tick' = next_sample_at + d + 1 + TickRange
        \/ tick' = next_sample_at + d + 1 - TickRange
    <3> HIDE DEF d
    <3> QED
      BY <2>1, <2>2, <2>3, <2>4, TickAfter
  <2>6. After(next_sample_at, since_sample - Interval[sensor])'
    BY <1>a, <2>3, <2>4, <2>5, Constants DEF After
  <2>7. IF InCall' THEN since_sample' = pause'
        ELSE since_sample' <= Interval[sensor] + CallTicks + pause'
    BY <1>a, <2>1, <2>3, Constants DEF InCall
  <2> QED
    BY <2>3, <2>6, <2>7 DEF SamplingTimed
<1>2. CASE Start
  BY <1>2, <1>0
     DEF SamplingTimed, After, InCall, InStages, ControlAgrees,
         Start, driverVars, deviceVars
<1>3. CASE CallInitialize
  BY <1>3, <1>0
     DEF SamplingTimed, After, InCall, InStages, ControlAgrees,
         CallInitialize, Enters, BeginInitialize, testVars
<1>4. CASE Initialize
  BY <1>4, <1>0, StageEnds
     DEF SamplingTimed, After, InCall, InStages, ControlAgrees,
         testVars
<1>5. CASE InitializeReturns
  <2> SUFFICES ASSUME state' = "sampling" PROVE SamplingTimed'
    BY DEF SamplingTimed
  <2>1. /\ active /\ state = "initializing" /\ InCall
        /\ next_sample_at' = now /\ since_sample' = Interval[sensor] + pause
        /\ pause' = 0 /\ ~InCall' /\ UNCHANGED <<sensor, tick>>
    BY <1>5 DEF InitializeReturns, Returns, InCall
  <2>2. After(now, pause) /\ pause <= CallTicks
    BY <1>0, <2>1 DEF InitializationTimed, ControlAgrees
  <2>3. /\ since_sample' - Interval[sensor] = pause
        /\ since_sample' <= Interval[sensor] + CallTicks + pause'
    BY <1>a, <2>1, <2>2, Constants
  <2> QED
    BY <2>1, <2>2, <2>3 DEF SamplingTimed, After
<1>6. CASE Wait
  <2> SUFFICES ASSUME active, state = "sampling" PROVE SamplingTimed'
    BY <1>6 DEF Wait, Enters, Returns, SamplingTimed
  <2> DEFINE d == since_sample - Interval[sensor]
  <2>1. /\ ~Reached(next_sample_at) /\ pause' = 0 /\ ~InCall /\ ~InCall'
        /\ UNCHANGED <<sensor, tick, next_sample_at, since_sample>>
    BY <1>6 DEF Wait, Enters, InCall, driverVars
  <2>2. /\ After(next_sample_at, d)
        /\ since_sample <= Interval[sensor] + CallTicks + pause
        /\ pause <= StallTicks
    BY <1>0, <2>1 DEF SamplingTimed, ControlAgrees, Wait, Enters
  <2>3. /\ d \in Int /\ -Half < d /\ d < Half
        /\ next_sample_at \in 0 .. TickRange - 1
        /\ tick \in 0 .. TickRange - 1
    BY <1>0, <1>a, <2>2, Constants DEF ClocksOK
  <2>4. d < 0
    <3> HIDE DEF d
    <3> QED
      BY <2>1, <2>2, <2>3, ReachedInTime
  <2>5. since_sample <= Interval[sensor] + CallTicks + pause'
    BY <1>a, <2>1, <2>4, Constants
  <2> QED
    BY <2>1, <2>2, <2>5 DEF SamplingTimed, After
<1>7. CASE Settled
  <2>1. /\ pause' = 0 /\ ~InCall' /\ next_sample_at' = tick
        /\ since_sample' = Interval[sensor] /\ UNCHANGED <<sensor, tick>>
    BY <1>7 DEF Settled, Enters, InCall, driverVars
  <2>2. /\ since_sample' - Interval[sensor] = 0 /\ tick = tick + 0
        /\ since_sample' <= Interval[sensor] + CallTicks + pause'
    BY <1>0, <1>a, <2>1, Constants DEF ClocksOK
  <2> QED
    BY <2>1, <2>2 DEF SamplingTimed, After
<1>8. CASE CallReadSample
  <2>1. /\ pause' = 0 /\ InCall' /\ since_sample' = 0
        /\ next_sample_at' = Later(tick, Interval[sensor])
        /\ UNCHANGED <<sensor, tick>>
    BY <1>8 DEF CallReadSample, Enters, BeginRead, InCall
  <2>2. /\ tick \in 0 .. TickRange - 1
        /\ next_sample_at' \in 0 .. TickRange - 1
        /\ \/ next_sample_at' = tick + Interval[sensor]
           \/ next_sample_at' = tick + Interval[sensor] - TickRange
    BY <1>0, <1>a, <2>1, LaterWraps DEF ClocksOK
  <2>3. After(next_sample_at, since_sample - Interval[sensor])'
    BY <1>a, <2>1, <2>2, Constants DEF After
  <2> QED
    BY <2>1, <2>3 DEF SamplingTimed
<1>9. CASE ReadSample
  BY <1>9, <1>0
     DEF SamplingTimed, After, InCall, InStages, ControlAgrees,
         ReadSample, DriverReturns, testVars
<1>10. CASE ReadSampleReturns
  <2> SUFFICES ASSUME state' = "sampling" PROVE SamplingTimed'
    BY DEF SamplingTimed
  <2>1. /\ active /\ state = "sampling" /\ InCall
        /\ pause' = 0 /\ ~InCall'
        /\ UNCHANGED <<sensor, tick, next_sample_at, since_sample>>
    BY <1>10 DEF ReadSampleReturns, InCall
  <2>2. /\ After(next_sample_at, since_sample - Interval[sensor])
        /\ since_sample = pause /\ pause <= CallTicks
    BY <1>0, <2>1 DEF SamplingTimed, ControlAgrees
  <2>3. since_sample' <= Interval[sensor] + CallTicks + pause'
    BY <1>a, <2>1, <2>2, Constants
  <2> QED
    BY <2>1, <2>2, <2>3 DEF SamplingTimed, After
<1>11. CASE ImuFails
  BY <1>11, <1>0
     DEF SamplingTimed, After, InCall, InStages, ControlAgrees,
         ImuFails, Ends, Returns, Shutdown
<1>12. CASE Verdict
  BY <1>12, <1>0
     DEF SamplingTimed, After, InCall, InStages, ControlAgrees,
         Verdict, Enters, Ends, Returns, Shutdown
<1>13. CASE Stop
  BY <1>13, <1>0
     DEF SamplingTimed, After, InCall, InStages, ControlAgrees,
         Stop, Ends, Returns, Shutdown
<1>14. CASE UNCHANGED vars
  BY <1>14, <1>0
     DEF SamplingTimed, After, InCall, InStages, ControlAgrees,
         vars, testVars, driverVars, deviceVars
<1> QED
  BY <1>1, <1>2, <1>3, <1>4, <1>5, <1>6, <1>7, <1>8, <1>9, <1>10, <1>11,
     <1>12, <1>13, <1>14
     DEF Next, Process

LEMMA MeasuredStep == Inv /\ [Next]_vars => Measured'
<1> SUFFICES ASSUME Inv, [Next]_vars PROVE Measured'
  OBVIOUS
<1>0. /\ PlaceOK /\ ClocksOK /\ ControlAgrees
      /\ InitializationTimed /\ SettlingTimed /\ SamplingTimed /\ Measured
  BY DEF Inv, TypeOK
<1>a. /\ Interval[sensor] \in Nat /\ Interval[sensor] + Slack < Half
      /\ Interval[sensor] \in 0 .. TickRange - 1
      /\ pause \in Nat /\ since_sample \in Nat /\ since_normal \in Nat
  BY <1>0, IntervalFits, Constants DEF PlaceOK, ClocksOK
<1>1. CASE Tick
  <2>1. since_normal' >= since_normal
    BY <1>1, <1>0, <1>a DEF Tick
  <2>2. /\ UNCHANGED <<sensor, active, state, outcome, device>>
        /\ since_normal' \in Nat
    BY <1>1, <1>a DEF Tick, testVars, driverVars
  <2> QED
    BY <1>0, <1>a, <2>1, <2>2, Constants DEF Measured
<1>2. CASE Start
  BY <1>2, <1>0
     DEF Measured, After, InCall, InStages, ControlAgrees,
         Start, driverVars, deviceVars
<1>3. CASE CallInitialize
  BY <1>3, <1>0
     DEF Measured, After, InCall, InStages, ControlAgrees,
         CallInitialize, Enters, BeginInitialize, testVars
<1>4. CASE Initialize
  <2>1. state = "initializing" /\ UNCHANGED <<state, sensor>>
    BY <1>4, <1>0, StageEnds DEF ControlAgrees, testVars
  <2>2. outcome' = "ok" => device' = "normal"
    BY <1>4, <1>0, StageEnds
       DEF ControlAgrees, InStages, Succeeds, StageEffect
  <2> QED
    BY <2>1, <2>2 DEF Measured
<1>5. CASE InitializeReturns
  BY <1>5, <1>0
     DEF Measured, After, InCall, InStages, ControlAgrees,
         InitializeReturns, Returns, deviceVars
<1>6. CASE Wait
  BY <1>6, <1>0
     DEF Measured, After, InCall, InStages, ControlAgrees,
         Wait, Enters, Returns, driverVars, deviceVars
<1>7. CASE Settled
  <2>1. /\ active /\ state = "settling" /\ Reached(next_sample_at)
        /\ ~InCall /\ outcome' = "none" /\ UNCHANGED since_normal
    BY <1>7 DEF Settled, Enters, InCall, driverVars, deviceVars
  <2>2. PICK e \in 0 .. SettlingTime + CallTicks + pause :
          /\ After(next_sample_at, e - SettlingTime)
          /\ since_normal >= e - CallTicks \/ since_normal = SettlingTime
    BY <1>0, <2>1 DEF SettlingTimed
  <2>3. pause <= StallTicks
    BY <1>0, <2>1 DEF ControlAgrees
  <2>4. e - SettlingTime >= 0
    BY <1>0, <1>a, <2>1, <2>2, <2>3, ReachedInTime, Constants DEF ClocksOK
  <2>5. since_normal' >= SettlingTime - CallTicks
    BY <1>a, <2>1, <2>2, <2>4, Constants
  <2> QED
    BY <2>1, <2>5 DEF Measured
<1>8. CASE CallReadSample
  BY <1>8, <1>0
     DEF Measured, After, InCall, InStages, ControlAgrees,
         CallReadSample, Enters, BeginRead, deviceVars
<1>9. CASE ReadSample
  BY <1>9, <1>0
     DEF Measured, After, InCall, InStages, ControlAgrees,
         ReadSample, DriverReturns, testVars
<1>10. CASE ReadSampleReturns
  BY <1>10, <1>0
     DEF Measured, After, InCall, InStages, ControlAgrees,
         ReadSampleReturns, FinishedSample, Returns, deviceVars
<1>11. CASE ImuFails
  BY <1>11, <1>0
     DEF Measured, After, InCall, InStages, ControlAgrees,
         ImuFails, Ends, Returns, Shutdown
<1>12. CASE Verdict
  BY <1>12, <1>0
     DEF Measured, After, InCall, InStages, ControlAgrees,
         Verdict, Enters, Ends, Returns, Shutdown
<1>13. CASE Stop
  BY <1>13, <1>0
     DEF Measured, After, InCall, InStages, ControlAgrees,
         Stop, Ends, Returns, Shutdown
<1>14. CASE UNCHANGED vars
  BY <1>14, <1>0
     DEF Measured, After, InCall, InStages, ControlAgrees,
         vars, testVars, driverVars, deviceVars
<1> QED
  BY <1>1, <1>2, <1>3, <1>4, <1>5, <1>6, <1>7, <1>8, <1>9, <1>10, <1>11,
     <1>12, <1>13, <1>14
     DEF Next, Process
-----------------------------------------------------------------------------
LEMMA InitInv == Init => Inv
<1> SUFFICES ASSUME Init PROVE Inv
  OBVIOUS
<1>1. FlagsOK
  BY DEF Init, FlagsOK
<1>2. PlaceOK
  BY DEF Init, PlaceOK
<1>3. ClocksOK
  BY <1>2, Constants, IntervalFits DEF Init, ClocksOK, MaxSince, PlaceOK
<1>4. /\ ControlAgrees /\ InitializationTimed /\ SettlingTimed
      /\ SamplingTimed /\ Measured
  BY DEF Init, ControlAgrees, InStages, InitializationTimed, SettlingTimed,
         SamplingTimed, Measured
<1>5. AwakeIsKnown
  BY DEF Init, AwakeIsKnown
<1> QED
  BY <1>1, <1>2, <1>3, <1>4, <1>5 DEF Inv, TypeOK

LEMMA NextInv == Inv /\ [Next]_vars => Inv'
BY FlagsStep, PlaceStep, ClocksStep, ControlStep, InitializationStep,
   SettlingStep, SamplingStep, MeasuredStep, AwakeStep DEF Inv, TypeOK

LEMMA Invariant == Spec => []Inv
BY InitInv, NextInv, PTL DEF Spec
-----------------------------------------------------------------------------
(***************************************************************************)
(* Every variable keeps its type; no call of process() and no stall is     *)
(* longer than its bound, and since_sample is never cut off at MaxSince    *)
(* while the test samples (SamplesInTime).                                 *)
(***************************************************************************)
THEOREM TypeCorrect == Spec => []TypeOK
<1>1. Inv => TypeOK
  BY DEF Inv
<1> QED
  BY <1>1, Invariant, PTL

(***************************************************************************)
(* Wherever the counter wraps, two samples keep their distance: the signed *)
(* comparison in process() is right for every delay below half the range.  *)
(***************************************************************************)
THEOREM SamplesKeepDistance == Spec => SamplesSpaced
<1> DEFINE Spaced == at # "sample_read" /\ at' = "sample_read"
                       => since_sample >= Interval[sensor]
<1>1. ASSUME Inv, [Next]_vars PROVE [Spaced]_vars
  <2> SUFFICES ASSUME at # "sample_read", at' = "sample_read"
               PROVE  since_sample >= Interval[sensor]
    OBVIOUS
  <2>1. CallReadSample
    <3>1. ~Initialize
      BY <1>1, StageEnds DEF Inv, TypeOK
    <3> QED
      BY <1>1, <3>1
         DEF Next, Process, vars, driverVars, Tick, Start, CallInitialize,
             BeginInitialize, Enters, InitializeReturns, Wait, Settled,
             ReadSample, ReadSampleReturns, ImuFails, Verdict, Stop, Ends,
             Stages
  <2>2. /\ active /\ state = "sampling" /\ ~InCall
        /\ Reached(next_sample_at)
    BY <2>1 DEF CallReadSample, Enters, InCall
  <2> DEFINE d == since_sample - Interval[sensor]
  <2>3. /\ After(next_sample_at, d)
        /\ since_sample <= Interval[sensor] + CallTicks + pause
        /\ pause <= StallTicks
    BY <1>1, <2>2 DEF Inv, SamplingTimed, ControlAgrees
  <2>4. /\ Interval[sensor] \in Nat /\ Interval[sensor] + Slack < Half
        /\ since_sample \in Nat /\ pause \in Nat
        /\ next_sample_at \in 0 .. TickRange - 1
        /\ tick \in 0 .. TickRange - 1
    BY <1>1, IntervalFits, Constants DEF Inv, TypeOK, PlaceOK, ClocksOK
  <2>5. d \in Int /\ -Half < d /\ d < Half
    BY <2>3, <2>4, Constants
  <2>6. d >= 0
    <3> HIDE DEF d
    <3> QED
      BY <2>2, <2>3, <2>4, <2>5, ReachedInTime
  <2> QED
    BY <2>4, <2>6
<1> QED
  BY <1>1, Invariant, PTL DEF Spec, SamplesSpaced

(***************************************************************************)
(* No deadline is missed by a whole turn of the counter.                   *)
(***************************************************************************)
THEOREM SamplesNeverCease == Spec => []SamplesInTime
<1>1. Inv => SamplesInTime
  <2> SUFFICES ASSUME Inv, active, state = "sampling"
               PROVE  since_sample <= Interval[sensor] + Slack
    BY DEF SamplesInTime
  <2>1. /\ Interval[sensor] \in Nat /\ since_sample \in Nat
        /\ pause \in Nat
    BY IntervalFits, Constants DEF Inv, TypeOK, PlaceOK, ClocksOK
  <2> QED
    BY <2>1, Constants DEF Inv, SamplingTimed, ControlAgrees
<1> QED
  BY <1>1, Invariant, PTL

(***************************************************************************)
(* BMP388_SETTLING_TIME_MS is waited for, whatever the counter shows.      *)
(***************************************************************************)
THEOREM SettlesFirst == Spec => []SettledBeforeSampling
<1>1. Inv => SettledBeforeSampling
  BY DEF Inv, ControlAgrees, Measured, SettledBeforeSampling
<1> QED
  BY <1>1, Invariant, PTL

(***************************************************************************)
(* bmp388_driver_shutdown asks its flag before it clears it.               *)
(***************************************************************************)
THEOREM SleepsAfterTest == Spec => []AsleepAfterTest
<1>1. Inv => AsleepAfterTest
  BY DEF Inv, TypeOK, PlaceOK, ControlAgrees, InStages, AwakeIsKnown,
         AsleepAfterTest
<1> QED
  BY <1>1, Invariant, PTL
-----------------------------------------------------------------------------
(***************************************************************************)
(* The sensor tests as their runner sees them: a call of process() shows   *)
(* when it returns, and is then one of the steps of the component.         *)
(***************************************************************************)
StepsOfSensor == IF sensor = "imu" THEN ImuSteps ELSE BarometerSteps

RunnerSees ==
  \/ UNCHANGED <<active, state, result>>
  \/ /\ ~active /\ active'
     /\ state' = "initializing" /\ result' = "none"
  \/ /\ active /\ ~active'
     /\ result' = "none"
  \/ /\ active
     /\ Step(state, result', state') \in StepsOfSensor
     /\ result' \in Terminal => ~active'
     /\ result' \notin Terminal => active'

LEMMA StepSeenByRunner ==
  ASSUME Inv, [Next]_vars
  PROVE  RunnerSees /\ sensor' = sensor
<1> USE DEF RunnerSees, StepsOfSensor
<1>0. /\ sensor \in {"imu", "barometer"}
      /\ state = "settling" => sensor = "barometer"
  BY DEF Inv, TypeOK, PlaceOK, ControlAgrees
<1>1. CASE Start
  BY <1>1 DEF Start
<1>2. CASE Tick \/ CallInitialize \/ Initialize \/ CallReadSample \/ ReadSample
           \/ UNCHANGED vars
  BY <1>2 DEF Tick, CallInitialize, Enters, Initialize, CallReadSample,
              ReadSample, testVars, vars
<1>3. CASE InitializeReturns
  <2>1. /\ active /\ active' = active /\ sensor' = sensor
        /\ state = "initializing"
        /\ \/ /\ sensor = "imu"
              /\ result' = "imu_ready" /\ state' = "sampling"
           \/ /\ sensor = "barometer"
              /\ result' = "barometer_stabilizing" /\ state' = "settling"
           \/ /\ sensor = "barometer"
              /\ result' = "component_failure" /\ state' = "failed"
    BY <1>3 DEF InitializeReturns, Returns
  <2> QED
    BY <2>1 DEF ImuSteps, BarometerSteps, Terminal
<1>4. CASE Wait
  <2>1. /\ active /\ active' = active /\ sensor' = sensor
        /\ state \in {"settling", "sampling"}
        /\ result' = "running" /\ state' = state
    BY <1>4 DEF Wait, Enters, Returns
  <2> QED
    BY <1>0, <2>1 DEF ImuSteps, BarometerSteps, Terminal
<1>5. CASE Settled
  <2>1. /\ active /\ active' = active /\ sensor' = sensor
        /\ state = "settling"
        /\ result' = "barometer_ready" /\ state' = "sampling"
    BY <1>5 DEF Settled, Enters, Returns
  <2> QED
    BY <1>0, <2>1 DEF BarometerSteps, Terminal
<1>6. CASE ReadSampleReturns
  <2>1. /\ active /\ active' = active /\ sensor' = sensor
        /\ state = "sampling"
        /\ \/ result' = SampleEvent[sensor] /\ state' = "sampling"
           \/ /\ sensor = "barometer"
              /\ result' = "component_failure" /\ state' = "failed"
    BY <1>6 DEF ReadSampleReturns, FinishedSample, Returns
  <2>2. SampleEvent[sensor] =
          IF sensor = "imu" THEN "imu_sample" ELSE "barometer_sample"
    BY <1>0 DEF SampleEvent
  <2> QED
    BY <1>0, <2>1, <2>2 DEF ImuSteps, BarometerSteps, Terminal
<1>7. CASE ImuFails \/ Verdict
  <2>1. /\ active /\ ~active' /\ sensor' = sensor
        /\ result' = "failed" /\ state' = "failed"
        /\ \/ sensor = "imu" /\ state \in {"initializing", "sampling"}
           \/ state = "failed"
    BY <1>7
    DEF ImuFails, Verdict, Enters, Ends, Returns, Inv, ControlAgrees
  <2> QED
    BY <1>0, <2>1 DEF ImuSteps, BarometerSteps, Terminal
<1>8. CASE Stop
  BY <1>8 DEF Stop, Ends, Returns
<1> QED
  BY <1>1, <1>2, <1>3, <1>4, <1>5, <1>6, <1>7, <1>8 DEF Next, Process

(***************************************************************************)
(* What SessionProtocol takes a sensor test to do is what it does: the     *)
(* sequences of states and results are those of ComponentLifecycle, for    *)
(* each sensor, with stops and failures at any stage.                      *)
(***************************************************************************)
THEOREM LifecycleImplemented == Spec => ImplementsLifecycle
<1> USE DEF Off, ImuLifecycle!Off, BarometerLifecycle!Off
<1> DEFINE Component(name) == IF sensor = name /\ active THEN state ELSE Off
           Result(name) == IF sensor = name THEN result ELSE "none"
<1>1. Init => ImuLifecycle!Init /\ BarometerLifecycle!Init
  BY DEF Init, ImuLifecycle!Init, BarometerLifecycle!Init
<1>2. ASSUME Inv, [Next]_vars
      PROVE  /\ [ImuLifecycle!Next]_<<Component("imu"), Result("imu")>>
             /\ [BarometerLifecycle!Next]_
                  <<Component("barometer"), Result("barometer")>>
  <2>0. /\ RunnerSees /\ sensor' = sensor
        /\ state \in {"initializing", "settling", "sampling", "failed"}
        /\ sensor \in {"imu", "barometer"}
    BY <1>2, StepSeenByRunner DEF Inv, TypeOK, PlaceOK
  <2>1. CASE UNCHANGED <<active, state, result>>
    BY <2>0, <2>1
  <2>2. CASE /\ ~active /\ active'
             /\ state' = "initializing" /\ result' = "none"
    BY <2>0, <2>2
    DEF ImuLifecycle!Next, ImuLifecycle!Start, ImuStarts,
        BarometerLifecycle!Next, BarometerLifecycle!Start, BarometerStarts
  <2>3. CASE active /\ ~active' /\ result' = "none"
    BY <2>0, <2>3
    DEF ImuLifecycle!Next, ImuLifecycle!Stop, BarometerLifecycle!Next,
        BarometerLifecycle!Stop
  <2>4. CASE /\ active
             /\ Step(state, result', state') \in StepsOfSensor
             /\ result' \in Terminal => ~active'
             /\ result' \notin Terminal => active'
    <3> DEFINE step == Step(state, result', state')
    <3>1. step.from = state /\ step.result = result' /\ step.to = state'
      BY DEF Step
    <3>2. step \in StepsOfSensor
      BY <2>4
    <3> HIDE DEF step
    <3>3. CASE sensor = "imu"
      <4>1. ImuLifecycle!Process
        BY <2>0, <2>4, <3>1, <3>2, <3>3
        DEF ImuLifecycle!Process, ImuLifecycle!Terminal, Terminal,
            StepsOfSensor
      <4> QED
        BY <2>0, <3>3, <4>1 DEF ImuLifecycle!Next
    <3>4. CASE sensor = "barometer"
      <4>1. BarometerLifecycle!Process
        BY <2>0, <2>4, <3>1, <3>2, <3>4
        DEF BarometerLifecycle!Process, BarometerLifecycle!Terminal, Terminal,
            StepsOfSensor
      <4> QED
        BY <2>0, <3>4, <4>1 DEF BarometerLifecycle!Next
    <3> QED
      BY <2>0, <3>3, <3>4
  <2> QED
    BY <2>0, <2>1, <2>2, <2>3, <2>4 DEF RunnerSees
<1> QED
  BY <1>1, <1>2, Invariant, PTL
  DEF Spec, ImplementsLifecycle, ImuLifecycle!Spec, BarometerLifecycle!Spec
=============================================================================
