SPECIFICATION Spec
CONSTANTS
  TickRange = 20
  SettlingTime = 5
  BarometerInterval = 3
  ImuInterval = 2
  CallTicks = 1
  StallTicks = 3
INVARIANTS
  SamplesInTime
  SettledBeforeSampling
  AsleepAfterTest
PROPERTIES
  SamplesSpaced
  ImplementsLifecycle
