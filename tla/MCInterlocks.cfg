SPECIFICATION FairInterlockSpec
CONSTANTS
  t1 = t1
  t2 = t2
  Callers = {t1, t2}
  Nobody = Nobody
  Commands = 2
  Deadline = 2
  Discovery = 1
  MaxAge = 2
  MaxTime = 5
  MaxCalls = 4
  Drivers = {t1}
  Operation = {"adc", "status", "set", "transfer"}
  Sensing = {"adc", "status"}
  Effects <- MCEffects
  Cases <- MCCases
INVARIANTS
  RejectedIsHarmless
  OneCommandLate
PROPERTIES
  NeverMixed
  GatedByFreshWitness
  CallEnds
CHECK_DEADLOCK FALSE
