SPECIFICATION Spec
CONSTANT Inputs <- Lines
INVARIANTS
  SwitchesAreSpelledOut
  EveryArgumentCounts
CHECK_DEADLOCK FALSE
