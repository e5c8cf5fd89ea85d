SPECIFICATION Spec
CONSTANTS
  Kilo = 2
  Precision = 128
  Spans <- MCSpans
  Fractions <- MCFractions
  Horizon = 32
INVARIANTS
  ClockNormal
  ClockWithin
