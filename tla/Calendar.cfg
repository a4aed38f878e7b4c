CONSTANTS
  FirstYear = 1900
  LastYear = 2300
  DaysBefore = 365
  Step = 900
  Negative = 50000
  kSmallBuffer = 24
  kMaxNumericSize = 8
SPECIFICATION Spec
INVARIANTS DatesAgree TimesRoundTrip LinesRendered
CHECK_DEADLOCK FALSE
