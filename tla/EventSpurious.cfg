CONSTANTS
  Waiters = {main}
  AutoReset = TRUE
  Resets = FALSE
  Spurious = TRUE
  MaxSets = 4
  Clocks = {0, 1, 499999, 500000, 999000, 999999}
  Timeouts = {0, 1, 500, 501, 999, 1000, 1999, 2000}
SPECIFICATION Spec
INVARIANT AssertHolds
