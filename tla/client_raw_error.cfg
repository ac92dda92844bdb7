CONSTANTS
  Caller = {time, prices, info}
  Threshold = 2
  Recovery = 2
  Attempts = 2
  MaxCount = 3
SPECIFICATION Spec
INVARIANT FailsAsUnavailable
SYMMETRY CallerSymmetry
