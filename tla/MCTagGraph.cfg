CONSTANTS
  TagIds = {t1, t2, t3}
SPECIFICATION MCSpec
INVARIANTS CycleCheckCorrect ClosureCorrect
PROPERTIES CallTerminates
