SPECIFICATION Spec
CONSTANTS
  MaxIter = 3
  MaxCutOffs = 2
INVARIANT AnswerIsFinished
