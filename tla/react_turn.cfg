SPECIFICATION FairSpec
CONSTANTS
  MaxIter = 3
  MaxCutOffs = 2
INVARIANTS BudgetKept SettledWhenCompleted AnswerIsCurrent HeldAnswerFirst
PROPERTY RunEnds
