SPECIFICATION Spec
CONSTANTS
  N = 3
  Hash = {0, 1, 2, 9, 255}
INVARIANT SameAnswers
PROPERTY IsRegularGroup
