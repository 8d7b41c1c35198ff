SPECIFICATION FairSpec
CONSTANTS
  ExpBits = 4
  FracBits = 1
  Puzzles = {"bitXor", "tmin", "negate", "conditional", "floatScale2", "floatFloat2Int"}
  test_set <- MCTestSet
  TEST_RANGE = 4
  Randoms = {5}
  Spots = {31}
  Given = {29, 31}
INVARIANTS TypeOK VerdictsRight RightInRange AlarmCovers
PROPERTIES EveryPuzzleEnds
CHECK_DEADLOCK FALSE
