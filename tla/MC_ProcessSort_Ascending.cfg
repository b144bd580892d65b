CONSTANTS
  Names = {"a", "b", "c"}
  Collate <- MCCollate
  NaN = NaN
  CpuVals = {0, 1}
  Vals = {0, 1, 2}
SPECIFICATION Spec
INVARIANT AscendingSortIsStrictWeak
