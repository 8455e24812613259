SPECIFICATION Spec
CONSTANTS
  Lots = {l1, l2, l3, l4}
  NSlots = 2
  BufCap = 2
  MaxStarts = 3
SYMMETRY Symmetry
INVARIANTS HeldIsPaid OnlyStrandedMissing
PROPERTIES SlowPathSavesAll QuitResumes
