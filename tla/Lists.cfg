SPECIFICATION Spec
CONSTANTS
  t1 = t1
  t2 = t2
  Texts <- MCTexts
  MaxLen = 2
  MaxID = 3
INVARIANT FileFollows
INVARIANT CompiledIsCurrent
INVARIANT ListsInv
INVARIANT ViewInv
