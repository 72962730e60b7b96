SPECIFICATION HeapSpec
CONSTANTS
  Undef = Undef
  u = u
  f = f
  Values = {u}
  MaxIndex = 1
  BaseIndices = {0}
  Lockable = {"arr"}
  Descs <- MCDescs
  ArrayBase = FALSE
  o1 = o1
  m1 = m1
  x1 = x1
  End = End
INVARIANTS   MethodsConform MemorySound
PROPERTIES EssentialInvariants GarbageFreed
